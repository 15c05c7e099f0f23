--------------------------- MODULE Metadata_proofs ---------------------------
(***************************************************************************)
(* For every set of contracts, tokens and tasks: the row and the items of  *)
(* an asset are of one answer, and the row has every change that was asked *)
(* to be fetched, unless the asset was disturbed.                          *)
(***************************************************************************)
EXTENDS Metadata, TLAPS

-----------------------------------------------------------------------------
(* The invariants the proofs need.                                         *)

Busy(s) == ~At(s, "idle")
Filling(s) == task[s].at \in {"delete", "insert"}
Target(s) == task[s].target

(* Messages and tasks are of keys that the asset is asked for with.        *)
KeysValid ==
  /\ \A k \in queued \cup handed : k \in KeysOf(k[1])
  /\ \A s \in Task : Busy(s) => task[s].key \in Key /\ task[s].key \in KeysOf(AssetOf(s))

(* A task is for its asset's row unless it has had no answer.  From its    *)
(* first DELETE on there is a row, and the contract whose row a token's    *)
(* task has written is known.                                              *)
TaskValid(s) ==
  /\ Target(s) \in Asset
  /\ Target(s) # AssetOf(s) => AssetOf(s) \in failed
  /\ Filling(s) => metadata[Target(s)] # Null
  /\ Filling(s) /\ Target(s) # AssetOf(s) => Target(s) \in erased
  /\ ~Filling(s) => task[s].part = 1
  /\ At(s, "name") => ~IsToken(s) /\ task[s].code = standard[AssetOf(s)[1]]

TasksValid == \A s \in Task : Busy(s) => TaskValid(s)

AnnouncedIsPast == \A x \in Asset : announced[x] <= version[x]

Base == TypeOK /\ KeysValid /\ TasksValid /\ AnnouncedIsPast

(* Two tasks of one asset are known.                                       *)
Alone ==
  \A r, s \in Task :
    Busy(r) /\ Busy(s) /\ AssetOf(r) = AssetOf(s) /\ r # s => AssetOf(s) \in overlapped

(* The tables that the task has filled, some of them twice if they are     *)
(* listed twice.                                                           *)
Filled(s) ==
  {Parts[n] : n \in 1..(task[s].part - 1)}
    \ (IF At(s, "insert") THEN {Parts[task[s].part]} ELSE {})

(* The row and the filled tables have what the task holds, and the one it  *)
(* is about to fill is empty.                                              *)
Agrees(s) ==
  /\ metadata[Target(s)].items = task[s].items
  /\ \A p \in Filled(s) : items[Target(s)][p] = {task[s].items} \ {0}
  /\ At(s, "insert") => items[Target(s)][Parts[task[s].part]] = {}

FillingAgrees ==
  \A s \in Task : Filling(s) /\ Target(s) = AssetOf(s) /\ ~Disturbed(AssetOf(s)) => Agrees(s)

Resting(x) == \A s \in Task : Filling(s) => AssetOf(s) # x

RestAgrees ==
  \A x \in Asset : metadata[x] # Null /\ ~Disturbed(x) /\ Resting(x) =>
    \A p \in Part : items[x][p] = {metadata[x].items} \ {0}

Agreement == Alone /\ FillingAgrees /\ RestAgrees

(* The row has every change that was announced.                            *)
RowHas(x) ==
  /\ metadata[x] # Null
  /\ metadata[x].name >= announced[x]
  /\ standard[x[1]] # "ERC20" => metadata[x].items >= announced[x]

(* What a task holds of its asset is what it will write, or else it will   *)
(* read it.                                                                *)
OnItsWay(s) ==
  LET x == AssetOf(s) IN
  /\ At(s, "document") /\ ~IsToken(s) /\ task[s].code # "LSP0" => task[s].name >= announced[x]
  /\ task[s].at \in {"nft", "row"} =>
       /\ task[s].name >= announced[x]
       /\ standard[x[1]] # "ERC20" => task[s].items >= announced[x]
  /\ Filling(s) => RowHas(x)

(* No message waits, so that the row, or a task, has to have the changes.  *)
Awaited(x) ==
  /\ announced[x] > 0
  /\ KeysOf(x) \cap queued = {}
  /\ x \notin raced /\ ~Disturbed(x)
  /\ standard[x[1]] # "other"

Answers(x) ==
  /\ \A s \in TasksOf(x) : OnItsWay(s)
  /\ TasksOf(x) = {} => RowHas(x)

Answered == \A x \in Asset : Awaited(x) => Answers(x)

IInv == Base /\ Agreement /\ Answered

-----------------------------------------------------------------------------
(* The model's data.                                                       *)

LEMMA Pairs ==
  /\ \A x \in Asset : x[1] \in Address /\ x = <<x[1], x[2]>> /\ <<x[1], Null>> \in Asset
  /\ \A k \in Key : k[1] \in Asset /\ k = <<k[1], k[2]>>
  BY DEF Asset, Key

LEMMA PartsAreListed ==
  /\ Len(Parts) \in Nat \ {0} /\ DOMAIN Parts = 1..Len(Parts)
  /\ \A n \in DOMAIN Parts : Parts[n] \in Part
  BY MetadataAssumption DEF Part

(* The keys of an asset are keys, and name the asset.                      *)
LEMMA KeysOfAsset ==
  ASSUME NEW x \in Asset
  PROVE  \A k \in KeysOf(x) : k \in Key /\ k[1] = x
<1>1. \A c \in Code \cup {"unknown", Null} : <<x, c>> \in Key /\ <<x, c>>[1] = x
  BY DEF Key
<1>2. KeysOf(x) \subseteq {x} \X (Code \cup {"unknown", Null})
  BY DEF KeysOf, CodesOf, Code
<1>3. QED
  BY <1>1, <1>2

(* A contract is asked for with its own interface, as LSP0 or with none.   *)
LEMMA ContractKey ==
  ASSUME NEW k, k \in KeysOf(k[1]), k[1][2] = Null
  PROVE  k[2] \in {standard[k[1][1]], "LSP0", Null}
  BY DEF KeysOf, CodesOf

(* A token is of an LSP8, when its contract's standard is known.           *)
LEMMA TokenKey ==
  ASSUME NEW k, k \in KeysOf(k[1]), k[1][2] # Null, standard[k[1][1]] # "other"
  PROVE  standard[k[1][1]] = "LSP8"
  BY DEF KeysOf, CodesOf

LEMMA NoTaskType == NoTask \in TaskType
  BY PartsAreListed, MetadataAssumption DEF NoTask, TaskType

LEMMA Numbers == MaxVersion \in Nat \ {0} /\ MaxFaults \in Nat
  BY MetadataAssumption

LEMMA RowIsNotNull ==
  \A n, i \in 0..MaxVersion : [name |-> n, items |-> i] # Null
<1>1. \A n, i \in Nat : [name |-> n, items |-> i] \in [name : Nat, items : Nat]
  OBVIOUS
<1>2. QED
  BY <1>1, Numbers, MetadataAssumption

-----------------------------------------------------------------------------
(* Reading: the steps of a task before its first statement.                *)

Reading(s) ==
  \/ Identify(s) \/ ReadERC20(s) \/ ReadName(s) \/ ReadAsset(s) \/ ReadNFT(s)
  \/ ReadProfile(s) \/ ReadTokenData(s) \/ ReadFails(s) \/ ReadMalformed(s)

Place == {"idle", "identify", "name", "document", "nft", "row", "delete", "insert"}

LEMMA TaskFields ==
  ASSUME NEW v \in TaskType
  PROVE  /\ v.at \in Place
         /\ v.key \in Key \cup {Null} /\ v.code \in Code \cup {Null}
         /\ v.target \in Asset \cup {Null}
         /\ v.name \in 0..MaxVersion /\ v.items \in 0..MaxVersion /\ v.part \in DOMAIN Parts
  BY DEF TaskType, Place

(* What a task keeps, and what it may hold afterwards.                     *)
Keeps(s) ==
  /\ task' = [task EXCEPT ![s] = task'[s]]
  /\ task'[s] \in TaskType
  /\ task'[s].key = task[s].key /\ task'[s].part = task[s].part
  /\ task'[s].at \in {"name", "document", "nft", "row"}
  /\ task'[s].target \in {task[s].target, <<AssetOf(s)[1], Null>>}

LEMMA DefaultKeeps ==
  ASSUME Base, NEW s \in Task, Busy(s), task' = [task EXCEPT ![s] = Default(s)]
  PROVE  Keeps(s) /\ task'[s].at = "row"
<1>1. task[s] \in TaskType /\ <<AssetOf(s)[1], Null>> \in Asset /\ 0 \in 0..MaxVersion
  BY Pairs, Numbers DEF Base, TypeOK, KeysValid, AssetOf
<1>2. Default(s) \in TaskType
  BY <1>1 DEF Default, TaskType
<1>3. task'[s] = Default(s)
  BY DEF Base, TypeOK
<1>4. /\ Default(s).key = task[s].key /\ Default(s).part = task[s].part
      /\ Default(s).at = "row" /\ Default(s).target = <<AssetOf(s)[1], Null>>
  BY <1>1 DEF Default, TaskType
<1>5. QED
  BY <1>2, <1>3, <1>4, Zenon DEF Keeps

(* A step of reading: nothing but the task and what is known of failures.  *)
ReadsOn(s) ==
  /\ Busy(s) /\ ~Filling(s)
  /\ Keeps(s)
  /\ task'[s].at = "name" => ~IsToken(s) /\ task'[s].code = standard[AssetOf(s)[1]]
  /\ task'[s].target # task[s].target /\ IsToken(s) => AssetOf(s) \in failed'
  /\ failed \subseteq failed' /\ faults' \in 0..MaxFaults
  /\ UNCHANGED <<standard, version, announced, stream, tables, raced, overlapped, erased>>

LEMMA IdentifyReadsOn == ASSUME Base, NEW s \in Task, Identify(s) PROVE ReadsOn(s)
<1> DEFINE x == AssetOf(s)
           code == IF task[s].key[2] = Null THEN standard[x[1]] ELSE task[s].key[2]
           supported == IF IsToken(s) THEN {"LSP8"} ELSE {"LSP0", "LSP7", "LSP8", "ERC20"}
<1>1. /\ task[s] \in TaskType /\ Busy(s) /\ ~Filling(s) /\ task[s].key \in KeysOf(x)
      /\ faults' \in 0..MaxFaults
  BY DEF Base, TypeOK, KeysValid, Identify, Busy, Filling, At
<1>2. CASE code \notin supported
  <2>1. task' = [task EXCEPT ![s] = Default(s)]
    BY <1>2, Zenon DEF Identify
  <2>2. IsToken(s) => x \in failed'
    BY <1>2 DEF Identify
  <2>3. QED
    BY <1>1, <2>1, <2>2, DefaultKeeps DEF Identify, ReadsOn
<1>3. CASE code \in supported
  <2> DEFINE next == [task[s] EXCEPT !.code = code,
                       !.at = IF IsToken(s) \/ code = "LSP0" THEN "document" ELSE "name"]
  <2>1. task' = [task EXCEPT ![s] = next]
    BY <1>3 DEF Identify
  <2>2. code \in Code
    BY <1>3 DEF Code
  <2>3. next \in TaskType /\ task'[s] = next
    BY <1>1, <2>1, <2>2 DEF Base, TypeOK, TaskType
  <2>4. ~IsToken(s) => code \in {standard[x[1]], "LSP0"}
    BY <1>1, ContractKey DEF IsToken, AssetOf
  <2>5. /\ task'[s].code = code /\ (task'[s].at = "name" => ~IsToken(s) /\ code # "LSP0")
        /\ task'[s].at \in {"document", "name"} /\ task'[s].key = task[s].key
        /\ task'[s].target = task[s].target /\ task'[s].part = task[s].part
    BY <1>1, <2>3 DEF TaskType
  <2> HIDE DEF next, code
  <2>6. QED
    BY <1>1, <2>1, <2>3, <2>4, <2>5 DEF Keeps, Identify, ReadsOn
<1>4. QED
  BY <1>2, <1>3

(* Read sets what was asked for to the current number.                     *)
LEMMA ReadReadsOn ==
  ASSUME Base, NEW s \in Task, Busy(s), ~Filling(s),
         NEW fields \in SUBSET {"name", "items"}, NEW next \in {"document", "nft", "row"},
         Read(s, fields, next)
  PROVE  ReadsOn(s)
<1> DEFINE v == [task[s] EXCEPT
                   !.name = IF "name" \in fields THEN version[AssetOf(s)] ELSE @,
                   !.items = IF "items" \in fields THEN version[AssetOf(s)] ELSE @,
                   !.at = next]
<1>1. task[s] \in TaskType /\ AssetOf(s) \in Asset /\ faults' \in 0..MaxFaults
  BY Pairs DEF Base, TypeOK, KeysValid, AssetOf, Read
<1>2. version[AssetOf(s)] \in 0..MaxVersion
  BY <1>1, Numbers DEF Base, TypeOK
<1>3. v \in TaskType
  BY <1>1, <1>2 DEF TaskType
<1>4. task'[s] = v /\ task' \in [Task -> TaskType] /\ \A r \in Task \ {s} : task'[r] = task[r]
  BY <1>1, <1>3 DEF Read, Base, TypeOK, TaskType
<1>5. task' = [task EXCEPT ![s] = task'[s]]
  BY <1>4 DEF Base, TypeOK
<1>6. v.key = task[s].key /\ v.part = task[s].part /\ v.target = task[s].target /\ v.at = next
  BY <1>1 DEF TaskType
<1> HIDE DEF v
<1>7. Keeps(s)
  BY <1>3, <1>4, <1>5, <1>6 DEF Keeps
<1>8. QED
  BY <1>1, <1>4, <1>6, <1>7 DEF ReadsOn, Read, history

LEMMA ReadFailsReadsOn ==
  ASSUME Base, NEW s \in Task, ReadFails(s)
  PROVE  ReadsOn(s) /\ AssetOf(s) \in failed'
<1>1. /\ task[s] \in TaskType /\ Busy(s) /\ ~Filling(s)
      /\ faults' \in 0..MaxFaults /\ AssetOf(s) \in failed'
  BY Numbers DEF Base, TypeOK, ReadFails, Fault, Busy, Filling, At
<1>2. Keeps(s) /\ task'[s].at # "name"
  <2>1. CASE task' = [task EXCEPT ![s] = Default(s)]
    BY <1>1, <2>1, DefaultKeeps
  <2>2. ASSUME NEW next \in {"row", "document", "nft"}, GoTo(s, next)
        PROVE  Keeps(s) /\ task'[s].at # "name"
    <3>1. [task[s] EXCEPT !.at = next] \in TaskType
      BY <1>1 DEF TaskType
    <3>2. task' = [task EXCEPT ![s] = [task[s] EXCEPT !.at = next]]
          /\ task'[s] = [task[s] EXCEPT !.at = next]
      BY <2>2 DEF GoTo, Base, TypeOK
    <3>3. /\ task'[s].key = task[s].key /\ task'[s].part = task[s].part
          /\ task'[s].at = next /\ task'[s].target = task[s].target
      BY <1>1, <3>2 DEF TaskType
    <3>4. QED
      BY <3>1, <3>2, <3>3 DEF Keeps
  <2>3. QED
    BY <2>1, <2>2 DEF ReadFails
<1>3. QED
  BY <1>1, <1>2 DEF ReadsOn, ReadFails

LEMMA ReadMalformedReadsOn ==
  ASSUME Base, NEW s \in Task, ReadMalformed(s)
  PROVE  ReadsOn(s) /\ AssetOf(s) \in failed' /\ task'[s].at # "name"
<1>1. /\ task[s] \in TaskType /\ Busy(s) /\ ~Filling(s)
      /\ faults' \in 0..MaxFaults /\ AssetOf(s) \in failed' /\ 0 \in 0..MaxVersion
  BY Numbers DEF Base, TypeOK, ReadMalformed, Fault, Busy, Filling, At
<1>2. Keeps(s) /\ task'[s].at # "name"
  <2>1. CASE task' = [task EXCEPT ![s] = Default(s)]
    BY <1>1, <2>1, DefaultKeeps
  <2>2. CASE task' = [task EXCEPT ![s] = [task[s] EXCEPT !.name = 0, !.at = "nft"]]
    <3> DEFINE v == [task[s] EXCEPT !.name = 0, !.at = "nft"]
    <3>1. v \in TaskType
      BY <1>1 DEF TaskType
    <3>2. task'[s] = v
      BY <2>2 DEF Base, TypeOK
    <3>3. v.key = task[s].key /\ v.part = task[s].part /\ v.at = "nft"
          /\ v.target = task[s].target
      BY <1>1 DEF TaskType
    <3> HIDE DEF v
    <3>4. QED
      BY <2>2, <3>1, <3>2, <3>3 DEF Keeps, v
  <2>3. QED
    BY <2>1, <2>2 DEF ReadMalformed
<1>3. QED
  BY <1>1, <1>2 DEF ReadsOn, ReadMalformed

LEMMA ReadingReadsOn == ASSUME Base, NEW s \in Task, Reading(s) PROVE ReadsOn(s)
<1>1. CASE Identify(s) \/ ReadFails(s) \/ ReadMalformed(s)
  BY <1>1, IdentifyReadsOn, ReadFailsReadsOn, ReadMalformedReadsOn
<1>2. CASE ~Identify(s) /\ ~ReadFails(s) /\ ~ReadMalformed(s)
  <2>1. Busy(s) /\ ~Filling(s)
    BY <1>2
       DEF Reading, ReadERC20, ReadName, ReadAsset, ReadNFT, ReadProfile,
           ReadTokenData,
                Busy, Filling, At
  <2>2. ASSUME NEW fields \in SUBSET {"name", "items"},
               NEW next \in {"document", "nft", "row"},
               Read(s, fields, next)
        PROVE  ReadsOn(s)
    BY <2>1, <2>2, ReadReadsOn
  <2>3. QED
    BY <1>2, <2>2
       DEF Reading, ReadERC20, ReadName, ReadAsset, ReadNFT, ReadProfile,
           ReadTokenData
<1>3. QED
  BY <1>1, <1>2
-----------------------------------------------------------------------------
(* Types, keys and targets are kept by every step.                         *)

LEMMA InitBase == Init => Base
<1> SUFFICES ASSUME Init PROVE Base
  OBVIOUS
<1>1. \A s \in Task : task[s] = NoTask /\ ~Busy(s)
  BY DEF Init, NoTask, Busy, At
<1>2. TypeOK
  BY NoTaskType, Numbers DEF Init, TypeOK
<1>3. KeysValid /\ TasksValid /\ AnnouncedIsPast
  BY <1>1, Numbers DEF Init, KeysValid, TasksValid, AnnouncedIsPast
<1>4. QED
  BY <1>2, <1>3 DEF Base

(* Messages are handed over, and a task keeps its key.                     *)
LEMMA KeysStep ==
  ASSUME Base, standard' = standard,
         \A k \in queued' \cup handed' : k \in queued \cup handed \/ k \in KeysOf(k[1]),
         \A s \in Task : Busy(s)' =>
           \/ Busy(s) /\ task'[s].key = task[s].key
           \/ task'[s].key \in queued
  PROVE  KeysValid'
<1>1. \A x : KeysOf(x)' = KeysOf(x)
  BY DEF KeysOf, CodesOf
<1>2. \A k \in queued' \cup handed' : (k \in KeysOf(k[1]))'
  BY <1>1 DEF Base, KeysValid
<1>3. ASSUME NEW s \in Task, Busy(s)'
      PROVE  task'[s].key \in Key /\ (task[s].key \in KeysOf(AssetOf(s)))'
  <2>1. task'[s].key \in Key /\ task'[s].key \in KeysOf(task'[s].key[1])
    BY <1>3 DEF Base, KeysValid, AssetOf, TypeOK
  <2>2. QED
    BY <1>1, <2>1 DEF AssetOf
<1>4. QED
  BY <1>2, <1>3 DEF KeysValid

LEMMA ReadsOnBase == ASSUME Base, NEW s \in Task, ReadsOn(s) PROVE Base'
<1>1. /\ Busy(s) /\ ~Filling(s) /\ task'[s] \in TaskType
      /\ \A r \in Task \ {s} : task'[r] = task[r]
      /\ task' \in [Task -> TaskType]
  BY DEF ReadsOn, Keeps, Base, TypeOK
<1>2. TypeOK'
  BY <1>1 DEF ReadsOn, Base, TypeOK, stream, tables
<1>3. KeysValid'
  BY <1>1, KeysStep DEF ReadsOn, Keeps, stream, Busy, At
<1>4. TasksValid'
  <2>1. SUFFICES ASSUME NEW r \in Task, Busy(r)' PROVE TaskValid(r)'
    BY DEF TasksValid
  <2>2. CASE r # s
    <3>1. task'[r] = task[r] /\ Busy(r)
      BY <1>1, <2>1, <2>2 DEF Busy, At
    <3>2. QED
      BY <3>1
         DEF Base, TasksValid, TaskValid, ReadsOn, Target, AssetOf, Filling, At,
             IsToken, tables
  <2>3. CASE r = s
    <3> DEFINE x == AssetOf(s)
    <3>1. /\ x \in Asset /\ AssetOf(s)' = x /\ IsToken(s)' = IsToken(s)
          /\ ~Filling(s)' /\ task'[s].part = 1
      BY <1>1, Pairs 
         DEF Base, KeysValid, TasksValid, TaskValid, AssetOf, IsToken, Filling, ReadsOn, Keeps
    <3>2. /\ Target(s) \in Asset /\ (Target(s) # x => x \in failed)
          /\ <<x[1], Null>> \in Asset
          /\ (~IsToken(s) => <<x[1], Null>> = x)
      BY <1>1, <3>1, Pairs DEF Base, TasksValid, TaskValid, IsToken
    <3>3. Target(s)' \in Asset /\ ((Target(s) # AssetOf(s))' => AssetOf(s)' \in failed')
      BY <3>1, <3>2 DEF ReadsOn, Keeps, Target
    <3>4. At(s, "name")' => ~IsToken(s)' /\ (task[s].code = standard[AssetOf(s)[1]])'
      BY <3>1 DEF ReadsOn, At
    <3>5. QED
      BY <2>3, <3>1, <3>3, <3>4 DEF TaskValid
  <2>4. QED
    BY <2>2, <2>3
<1>5. AnnouncedIsPast'
  BY DEF ReadsOn, Base, AnnouncedIsPast
<1>6. QED
  BY <1>2, <1>3, <1>4, <1>5 DEF Base
(* Writing: the row, then each table of items.                             *)
LEMMA WriteRowBase == ASSUME Base, NEW s \in Task, WriteRow(s) PROVE Base'
<1> DEFINE x == task[s].target
           row == [name |-> task[s].name, items |-> task[s].items]
<1>1. task[s] \in TaskType /\ Busy(s) /\ TaskValid(s) /\ x \in Asset
  BY DEF WriteRow, Base, TypeOK, TasksValid, TaskValid, Busy, At, Target
<1>2. row \in [name : 0..MaxVersion, items : 0..MaxVersion] /\ row # Null
  BY <1>1, RowIsNotNull DEF TaskType
<1>3. /\ task'[s] = [task[s] EXCEPT !.at = "delete"] /\ task' \in [Task -> TaskType]
      /\ \A r \in Task \ {s} : task'[r] = task[r]
  <2>1. [task[s] EXCEPT !.at = "delete"] \in TaskType
    BY <1>1 DEF TaskType
  <2>2. QED
    BY <2>1 DEF WriteRow, GoTo, Base, TypeOK
<1>4. /\ task'[s].key = task[s].key /\ task'[s].target = x /\ task'[s].at = "delete"
      /\ task'[s].part = task[s].part
  BY <1>1, <1>3 DEF TaskType
<1>5. /\ metadata' \in [Asset -> [name : 0..MaxVersion, items : 0..MaxVersion] \cup {Null}]
      /\ metadata'[x] # Null /\ \A y \in Asset : metadata[y] # Null => metadata'[y] # Null
  BY <1>1, <1>2 DEF WriteRow, Base, TypeOK
<1>6. TypeOK'
  BY <1>3, <1>5 DEF WriteRow, Base, TypeOK, stream
<1>7. KeysValid'
  BY <1>1, <1>3, <1>4, KeysStep DEF WriteRow, stream, Busy, At
<1>8. TasksValid'
  <2>1. SUFFICES ASSUME NEW r \in Task, Busy(r)' PROVE TaskValid(r)'
    BY DEF TasksValid
  <2>2. CASE r # s
    <3>1. task'[r] = task[r] /\ Busy(r)
      BY <1>3, <2>1, <2>2 DEF Busy, At
    <3>2. erased \subseteq erased' /\ UNCHANGED <<failed, standard>>
      BY DEF WriteRow
    <3>3. QED
      BY <3>1, <3>2, <1>5
         DEF Base, TasksValid, TaskValid, Target, AssetOf, Filling, At, IsToken
  <2>3. CASE r = s
    <3>1. x # AssetOf(s) => x \in erased'
      BY DEF WriteRow
    <3>2. failed' = failed
      BY DEF WriteRow
    <3>3. QED
      BY <1>1, <1>4, <1>5, <2>3, <3>1, <3>2 DEF TaskValid, Target, AssetOf, Filling, At
  <2>4. QED
    BY <2>2, <2>3
<1>9. AnnouncedIsPast'
  BY DEF WriteRow, Base, AnnouncedIsPast
<1>10. QED
  BY <1>6, <1>7, <1>8, <1>9 DEF Base
(* A statement on a table of items, whatever becomes of it.                *)
FillsOn(s) ==
  /\ Filling(s)
  /\ task' \in [Task -> TaskType] /\ \A r \in Task \ {s} : task'[r] = task[r]
  /\ \/ task'[s] = NoTask
     \/ /\ Filling(s)' /\ task'[s].key = task[s].key /\ task'[s].target = task[s].target
        /\ task'[s].items = task[s].items
  /\ failed' = failed /\ faults' = faults
  /\ UNCHANGED <<standard, version, announced, stream, metadata, raced, overlapped, erased>>

LEMMA DeleteItemsFillsOn ==
  ASSUME Base, NEW s \in Task, DeleteItems(s)
  PROVE  /\ FillsOn(s)
         /\ task'[s].at = "insert" /\ task'[s].part = task[s].part
         /\ task'[s].key = task[s].key /\ task'[s].target = task[s].target
         /\ task'[s].items = task[s].items
<1>1. task[s] \in TaskType
  BY DEF Base, TypeOK
<1>2. [task[s] EXCEPT !.at = "insert"] \in TaskType
  BY <1>1 DEF TaskType
<1>3. /\ task'[s] = [task[s] EXCEPT !.at = "insert"] /\ task' \in [Task -> TaskType]
      /\ \A r \in Task \ {s} : task'[r] = task[r]
  BY <1>2 DEF DeleteItems, GoTo, Base, TypeOK
<1>4. /\ task'[s].key = task[s].key /\ task'[s].target = task[s].target
      /\ task'[s].at = "insert" /\ task'[s].part = task[s].part
      /\ task'[s].items = task[s].items
  BY <1>1, <1>3 DEF TaskType
<1>5. QED
  BY <1>3, <1>4 DEF FillsOn, DeleteItems, Filling, At, history

LEMMA InsertItemsFillsOn ==
  ASSUME Base, NEW s \in Task, InsertItems(s)
  PROVE  /\ FillsOn(s)
         /\ task[s].part = Len(Parts) => task'[s] = NoTask
         /\ task[s].part # Len(Parts) =>
              /\ task'[s].at = "delete" /\ task'[s].part = task[s].part + 1
              /\ task'[s].key = task[s].key /\ task'[s].target = task[s].target
              /\ task'[s].items = task[s].items
<1> DEFINE next == [task[s] EXCEPT !.at = "delete", !.part = task[s].part + 1]
<1>1. task[s] \in TaskType /\ task[s].part \in DOMAIN Parts
  BY DEF Base, TypeOK, TaskType
<1>2. CASE task[s].part = Len(Parts)
  <2>1. task' = [task EXCEPT ![s] = NoTask]
    BY <1>2 DEF InsertItems
  <2>2. QED
    BY <1>2, <2>1, NoTaskType DEF FillsOn, InsertItems, Filling, At, history, Base, TypeOK
<1>3. CASE task[s].part # Len(Parts)
  <2>1. task[s].part + 1 \in DOMAIN Parts
    BY <1>1, <1>3, PartsAreListed
  <2>2. next \in TaskType
    BY <1>1, <2>1 DEF TaskType
  <2>3. task' = [task EXCEPT ![s] = next]
    BY <1>3 DEF InsertItems
  <2>4. /\ task'[s] = next /\ task' \in [Task -> TaskType]
        /\ \A r \in Task \ {s} : task'[r] = task[r]
    BY <2>2, <2>3 DEF Base, TypeOK
  <2>5. /\ task'[s].at = "delete" /\ task'[s].part = task[s].part + 1
        /\ task'[s].key = task[s].key /\ task'[s].target = task[s].target
        /\ task'[s].items = task[s].items
    BY <1>1, <2>4 DEF TaskType
  <2>6. QED
    BY <1>3, <2>4, <2>5 DEF FillsOn, InsertItems, Filling, At, history
<1>4. QED
  BY <1>2, <1>3

LEMMA FillsOnBase ==
  ASSUME Base, NEW s \in Task, FillsOn(s),
         items' \in [Asset -> [Part -> SUBSET (1..MaxVersion)]],
         \A x \in Asset : metadata[x] = Null => items'[x] = items[x]
  PROVE  Base'
<1>1. TypeOK'
  BY DEF FillsOn, Base, TypeOK, stream
<1>2. \A r \in Task : Busy(r)' => Busy(r) /\ task'[r].key = task[r].key
  BY DEF FillsOn, Busy, Filling, At, NoTask
<1>3. KeysValid'
  BY <1>2, KeysStep DEF FillsOn, stream
<1>4. TasksValid'
  <2>1. SUFFICES ASSUME NEW r \in Task, Busy(r)' PROVE TaskValid(r)'
    BY DEF TasksValid
  <2>2. TaskValid(r)
    BY <1>2, <2>1 DEF Base, TasksValid
  <2>3. CASE r # s
    BY <2>2, <2>3 DEF FillsOn, TaskValid, Target, AssetOf, Filling, At, IsToken
  <2>4. CASE r = s
    <3>1. Filling(s)' /\ task'[s].key = task[s].key /\ task'[s].target = task[s].target
      BY <2>1, <2>4 DEF FillsOn, Busy, At, NoTask
    <3>2. QED
      BY <2>2, <2>4, <3>1 DEF FillsOn, TaskValid, Target, AssetOf, Filling, At, IsToken
  <2>5. QED
    BY <2>3, <2>4
<1>5. AnnouncedIsPast'
  BY DEF FillsOn, Base, AnnouncedIsPast
<1>6. QED
  BY <1>1, <1>3, <1>4, <1>5 DEF Base

(* The part a task has reached is a table, and its target has a row.       *)
LEMMA FillingTarget ==
  ASSUME Base, NEW s \in Task, Filling(s)
  PROVE  /\ task[s] \in TaskType /\ Busy(s)
         /\ task[s].part \in 1..Len(Parts) /\ Parts[task[s].part] \in Part
         /\ task[s].target \in Asset /\ metadata[task[s].target] # Null
<1>1. task[s] \in TaskType /\ Busy(s)
  BY DEF Base, TypeOK, Filling, Busy, At
<1>2. TaskValid(s)
  BY <1>1 DEF Base, TasksValid
<1>3. QED
  BY <1>1, <1>2, PartsAreListed DEF TaskValid, Target, TaskType

LEMMA DeleteItemsBase == ASSUME Base, NEW s \in Task, DeleteItems(s) PROVE Base'
<1>1. FillsOn(s) /\ Filling(s)
  BY DeleteItemsFillsOn DEF FillsOn
<1>2. /\ items' \in [Asset -> [Part -> SUBSET (1..MaxVersion)]]
      /\ \A x \in Asset : metadata[x] = Null => items'[x] = items[x]
  BY <1>1, FillingTarget DEF DeleteItems, Base, TypeOK
<1>3. QED
  BY <1>1, <1>2, FillsOnBase

LEMMA InsertItemsBase == ASSUME Base, NEW s \in Task, InsertItems(s) PROVE Base'
<1>1. FillsOn(s) /\ Filling(s)
  BY InsertItemsFillsOn DEF FillsOn
<1>2. {task[s].items} \ {0} \subseteq 1..MaxVersion
  BY <1>1, FillingTarget, Numbers DEF TaskType
<1>3. /\ items' \in [Asset -> [Part -> SUBSET (1..MaxVersion)]]
      /\ \A x \in Asset : metadata[x] = Null => items'[x] = items[x]
  BY <1>1, <1>2, FillingTarget DEF InsertItems, Base, TypeOK
<1>4. QED
  BY <1>1, <1>3, FillsOnBase
(* Tasks end without having written all.                                   *)
LEMMA TasksEnd ==
  ASSUME Base, task' \in [Task -> TaskType],
         \A s \in Task : task'[s] = NoTask \/ task'[s] = task[s],
         failed \subseteq failed', faults' \in 0..MaxFaults,
         queued' \cup handed' = queued \cup handed, queued' \cap handed' = {},
         UNCHANGED <<standard, version, announced, tables, raced, overlapped, erased>>
  PROVE  Base'
<1>1. TypeOK'
  BY DEF Base, TypeOK, tables
<1>2. \A s \in Task : Busy(s)' => Busy(s) /\ task'[s] = task[s]
  BY DEF Busy, At, NoTask
<1>3. KeysValid'
  BY <1>2, KeysStep
<1>4. TasksValid'
  BY <1>2 DEF Base, TasksValid, TaskValid, Target, AssetOf, Filling, At, IsToken, tables
<1>5. AnnouncedIsPast'
  BY DEF Base, AnnouncedIsPast
<1>6. QED
  BY <1>1, <1>3, <1>4, <1>5 DEF Base

LEMMA FaultCounts ==
  ASSUME Base, Fault
  PROVE  faults' \in 0..MaxFaults
  BY Numbers DEF Base, TypeOK, Fault

LEMMA WriteFailsBase == ASSUME Base, NEW s \in Task, WriteFails(s) PROVE Base'
<1>1. task' = [task EXCEPT ![s] = NoTask] /\ failed \subseteq failed' /\ faults' \in 0..MaxFaults
  BY FaultCounts DEF WriteFails
<1>2. /\ task' \in [Task -> TaskType]
      /\ \A r \in Task : task'[r] = NoTask \/ task'[r] = task[r]
  BY <1>1, NoTaskType DEF Base, TypeOK
<1>3. queued' \cup handed' = queued \cup handed /\ queued' \cap handed' = {}
  BY DEF WriteFails, stream, Base, TypeOK
<1>4. QED
  BY <1>1, <1>2, <1>3, TasksEnd DEF WriteFails

LEMMA CrashBase == ASSUME Base, Crash PROVE Base'
<1>1. /\ task' \in [Task -> TaskType]
      /\ \A r \in Task : task'[r] = NoTask \/ task'[r] = task[r]
  BY NoTaskType DEF Crash
<1>2. failed \subseteq failed' /\ faults' \in 0..MaxFaults
  BY FaultCounts DEF Crash
<1>3. queued' \cup handed' = queued \cup handed /\ queued' \cap handed' = {}
  BY DEF Crash
<1>4. QED
  BY <1>1, <1>2, <1>3, TasksEnd DEF Crash

(* A message handed out becomes a task for its asset.                      *)
LEMMA HandOutTask ==
  ASSUME Base, NEW k \in Key, NEW s \in Task, HandOut(k, s)
  PROVE  /\ task'[s] \in TaskType /\ task' \in [Task -> TaskType]
         /\ \A r \in Task \ {s} : task'[r] = task[r]
         /\ task'[s].at = "identify" /\ task'[s].key = k /\ task'[s].target = k[1]
         /\ task'[s].part = 1
<1> DEFINE next == [NoTask EXCEPT !.at = "identify", !.key = k, !.target = k[1]]
<1>1. k[1] \in Asset
  BY Pairs
<1>2. next \in TaskType
  BY <1>1, NoTaskType DEF TaskType
<1>3. /\ next.at = "identify" /\ next.key = k /\ next.target = k[1] /\ next.part = 1
  BY DEF NoTask
<1>4. task' = [task EXCEPT ![s] = next]
  BY DEF HandOut
<1> HIDE DEF next
<1>5. QED
  BY <1>2, <1>3, <1>4 DEF Base, TypeOK

LEMMA HandOutBase == ASSUME Base, NEW k \in Key, NEW s \in Task, HandOut(k, s) PROVE Base'
<1>1. TypeOK'
  BY HandOutTask DEF HandOut, Base, TypeOK, tables
<1>2. KeysValid'
  <2>1. \A r \in Task : Busy(r)' =>
          \/ Busy(r) /\ task'[r].key = task[r].key
          \/ task'[r].key \in queued
    BY HandOutTask DEF HandOut, Busy, At
  <2>2. \A j \in queued' \cup handed' : j \in queued \cup handed
    BY DEF HandOut
  <2>3. QED
    BY <2>1, <2>2, KeysStep DEF HandOut
<1>3. TasksValid'
  <2>1. SUFFICES ASSUME NEW r \in Task, Busy(r)' PROVE TaskValid(r)'
    BY DEF TasksValid
  <2>2. CASE r # s
    <3>1. task'[r] = task[r] /\ Busy(r)
      BY HandOutTask, <2>1, <2>2 DEF Busy, At
    <3>2. TaskValid(r) /\ UNCHANGED <<standard, metadata, erased, failed>>
      BY <3>1 DEF HandOut, Base, TasksValid, tables
    <3>3. QED
      BY <3>1, <3>2 DEF TaskValid, Target, AssetOf, Filling, At, IsToken
  <2>3. CASE r = s
    <3>1. Target(s)' = k[1] /\ AssetOf(s)' = k[1] /\ k[1] \in Asset
      BY HandOutTask, Pairs DEF Target, AssetOf
    <3>2. ~Filling(s)' /\ ~At(s, "name")' /\ task'[s].part = 1
      BY HandOutTask DEF Filling, At
    <3>3. QED
      BY <2>3, <3>1, <3>2 DEF TaskValid
  <2>4. QED
    BY <2>2, <2>3
<1>4. AnnouncedIsPast'
  BY DEF HandOut, Base, AnnouncedIsPast
<1>5. QED
  BY <1>1, <1>2, <1>3, <1>4 DEF Base

(* The chain and the stream alone.                                         *)
LEMMA StreamBase ==
  ASSUME Base, UNCHANGED <<standard, task, tables, overlapped, erased, failed>>,
         version' \in [Asset -> 1..MaxVersion], announced' \in [Asset -> 0..MaxVersion],
         AnnouncedIsPast', faults' \in 0..MaxFaults,
         queued' \subseteq Key, handed' \subseteq Key \ queued',
         \A k \in queued' \cup handed' : k \in queued \cup handed \/ k \in KeysOf(k[1])
  PROVE  Base'
<1>1. TypeOK'
  BY DEF Base, TypeOK, tables
<1>2. KeysValid'
  BY KeysStep DEF Busy, At
<1>3. TasksValid'
  BY DEF Base, TasksValid, TaskValid, Busy, Target, AssetOf, Filling, At, IsToken, tables
<1>4. QED
  BY <1>1, <1>2, <1>3 DEF Base

LEMMA ChangeBase == ASSUME Base, NEW x \in Asset, Change(x) PROVE Base'
<1>1. /\ version' \in [Asset -> 1..MaxVersion]
      /\ \A y \in Asset : version[y] <= version'[y]
  BY Numbers DEF Change, Base, TypeOK
<1>2. AnnouncedIsPast'
  BY <1>1, Numbers DEF Change, Base, TypeOK, AnnouncedIsPast
<1>3. QED
  BY <1>1, <1>2, StreamBase DEF Change, Base, TypeOK, stream, history

LEMMA RequestBase == ASSUME Base, NEW k \in Key, Request(k) PROVE Base'
<1>1. k[1] \in Asset
  BY Pairs
<1>2. announced' \in [Asset -> 0..MaxVersion] /\ AnnouncedIsPast'
  BY <1>1, Numbers DEF Request, Base, TypeOK, AnnouncedIsPast
<1>3. /\ queued' \subseteq Key /\ handed' \subseteq Key \ queued'
      /\ \A j \in queued' \cup handed' : j \in queued \cup handed \/ j \in KeysOf(j[1])
  BY DEF Request, Base, TypeOK
<1>4. QED
  BY <1>2, <1>3, StreamBase DEF Request, Base, TypeOK

LEMMA ReleaseBase == ASSUME Base, NEW k \in Key, Release(k) PROVE Base'
<1>1. AnnouncedIsPast'
  BY DEF Release, Base, AnnouncedIsPast
<1>2. QED
  BY <1>1, StreamBase DEF Release, Base, TypeOK, history

LEMMA RunFailsBase == ASSUME Base, NEW k \in Key, RunFails(k) PROVE Base'
<1>1. AnnouncedIsPast' /\ faults' \in 0..MaxFaults
  BY FaultCounts DEF RunFails, Base, AnnouncedIsPast
<1>2. QED
  BY <1>1, StreamBase DEF RunFails, Base, TypeOK, history

LEMMA BaseStep == ASSUME Base, [Next]_vars PROVE Base'
<1>1. CASE UNCHANGED vars
  <2>1. AnnouncedIsPast'
    BY <1>1 DEF vars, Base, AnnouncedIsPast
  <2>2. QED
    BY <1>1, <2>1, StreamBase DEF vars, stream, history, Base, TypeOK
<1>2. CASE Next
  BY <1>2, ChangeBase, RequestBase, ReleaseBase, RunFailsBase, HandOutBase, CrashBase,
     WriteFailsBase, WriteRowBase, DeleteItemsBase, InsertItemsBase, ReadingReadsOn, ReadsOnBase
     DEF Next, Step, Reading
<1>3. QED
  BY <1>1, <1>2
-----------------------------------------------------------------------------
(* The row and the items.                                                  *)

LEMMA AloneStep ==
  ASSUME Alone, overlapped \subseteq overlapped',
         \A r \in Task : Busy(r)' => Busy(r) /\ task'[r].key = task[r].key
  PROVE  Alone'
  BY DEF Alone, AssetOf

LEMMA HandOutAlone ==
  ASSUME Base, Alone, NEW k \in Key, NEW s \in Task, HandOut(k, s)
  PROVE  Alone'
<1>1. SUFFICES ASSUME NEW r \in Task, NEW q \in Task, Busy(r)', Busy(q)', r # q,
                      AssetOf(r)' = AssetOf(q)'
               PROVE  AssetOf(q)' \in overlapped'
  BY DEF Alone
<1>2. overlapped \subseteq overlapped' /\ (TasksOf(k[1]) # {} => k[1] \in overlapped')
  BY DEF HandOut
<1>3. \A p \in Task \ {s} : Busy(p)' => Busy(p) /\ AssetOf(p)' = AssetOf(p)
  BY HandOutTask DEF Busy, At, AssetOf
<1>4. CASE r # s /\ q # s
  BY <1>1, <1>2, <1>3, <1>4 DEF Alone
<1>5. CASE r = s \/ q = s
  <2>1. PICK p \in {r, q} : p # s
    BY <1>1
  <2>2. AssetOf(s)' = k[1] /\ AssetOf(q)' = k[1] /\ AssetOf(p)' = k[1]
    BY <1>1, <1>5, HandOutTask DEF AssetOf
  <2>3. p \in TasksOf(k[1])
    BY <1>1, <1>3, <2>1, <2>2 DEF TasksOf, Busy
  <2>4. QED
    BY <1>2, <2>2, <2>3
<1>6. QED
  BY <1>4, <1>5

(* A step that leaves the tables as they are, and the tasks that fill them *)
(* but those it disturbs.                                                  *)
LEMMA QuietAgrees ==
  ASSUME FillingAgrees, RestAgrees, UNCHANGED tables,
         \A x : Disturbed(x) => Disturbed(x)',
         \A r \in Task : Filling(r)' => Filling(r) /\ task'[r] = task[r],
         \A r \in Task : \A x : Filling(r) /\ AssetOf(r) = x => Filling(r)' \/ Disturbed(x)'
  PROVE  FillingAgrees' /\ RestAgrees'
<1>1. FillingAgrees'
  <2>1. SUFFICES ASSUME NEW r \in Task, Filling(r)', Target(r)' = AssetOf(r)',
                        ~Disturbed(AssetOf(r))'
                 PROVE  Agrees(r)'
    BY DEF FillingAgrees
  <2>2. /\ Filling(r) /\ task'[r] = task[r] /\ metadata' = metadata /\ items' = items
        /\ Target(r)' = Target(r) /\ AssetOf(r)' = AssetOf(r) /\ Filled(r)' = Filled(r)
        /\ At(r, "insert")' = At(r, "insert")
    BY <2>1 DEF tables, Target, AssetOf, Filled, At
  <2>3. ~Disturbed(AssetOf(r)) /\ Target(r) = AssetOf(r)
    BY <2>1, <2>2
  <2>4. QED
    BY <2>2, <2>3 DEF FillingAgrees, Agrees
<1>2. RestAgrees'
  <2>1. SUFFICES ASSUME NEW x \in Asset, metadata'[x] # Null, ~Disturbed(x)', Resting(x)'
                 PROVE  \A p \in Part : items'[x][p] = {metadata'[x].items} \ {0}
    BY DEF RestAgrees
  <2>2. Resting(x)
    <3>1. SUFFICES ASSUME NEW r \in Task, Filling(r), AssetOf(r) = x PROVE FALSE
      BY DEF Resting
    <3>2. Filling(r)'
      BY <2>1, <3>1
    <3>3. AssetOf(r)' = x
      BY <3>1, <3>2 DEF AssetOf
    <3>4. QED
      BY <2>1, <3>2, <3>3 DEF Resting
  <2>3. QED
    BY <2>1, <2>2 DEF RestAgrees, tables
<1>3. QED
  BY <1>1, <1>2

(* Whose row a filling task writes, if nothing disturbs it.                *)
LEMMA OwnTarget ==
  ASSUME Base, Alone, NEW r \in Task, NEW s \in Task, r # s, Busy(r), Filling(s),
         ~Disturbed(AssetOf(r))
  PROVE  Target(s) # AssetOf(r)
<1>1. Busy(s) /\ TaskValid(s)
  BY DEF Base, TasksValid, Busy, Filling, At
<1>2. CASE Target(s) = AssetOf(s)
  BY <1>1, <1>2 DEF Alone, Disturbed
<1>3. CASE Target(s) # AssetOf(s)
  BY <1>1, <1>3 DEF TaskValid, Disturbed
<1>4. QED
  BY <1>2, <1>3
(* What the row's statement does to the tasks.                             *)
LEMMA WriteRowTask ==
  ASSUME Base, NEW s \in Task, WriteRow(s)
  PROVE  /\ Busy(s) /\ ~Filling(s) /\ TaskValid(s) /\ task[s].part = 1
         /\ task'[s].at = "delete" /\ task'[s].key = task[s].key
         /\ task'[s].target = task[s].target /\ task'[s].part = 1
         /\ task'[s].items = task[s].items
         /\ \A r \in Task \ {s} : task'[r] = task[r]
         /\ metadata'[Target(s)] = [name |-> task[s].name, items |-> task[s].items]
         /\ metadata'[Target(s)].items = task[s].items
         /\ \A y \in Asset : y # Target(s) => metadata'[y] = metadata[y]
<1>1. /\ task[s] \in TaskType /\ Busy(s) /\ ~Filling(s) /\ TaskValid(s)
  BY DEF WriteRow, Base, TypeOK, TasksValid, Busy, Filling, At
<1>2. Target(s) \in Asset /\ task[s].part = 1
  BY <1>1 DEF TaskValid
<1>3. task' = [task EXCEPT ![s].at = "delete"]
  BY DEF WriteRow, GoTo
<1>4. metadata' = [metadata EXCEPT ![Target(s)] = [name |-> task[s].name, items |-> task[s].items]]
  BY DEF WriteRow, Target
<1>5. /\ task'[s].at = "delete" /\ task'[s].key = task[s].key
      /\ task'[s].target = task[s].target /\ task'[s].part = task[s].part
      /\ task'[s].items = task[s].items
      /\ \A r \in Task \ {s} : task'[r] = task[r]
  BY <1>1, <1>3 DEF Base, TypeOK, TaskType
<1>6. metadata'[Target(s)] = [name |-> task[s].name, items |-> task[s].items]
  BY <1>2, <1>4 DEF Base, TypeOK
<1>7. \A y \in Asset : y # Target(s) => metadata'[y] = metadata[y]
  BY <1>4 DEF Base, TypeOK
<1>8. QED
  BY <1>1, <1>2, <1>5, <1>6, <1>7

LEMMA WriteRowAgrees ==
  ASSUME Base, Agreement, NEW s \in Task, WriteRow(s)
  PROVE  Agreement'
<1> DEFINE x == Target(s)
<1>1. \A y : Disturbed(y) => Disturbed(y)'
  BY DEF WriteRow, Disturbed
<1>2. x # AssetOf(s) => \A y : y = x => Disturbed(y)'
  BY DEF WriteRow, Disturbed, Target
<1>3. UNCHANGED <<items, overlapped>>
  BY DEF WriteRow
<1>4. AssetOf(s)' = AssetOf(s) /\ Target(s)' = x /\ Filling(s)' /\ ~At(s, "insert")'
  BY WriteRowTask DEF AssetOf, Target, Filling, At
<1>5. Alone'
  <2>1. \A r \in Task : Busy(r)' => Busy(r) /\ task'[r].key = task[r].key
    BY WriteRowTask DEF Busy, At
  <2>2. QED
    BY <1>3, <2>1, AloneStep DEF Agreement
<1>6. FillingAgrees'
  <2>1. SUFFICES ASSUME NEW r \in Task, Filling(r)', Target(r)' = AssetOf(r)',
                        ~Disturbed(AssetOf(r))'
                 PROVE  Agrees(r)'
    BY DEF FillingAgrees
  <2>2. CASE r = s
    <3>1. Filled(s)' = {}
      <4>1. task'[s].part = 1
        BY WriteRowTask
      <4>2. \A n \in 1..(task'[s].part - 1) : FALSE
        BY <4>1
      <4>3. QED
        BY <4>2 DEF Filled
    <3>2. metadata'[x].items = task'[s].items
      BY WriteRowTask
    <3>3. QED
      BY <1>4, <2>2, <3>1, <3>2 DEF Agrees
  <2>3. CASE r # s
    <3>1. /\ Filling(r) /\ Busy(r) /\ task'[r] = task[r] /\ items' = items
          /\ Target(r)' = Target(r) /\ AssetOf(r)' = AssetOf(r) /\ Filled(r)' = Filled(r)
          /\ At(r, "insert")' = At(r, "insert")
      BY <1>3, <2>1, <2>3, WriteRowTask DEF Busy, Filling, Target, AssetOf, Filled, At
    <3>2. ~Disturbed(AssetOf(r)) /\ Target(r) = AssetOf(r)
      BY <1>1, <2>1, <3>1
    <3>3. Agrees(r)
      BY <3>1, <3>2 DEF Agreement, FillingAgrees
    <3>4. AssetOf(r) # x
      <4>1. CASE x = AssetOf(s)
        BY <2>3, <3>1, <3>2, <4>1, WriteRowTask DEF Agreement, Alone, Disturbed
      <4>2. CASE x # AssetOf(s)
        BY <1>2, <2>1, <3>1, <4>2
      <4>3. QED
        BY <4>1, <4>2
    <3>5. Target(r) \in Asset
      BY <3>1 DEF Base, TasksValid, TaskValid
    <3>6. metadata'[Target(r)] = metadata[Target(r)]
      BY <3>2, <3>4, <3>5, WriteRowTask
    <3>7. QED
      BY <3>1, <3>3, <3>6 DEF Agrees
  <2>4. QED
    BY <2>2, <2>3
<1>7. RestAgrees'
  <2>1. SUFFICES ASSUME NEW y \in Asset, metadata'[y] # Null, ~Disturbed(y)', Resting(y)'
                 PROVE  \A p \in Part : items'[y][p] = {metadata'[y].items} \ {0}
    BY DEF RestAgrees
  <2>2. y # AssetOf(s)
    BY <1>4, <2>1 DEF Resting
  <2>3. y # x
    BY <1>2, <2>1, <2>2
  <2>4. Resting(y)
    <3>1. \A r \in Task : Filling(r) => Filling(r)' /\ AssetOf(r)' = AssetOf(r)
      BY WriteRowTask DEF Filling, AssetOf
    <3>2. QED
      BY <2>1, <3>1 DEF Resting
  <2>5. ~Disturbed(y) /\ metadata'[y] = metadata[y]
    BY <1>1, <2>1, <2>3, WriteRowTask
  <2>6. QED
    BY <1>3, <2>1, <2>4, <2>5 DEF Agreement, RestAgrees
<1>8. QED
  BY <1>5, <1>6, <1>7 DEF Agreement
(* The items of an asset are changed by the task that fills its target.    *)
LEMMA FillsOnAgrees ==
  ASSUME Base, Agreement, NEW s \in Task, FillsOn(s),
         \A y \in Asset : y # Target(s) => items'[y] = items[y],
         Filling(s)' /\ Target(s) = AssetOf(s) /\ ~Disturbed(AssetOf(s)) =>
           /\ \A p \in Filled(s)' :
                \/ items'[Target(s)][p] = {task[s].items} \ {0}
                \/ p \in Filled(s) /\ items'[Target(s)][p] = items[Target(s)][p]
           /\ At(s, "insert")' => items'[Target(s)][Parts[task'[s].part]] = {},
         task'[s] = NoTask /\ Target(s) = AssetOf(s) =>
           \A p \in Part :
             \/ p \in Filled(s) /\ items'[Target(s)][p] = items[Target(s)][p]
             \/ /\ items'[Target(s)][p] = items[Target(s)][p] \cup ({task[s].items} \ {0})
                /\ p = Parts[task[s].part] /\ At(s, "insert")
  PROVE  Agreement'
<1> DEFINE x == Target(s)
<1>1. /\ Filling(s) /\ Busy(s) /\ TaskValid(s) /\ x \in Asset
      /\ x # AssetOf(s) => x \in erased
  BY FillingTarget DEF FillsOn, Base, TasksValid, TaskValid
<1>2. /\ \A y : Disturbed(y)' <=> Disturbed(y)
      /\ overlapped' = overlapped /\ metadata' = metadata
  BY DEF FillsOn, Disturbed
<1>3. Alone'
  <2>1. \A r \in Task : Busy(r)' => Busy(r) /\ task'[r].key = task[r].key
    BY <1>1 DEF FillsOn, Busy, At, NoTask
  <2>2. QED
    BY <1>2, <2>1, AloneStep DEF Agreement
<1>4. FillingAgrees'
  <2>1. SUFFICES ASSUME NEW r \in Task, Filling(r)', Target(r)' = AssetOf(r)',
                        ~Disturbed(AssetOf(r))'
                 PROVE  Agrees(r)'
    BY DEF FillingAgrees
  <2>2. CASE r = s
    <3>1. /\ AssetOf(s)' = AssetOf(s) /\ Target(s)' = Target(s)
          /\ task'[s].items = task[s].items /\ Filling(s)'
      BY <2>1, <2>2 DEF FillsOn, AssetOf, Target, Filling, NoTask
    <3>2. ~Disturbed(AssetOf(s)) /\ Target(s) = AssetOf(s)
      BY <1>2, <2>1, <2>2, <3>1
    <3>3. Agrees(s)
      BY <1>1, <3>2 DEF Agreement, FillingAgrees
    <3>4. \A p \in Filled(s)' : items'[Target(s)][p] = {task[s].items} \ {0}
      BY <3>1, <3>2, <3>3 DEF Agrees
    <3>5. QED
      BY <1>2, <2>2, <3>1, <3>2, <3>3, <3>4 DEF Agrees
  <2>3. CASE r # s
    <3>1. /\ Filling(r) /\ Busy(r) /\ task'[r] = task[r]
          /\ Target(r)' = Target(r) /\ AssetOf(r)' = AssetOf(r) /\ Filled(r)' = Filled(r)
          /\ At(r, "insert")' = At(r, "insert")
      BY <2>1, <2>3 DEF FillsOn, Busy, Filling, Target, AssetOf, Filled, At
    <3>2. ~Disturbed(AssetOf(r)) /\ Target(r) = AssetOf(r)
      BY <1>2, <2>1, <3>1
    <3>3. Agrees(r)
      BY <3>1, <3>2 DEF Agreement, FillingAgrees
    <3>4. Target(r) # x /\ Target(r) \in Asset
      BY <1>1, <2>3, <3>1, <3>2, OwnTarget DEF Agreement, Base, TasksValid, TaskValid
    <3>5. items'[Target(r)] = items[Target(r)]
      BY <3>4
    <3>6. QED
      BY <1>2, <3>1, <3>3, <3>5 DEF Agrees
  <2>4. QED
    BY <2>2, <2>3
<1>5. RestAgrees'
  <2>1. SUFFICES ASSUME NEW y \in Asset, metadata'[y] # Null, ~Disturbed(y)', Resting(y)'
                 PROVE  \A p \in Part : items'[y][p] = {metadata'[y].items} \ {0}
    BY DEF RestAgrees
  <2>2. ~Disturbed(y) /\ metadata'[y] = metadata[y] /\ metadata[y] # Null
    BY <1>2, <2>1
  <2>3. CASE y = AssetOf(s)
    <3>1. task'[s] = NoTask
      BY <2>1, <2>3 DEF Resting, FillsOn, AssetOf
    <3>2. x = y
      BY <1>1, <2>2, <2>3 DEF TaskValid, Disturbed
    <3>3. Agrees(s)
      BY <1>1, <2>2, <2>3, <3>2 DEF Agreement, FillingAgrees
    <3>4. \A p \in Part : items'[x][p] = {task[s].items} \ {0}
      BY <2>3, <3>1, <3>2, <3>3 DEF Agrees
    <3>5. QED
      BY <2>2, <3>2, <3>3, <3>4 DEF Agrees
  <2>4. CASE y # AssetOf(s)
    <3>1. y # x
      BY <1>1, <2>2, <2>4 DEF Disturbed
    <3>2. Resting(y)
      BY <2>1, <2>4 DEF Resting, FillsOn, Filling, AssetOf
    <3>3. QED
      BY <2>2, <3>1, <3>2 DEF Agreement, RestAgrees
  <2>5. QED
    BY <2>3, <2>4
<1>6. QED
  BY <1>3, <1>4, <1>5 DEF Agreement
LEMMA DeleteItemsAgrees ==
  ASSUME Base, Agreement, NEW s \in Task, DeleteItems(s)
  PROVE  Agreement'
<1> DEFINE x == Target(s)
           part == Parts[task[s].part]
<1>1. FillsOn(s) /\ At(s, "delete") /\ Filling(s)
  BY DeleteItemsFillsOn DEF DeleteItems, Filling, At
<1>2. x \in Asset /\ part \in Part
  BY <1>1, FillingTarget DEF Target
<1>3. items' = [items EXCEPT ![x][part] = {}]
  BY DEF DeleteItems, Target
<1>4. /\ items'[x][part] = {}
      /\ \A p \in Part : p # part => items'[x][p] = items[x][p]
      /\ \A y \in Asset : y # x => items'[y] = items[y]
  BY <1>2, <1>3 DEF Base, TypeOK
<1>5. task'[s].at = "insert" /\ task'[s].part = task[s].part /\ task'[s] # NoTask
  BY DeleteItemsFillsOn DEF NoTask
<1>6. \A p \in Filled(s)' : p \in Filled(s) /\ p # part /\ p \in Part
  <2>1. Filled(s)' = Filled(s) \ {part}
    BY <1>1, <1>5 DEF Filled, At
  <2>2. \A n \in 1..(task[s].part - 1) : n \in DOMAIN Parts
    BY <1>1, FillingTarget, PartsAreListed
  <2>3. Filled(s) \subseteq Part
    BY <2>2, PartsAreListed DEF Filled
  <2>4. QED
    BY <2>1, <2>3
<1>7. QED
  BY <1>1, <1>4, <1>5, <1>6, FillsOnAgrees

LEMMA InsertItemsAgrees ==
  ASSUME Base, Agreement, NEW s \in Task, InsertItems(s)
  PROVE  Agreement'
<1> DEFINE x == Target(s)
           part == Parts[task[s].part]
           new == {task[s].items} \ {0}
<1>1. FillsOn(s) /\ At(s, "insert") /\ Filling(s)
  BY InsertItemsFillsOn DEF InsertItems, Filling, At
<1>2. x \in Asset /\ part \in Part /\ task[s].part \in 1..Len(Parts)
  BY <1>1, FillingTarget DEF Target
<1>3. items' = [items EXCEPT ![x][part] = items[x][part] \cup new]
  BY DEF InsertItems, Target
<1>4. /\ items'[x][part] = items[x][part] \cup new
      /\ \A p \in Part : p # part => items'[x][p] = items[x][p]
      /\ \A y \in Asset : y # x => items'[y] = items[y]
  BY <1>2, <1>3 DEF Base, TypeOK
<1>5. ASSUME x = AssetOf(s), ~Disturbed(x) PROVE items'[x][part] = new
  BY <1>1, <1>4, <1>5 DEF Agreement, FillingAgrees, Agrees
<1>6. \A n \in 1..task[s].part : Parts[n] = part \/ Parts[n] \in Filled(s)
  <2>1. \A n \in 1..task[s].part : n = task[s].part \/ n \in 1..(task[s].part - 1)
    BY <1>2, PartsAreListed
  <2>2. QED
    BY <1>1, <2>1 DEF Filled
<1>7. \A n \in 1..task[s].part : Parts[n] \in Part
  BY <1>2, PartsAreListed
<1>8. ASSUME Filling(s)', x = AssetOf(s), ~Disturbed(x)
      PROVE  /\ ~At(s, "insert")'
             /\ \A p \in Filled(s)' :
                  \/ items'[x][p] = new
                  \/ p \in Filled(s) /\ items'[x][p] = items[x][p]
  <2>1. task'[s].at = "delete" /\ task'[s].part = task[s].part + 1
    BY <1>8, InsertItemsFillsOn DEF Filling, NoTask
  <2>2. task'[s].part - 1 = task[s].part
    BY <1>2, <2>1, PartsAreListed
  <2>3. ~At(s, "insert")' /\ Filled(s)' \subseteq {Parts[n] : n \in 1..task[s].part}
    BY <2>1, <2>2 DEF Filled, At
  <2>4. QED
    BY <1>4, <1>5, <1>6, <1>7, <1>8, <2>3
<1>9. ASSUME task'[s] = NoTask
      PROVE  \A p \in Part :
               \/ p \in Filled(s) /\ items'[x][p] = items[x][p]
               \/ items'[x][p] = items[x][p] \cup new /\ p = part /\ At(s, "insert")
  <2>1. task[s].part = Len(Parts)
    BY <1>9, InsertItemsFillsOn DEF NoTask
  <2>2. Part = {Parts[n] : n \in 1..task[s].part}
    BY <2>1, PartsAreListed DEF Part
  <2>3. QED
    BY <1>1, <1>4, <1>6, <1>7, <2>2
<1>10. QED
  BY <1>1, <1>4, <1>8, <1>9, FillsOnAgrees

LEMMA QuietStep ==
  ASSUME Agreement, UNCHANGED tables, overlapped \subseteq overlapped',
         \A x : Disturbed(x) => Disturbed(x)',
         \A r \in Task : Busy(r)' => Busy(r) /\ task'[r].key = task[r].key,
         \A r \in Task : Filling(r)' => Filling(r) /\ task'[r] = task[r],
         \A r \in Task : \A x : Filling(r) /\ AssetOf(r) = x => Filling(r)' \/ Disturbed(x)'
  PROVE  Agreement'
  BY AloneStep, QuietAgrees DEF Agreement

LEMMA AgreementStep == ASSUME Base, Agreement, [Next]_vars PROVE Agreement'
<1>1. ASSUME UNCHANGED <<task, tables, overlapped, erased, failed>> PROVE Agreement'
  BY <1>1, QuietStep DEF Disturbed, Busy, Filling, At
<1>2. ASSUME NEW s \in Task, ReadsOn(s) PROVE Agreement'
  <2>1. /\ \A r \in Task \ {s} : task'[r] = task[r]
        /\ Busy(s) /\ ~Filling(s) /\ ~Filling(s)' /\ task'[s].key = task[s].key
    BY <1>2 DEF ReadsOn, Keeps, Filling, Base, TypeOK
  <2>2. \A x : Disturbed(x) => Disturbed(x)'
    BY <1>2 DEF ReadsOn, Disturbed
  <2>3. QED
    BY <1>2, <2>1, <2>2, QuietStep DEF ReadsOn, Busy, Filling, At
<1>3. ASSUME NEW k \in Key, NEW s \in Task, HandOut(k, s) PROVE Agreement'
  <2>1. \A x : Disturbed(x) => Disturbed(x)'
    BY <1>3 DEF HandOut, Disturbed
  <2>2. \A r \in Task : Filling(r)' => Filling(r) /\ task'[r] = task[r]
    BY <1>3, HandOutTask DEF Filling
  <2>3. \A r \in Task : Filling(r) => Filling(r)'
    BY <1>3, HandOutTask DEF HandOut, Filling, At
  <2>4. UNCHANGED tables
    BY <1>3 DEF HandOut
  <2>5. QED
    BY <1>3, <2>1, <2>2, <2>3, <2>4, HandOutAlone, QuietAgrees DEF Agreement
<1>4. ASSUME NEW s \in Task, WriteFails(s) PROVE Agreement'
  <2>1. task' = [task EXCEPT ![s] = NoTask]
    BY <1>4 DEF WriteFails
  <2>2. ~Busy(s)' /\ ~Filling(s)' /\ \A r \in Task \ {s} : task'[r] = task[r]
    BY <2>1 DEF Base, TypeOK, Busy, Filling, At, NoTask
  <2>3. /\ UNCHANGED <<tables, overlapped>> /\ AssetOf(s) \in failed'
        /\ \A x : Disturbed(x) => Disturbed(x)'
    BY <1>4 DEF WriteFails, Disturbed
  <2>4. \A r \in Task : \A x : Filling(r) /\ AssetOf(r) = x => Filling(r)' \/ Disturbed(x)'
    BY <2>2, <2>3 DEF Filling, Disturbed
  <2>5. QED
    BY <2>2, <2>3, <2>4, QuietStep DEF Busy, Filling, At
<1>5. ASSUME Crash PROVE Agreement'
  <2>1. \A r \in Task : ~Busy(r)' /\ ~Filling(r)'
    BY <1>5 DEF Crash, Busy, Filling, At, NoTask
  <2>2. /\ UNCHANGED <<tables, overlapped>>
        /\ \A x : Disturbed(x) => Disturbed(x)'
    BY <1>5 DEF Crash, Disturbed
  <2>3. \A r \in Task : \A x : Filling(r) /\ AssetOf(r) = x => Disturbed(x)'
    BY <1>5 DEF Crash, Filling, At, Disturbed
  <2>4. QED
    BY <2>1, <2>2, <2>3, QuietStep
<1>6. CASE UNCHANGED vars
  BY <1>1, <1>6 DEF vars, history
<1>7. CASE Next
  <2>1. ASSUME NEW x \in Asset, Change(x) PROVE Agreement'
    BY <1>1, <2>1 DEF Change, history
  <2>2. ASSUME NEW k \in Key, Request(k) \/ Release(k) \/ RunFails(k) PROVE Agreement'
    BY <1>1, <2>2 DEF Request, Release, RunFails, history
  <2>3. ASSUME NEW s \in Task, Step(s) \/ ReadFails(s) \/ ReadMalformed(s) PROVE Agreement'
    BY <1>2, <2>3, ReadingReadsOn, WriteRowAgrees, DeleteItemsAgrees, InsertItemsAgrees
       DEF Step, Reading
  <2>4. QED
    BY <1>3, <1>4, <1>5, <1>7, <2>1, <2>2, <2>3 DEF Next
<1>8. QED
  BY <1>6, <1>7
-----------------------------------------------------------------------------
(* The row and the requests.                                               *)

(* A step that an asset's row and tasks have no part in.                   *)
LEMMA AnswersKept ==
  ASSUME NEW x \in Asset, Answers(x), standard' = standard, announced'[x] = announced[x],
         metadata'[x] = metadata[x], TasksOf(x)' = TasksOf(x),
         \A r \in TasksOf(x) : task'[r] = task[r]
  PROVE  Answers(x)'
<1>1. RowHas(x)' <=> RowHas(x)
  BY DEF RowHas
<1>2. ASSUME NEW r \in TasksOf(x) PROVE OnItsWay(r)'
  <2>1. OnItsWay(r) /\ task'[r] = task[r] /\ AssetOf(r) = x
    BY <1>2 DEF Answers, TasksOf
  <2>2. /\ AssetOf(r)' = x /\ IsToken(r)' = IsToken(r) /\ At(r, "document")' = At(r, "document")
        /\ Filling(r)' = Filling(r)
    BY <2>1 DEF AssetOf, IsToken, At, Filling
  <2>3. QED
    BY <1>1, <2>1, <2>2 DEF OnItsWay
<1>3. QED
  BY <1>1, <1>2 DEF Answers

(* Of an undisturbed asset a task is the only one.                         *)
LEMMA OnlyTask ==
  ASSUME Alone, NEW s \in Task, Busy(s), ~Disturbed(AssetOf(s))
  PROVE  TasksOf(AssetOf(s)) = {s}
  BY DEF Alone, Disturbed, TasksOf, Busy

(* A step of task s, seen from its asset and from the other ones.          *)
LEMMA TaskStepAnswers ==
  ASSUME Base, Agreement, Answered, NEW s \in Task, Busy(s),
         \A r \in Task \ {s} : task'[r] = task[r],
         Busy(s)' => task'[s].key = task[s].key,
         UNCHANGED <<standard, announced, queued, raced>>,
         \A x : Disturbed(x) => Disturbed(x)',
         \A x \in Asset : x # AssetOf(s) /\ ~Disturbed(x)' => metadata'[x] = metadata[x],
         \A x : x = AssetOf(s) /\ Awaited(x) /\ ~Disturbed(x)' /\ OnItsWay(s) =>
                 IF Busy(s)' THEN OnItsWay(s)' ELSE RowHas(x)'
  PROVE  Answered'
<1>1. SUFFICES ASSUME NEW x \in Asset, Awaited(x)' PROVE Answers(x)'
  BY DEF Answered
<1>2. Awaited(x) /\ ~Disturbed(x)'
  <2>1. KeysOf(x)' = KeysOf(x)
    BY DEF KeysOf, CodesOf
  <2>2. QED
    BY <1>1, <2>1 DEF Awaited
<1>3. Answers(x)
  BY <1>2 DEF Answered
<1>4. CASE x # AssetOf(s)
  <2>1. TasksOf(x)' = TasksOf(x) /\ s \notin TasksOf(x)
    BY <1>4 DEF TasksOf, Busy, At, AssetOf
  <2>2. QED
    BY <1>2, <1>3, <1>4, <2>1, AnswersKept DEF TasksOf
<1>5. CASE x = AssetOf(s)
  <2>1. TasksOf(x) = {s}
    BY <1>2, <1>5, OnlyTask DEF Agreement, Awaited
  <2>2. OnItsWay(s)
    BY <1>3, <2>1 DEF Answers
  <2>3. TasksOf(x)' = IF Busy(s)' THEN {s} ELSE {}
    <3>1. \A r \in Task \ {s} : r \in TasksOf(x)' <=> r \in TasksOf(x)
      BY DEF TasksOf, At, AssetOf
    <3>2. s \in TasksOf(x)' <=> Busy(s)'
      BY <1>5 DEF TasksOf, Busy, AssetOf
    <3>3. TasksOf(x)' \subseteq Task
      BY DEF TasksOf
    <3>4. QED
      BY <2>1, <3>1, <3>2, <3>3
  <2>4. IF Busy(s)' THEN OnItsWay(s)' ELSE RowHas(x)'
    BY <1>2, <1>5, <2>2
  <2>5. QED
    BY <2>3, <2>4 DEF Answers
<1>6. QED
  BY <1>4, <1>5
(* The steps of reading.                                                   *)
LEMMA ReadsOnAnswers ==
  ASSUME Base, Agreement, Answered, NEW s \in Task, ReadsOn(s),
         \A x : x = AssetOf(s) /\ Awaited(x) /\ ~Disturbed(x)' /\ OnItsWay(s) => OnItsWay(s)'
  PROVE  Answered'
<1>1. /\ \A r \in Task \ {s} : task'[r] = task[r]
      /\ Busy(s) /\ Busy(s)' /\ task'[s].key = task[s].key
  BY DEF ReadsOn, Keeps, Busy, At, Base, TypeOK
<1>2. \A x : Disturbed(x) => Disturbed(x)'
  BY DEF ReadsOn, Disturbed
<1>3. UNCHANGED <<standard, announced, queued, raced, metadata>>
  BY DEF ReadsOn, stream, tables
<1>4. QED
  BY <1>1, <1>2, <1>3, TaskStepAnswers

(* A supported interface is that of the asset's contract.                  *)
LEMMA IdentifyAnswers ==
  ASSUME Base, Agreement, Answered, NEW s \in Task, Identify(s)
  PROVE  Answered'
<1>1. ReadsOn(s)
  BY IdentifyReadsOn
<1>2. SUFFICES ASSUME NEW x, x = AssetOf(s), Awaited(x), ~Disturbed(x)', OnItsWay(s)
               PROVE  OnItsWay(s)'
  BY <1>1, ReadsOnAnswers
<1> DEFINE code == IF task[s].key[2] = Null THEN standard[x[1]] ELSE task[s].key[2]
           supported == IF IsToken(s) THEN {"LSP8"} ELSE {"LSP0", "LSP7", "LSP8", "ERC20"}
<1>3. /\ task[s] \in TaskType /\ task[s].key \in KeysOf(x) /\ x \in Asset /\ x[1] \in Address
  BY <1>2, Pairs DEF Base, TypeOK, KeysValid, Identify, Busy, At, AssetOf
<1>4. code \in supported
  <2>1. CASE IsToken(s)
    BY <1>2, <2>1 DEF Identify, Disturbed
  <2>2. CASE ~IsToken(s)
    <3>1. code \in {standard[x[1]], "LSP0"}
      BY <1>2, <1>3, <2>2, ContractKey DEF IsToken, AssetOf
    <3>2. standard[x[1]] \in Standards /\ standard[x[1]] # "other"
      BY <1>2, <1>3 DEF Base, TypeOK, Awaited
    <3>3. QED
      BY <2>2, <3>1, <3>2, MetadataAssumption
  <2>3. QED
    BY <2>1, <2>2
<1> DEFINE next == [task[s] EXCEPT !.code = code,
                     !.at = IF IsToken(s) \/ code = "LSP0" THEN "document" ELSE "name"]
<1>5. task' = [task EXCEPT ![s] = next]
  BY <1>2, <1>4 DEF Identify
<1>6. /\ task'[s].code = code /\ task'[s].key = task[s].key
      /\ task'[s].at = IF IsToken(s) \/ code = "LSP0" THEN "document" ELSE "name"
  BY <1>3, <1>5 DEF Base, TypeOK, TaskType
<1> HIDE DEF next, code
<1>7. IsToken(s)' = IsToken(s)
  BY <1>6 DEF IsToken, AssetOf
<1>8. QED
  BY <1>6, <1>7 DEF OnItsWay, At, Filling
LEMMA ReadFields ==
  ASSUME Base, NEW s \in Task, Busy(s),
         NEW fields \in SUBSET {"name", "items"}, NEW next, Read(s, fields, next)
  PROVE  /\ task'[s].at = next /\ task'[s].key = task[s].key /\ task'[s].code = task[s].code
         /\ task'[s].name = IF "name" \in fields THEN version[AssetOf(s)] ELSE task[s].name
         /\ task'[s].items = IF "items" \in fields THEN version[AssetOf(s)] ELSE task[s].items
         /\ announced' = announced /\ standard' = standard
         /\ announced[AssetOf(s)] <= version[AssetOf(s)]
<1>1. task[s] \in TaskType /\ AssetOf(s) \in Asset
  BY Pairs DEF Base, TypeOK, KeysValid, AssetOf
<1>2. /\ task'[s].at = next /\ task'[s].key = task[s].key /\ task'[s].code = task[s].code
      /\ task'[s].name = IF "name" \in fields THEN version[AssetOf(s)] ELSE task[s].name
      /\ task'[s].items = IF "items" \in fields THEN version[AssetOf(s)] ELSE task[s].items
  BY <1>1 DEF Read, Base, TypeOK, TaskType
<1>3. QED
  BY <1>1, <1>2 DEF Read, Base, AnnouncedIsPast

(* Numbers that can be compared.                                           *)
LEMMA NumbersOf ==
  ASSUME Base, NEW s \in Task, Busy(s)
  PROVE  /\ announced[AssetOf(s)] \in Nat /\ version[AssetOf(s)] \in Nat
         /\ task[s].name \in Nat /\ task[s].items \in Nat
         /\ task[s] \in TaskType /\ AssetOf(s) \in Asset
<1>1. task[s] \in TaskType /\ AssetOf(s) \in Asset
  BY Pairs DEF Base, TypeOK, KeysValid, AssetOf
<1>2. QED
  BY <1>1, Numbers DEF Base, TypeOK, TaskType

LEMMA ReadAnswers ==
  ASSUME Base, Agreement, Answered, NEW s \in Task,
         ReadERC20(s) \/ ReadName(s) \/ ReadAsset(s) \/ ReadNFT(s) \/ ReadProfile(s)
           \/ ReadTokenData(s)
  PROVE  Answered'
<1>1. ReadsOn(s) /\ Busy(s)
  BY ReadingReadsOn DEF Reading, ReadsOn
<1>2. SUFFICES ASSUME NEW x, x = AssetOf(s), Awaited(x), ~Disturbed(x)', OnItsWay(s)
               PROVE  OnItsWay(s)'
  BY <1>1, ReadsOnAnswers
<1>3. /\ announced[x] \in Nat /\ version[x] \in Nat /\ announced[x] <= version[x]
      /\ task[s].name \in Nat /\ task[s].items \in Nat
  BY <1>1, <1>2, NumbersOf DEF Base, AnnouncedIsPast
<1>4. AssetOf(s)' = x /\ IsToken(s)' = IsToken(s) /\ ~Filling(s)'
  BY <1>1, <1>2 DEF ReadsOn, Keeps, AssetOf, IsToken, Filling
<1>5. SUFFICES
        /\ task'[s].at = "document" /\ ~IsToken(s) /\ task'[s].code # "LSP0"
             => task'[s].name >= announced[x]
        /\ task'[s].at \in {"nft", "row"} =>
             /\ task'[s].name >= announced[x]
             /\ standard[x[1]] # "ERC20" => task'[s].items >= announced[x]
  BY <1>1, <1>2, <1>4 DEF OnItsWay, At, ReadsOn
<1>6. CASE ReadERC20(s)
  <2>1. standard[x[1]] = "ERC20"
    BY <1>1, <1>2, <1>6 DEF ReadERC20, Base, TasksValid, TaskValid, At
  <2>2. task'[s].at = "row" /\ task'[s].name = version[x]
    BY <1>1, <1>2, <1>6, ReadFields DEF ReadERC20
  <2>3. QED
    BY <1>3, <2>1, <2>2
<1>7. CASE ReadName(s)
  <2>1. task'[s].at = "document" /\ task'[s].name = version[x]
    BY <1>1, <1>2, <1>7, ReadFields DEF ReadName
  <2>2. QED
    BY <1>3, <2>1
<1>8. CASE ReadAsset(s)
  <2>1. task[s].name >= announced[x]
    BY <1>2, <1>8 DEF ReadAsset, OnItsWay, At
  <2>2. /\ task'[s].at \in {"nft", "row"} /\ task'[s].name = task[s].name
        /\ task'[s].items = version[x]
    BY <1>1, <1>2, <1>8, ReadFields DEF ReadAsset
  <2>3. QED
    BY <1>3, <2>1, <2>2
<1>9. CASE ReadNFT(s)
  <2>1. /\ task[s].name >= announced[x]
        /\ standard[x[1]] # "ERC20" => task[s].items >= announced[x]
    BY <1>2, <1>9 DEF ReadNFT, OnItsWay, At
  <2>2. /\ task'[s].at = "row" /\ task'[s].name = task[s].name
        /\ task'[s].items = task[s].items
    BY <1>1, <1>2, <1>9, ReadFields DEF ReadNFT
  <2>3. QED
    BY <2>1, <2>2
<1>10. CASE ReadProfile(s) \/ ReadTokenData(s)
  <2>1. task'[s].at = "row" /\ task'[s].name = version[x] /\ task'[s].items = version[x]
    BY <1>1, <1>2, <1>10, ReadFields DEF ReadProfile, ReadTokenData
  <2>2. QED
    BY <1>3, <2>1
<1>11. QED
  BY <1>6, <1>7, <1>8, <1>9, <1>10
LEMMA ReadFailsAnswers ==
  ASSUME Base, Agreement, Answered, NEW s \in Task, ReadFails(s) \/ ReadMalformed(s)
  PROVE  Answered'
<1>1. ReadsOn(s) /\ \A x : x = AssetOf(s) => Disturbed(x)'
  BY ReadFailsReadsOn, ReadMalformedReadsOn DEF ReadFails, ReadMalformed, Disturbed
<1>2. QED
  BY <1>1, ReadsOnAnswers

(* The row gets what the task holds, unless it is for another asset's.     *)
LEMMA WriteRowAnswers ==
  ASSUME Base, Agreement, Answered, NEW s \in Task, WriteRow(s)
  PROVE  Answered'
<1>1. /\ \A r \in Task \ {s} : task'[r] = task[r]
      /\ Busy(s) /\ Busy(s)' /\ task'[s].key = task[s].key
  BY WriteRowTask DEF Busy, At
<1>2. /\ \A x : Disturbed(x) => Disturbed(x)'
      /\ UNCHANGED <<standard, announced, queued, raced>>
  BY DEF WriteRow, Disturbed, stream
<1>3. \A x \in Asset : x # AssetOf(s) /\ ~Disturbed(x)' => metadata'[x] = metadata[x]
  <2>1. Target(s) # AssetOf(s) => Target(s) \in erased'
    BY DEF WriteRow, Target
  <2>2. QED
    BY <2>1, WriteRowTask DEF Disturbed
<1>4. ASSUME NEW x, x = AssetOf(s), Awaited(x), ~Disturbed(x)', OnItsWay(s)
      PROVE  OnItsWay(s)'
  <2>1. Target(s) = x
    BY <1>2, <1>4, WriteRowTask DEF TaskValid, Disturbed
  <2>2. /\ task[s].name >= announced[x]
        /\ standard[x[1]] # "ERC20" => task[s].items >= announced[x]
    BY <1>4 DEF OnItsWay, WriteRow, At
  <2>3. x \in Asset /\ task[s].name \in 0..MaxVersion /\ task[s].items \in 0..MaxVersion
    BY <1>1, <2>1, WriteRowTask DEF TaskValid, Base, TypeOK, TaskType
  <2>4. /\ metadata'[x] = [name |-> task[s].name, items |-> task[s].items]
        /\ metadata'[x] # Null
    BY <2>1, <2>3, WriteRowTask, RowIsNotNull
  <2>5. metadata'[x].name = task[s].name /\ metadata'[x].items = task[s].items
    BY <2>4
  <2>6. RowHas(x)'
    BY <1>2, <2>2, <2>4, <2>5 DEF RowHas
  <2>7. AssetOf(s)' = x /\ task'[s].at = "delete"
    BY <1>4, WriteRowTask DEF AssetOf
  <2>8. QED
    BY <2>6, <2>7 DEF OnItsWay, At, Filling
<1>5. QED
  BY <1>1, <1>2, <1>3, <1>4, TaskStepAnswers

LEMMA FillsOnAnswers ==
  ASSUME Base, Agreement, Answered, NEW s \in Task, FillsOn(s)
  PROVE  Answered'
<1>1. /\ \A r \in Task \ {s} : task'[r] = task[r]
      /\ Busy(s) /\ Filling(s) /\ (Busy(s)' => Filling(s)' /\ task'[s].key = task[s].key)
  BY DEF FillsOn, Busy, Filling, At, NoTask
<1>2. /\ \A x : Disturbed(x) => Disturbed(x)'
      /\ UNCHANGED <<standard, announced, queued, raced, metadata>>
  BY DEF FillsOn, Disturbed, stream
<1>3. ASSUME NEW x, x = AssetOf(s), OnItsWay(s)
      PROVE  IF Busy(s)' THEN OnItsWay(s)' ELSE RowHas(x)'
  <2>1. RowHas(x)'
    BY <1>1, <1>2, <1>3 DEF OnItsWay, RowHas
  <2>2. Busy(s)' => AssetOf(s)' = x /\ ~At(s, "document")' /\ task'[s].at \notin {"nft", "row"}
    BY <1>1, <1>3 DEF AssetOf, Filling, At
  <2>3. QED
    BY <2>1, <2>2 DEF OnItsWay
<1>4. QED
  BY <1>1, <1>2, <1>3, TaskStepAnswers

LEMMA WriteFailsAnswers ==
  ASSUME Base, Agreement, Answered, NEW s \in Task, WriteFails(s)
  PROVE  Answered'
<1>1. task' = [task EXCEPT ![s] = NoTask] /\ Busy(s)
  BY DEF WriteFails, Busy, At
<1>2. ~Busy(s)' /\ \A r \in Task \ {s} : task'[r] = task[r]
  BY <1>1 DEF Base, TypeOK, Busy, At, NoTask
<1>3. /\ \A x : Disturbed(x) => Disturbed(x)'
      /\ \A x : x = AssetOf(s) => Disturbed(x)'
      /\ UNCHANGED <<standard, announced, queued, raced, metadata>>
  BY DEF WriteFails, Disturbed, stream, tables
<1>4. QED
  BY <1>1, <1>2, <1>3, TaskStepAnswers

(* The stream and the chain; a message that is queued again is one more.   *)
LEMMA StreamAnswers ==
  ASSUME Answered, UNCHANGED <<standard, announced, task, metadata>>,
         queued \subseteq queued', raced' = raced, \A x : Disturbed(x) => Disturbed(x)'
  PROVE  Answered'
<1>1. SUFFICES ASSUME NEW x \in Asset, Awaited(x)' PROVE Answers(x)'
  BY DEF Answered
<1>2. Awaited(x)
  BY <1>1 DEF Awaited, KeysOf, CodesOf
<1>3. TasksOf(x)' = TasksOf(x)
  BY DEF TasksOf, At, AssetOf
<1>4. QED
  BY <1>2, <1>3, AnswersKept DEF Answered, TasksOf

LEMMA RequestAnswers ==
  ASSUME Base, Answered, NEW k \in Key, Request(k)
  PROVE  Answered'
<1>1. SUFFICES ASSUME NEW x \in Asset, Awaited(x)' PROVE Answers(x)'
  BY DEF Answered
<1>2. /\ UNCHANGED <<standard, task, metadata>> /\ queued \subseteq queued' /\ raced \subseteq raced'
      /\ UNCHANGED <<overlapped, erased, failed>>
  BY DEF Request, tables
<1>3. x # k[1]
  <2>1. k \in KeysOf(k[1]) /\ (k \in queued' \/ k[1] \in raced')
    BY DEF Request
  <2>2. KeysOf(x)' = KeysOf(x)
    BY <1>2 DEF KeysOf, CodesOf
  <2>3. QED
    BY <1>1, <2>1, <2>2 DEF Awaited
<1>4. announced'[x] = announced[x]
  BY <1>3 DEF Request, Base, TypeOK
<1>5. Awaited(x)
  BY <1>1, <1>2, <1>4 DEF Awaited, KeysOf, CodesOf, Disturbed
<1>6. TasksOf(x)' = TasksOf(x)
  BY <1>2 DEF TasksOf, At, AssetOf
<1>7. QED
  BY <1>2, <1>4, <1>5, <1>6, AnswersKept DEF Answered, TasksOf

(* The task of a message that is handed out reads everything again.        *)
LEMMA HandOutAnswers ==
  ASSUME Base, Answered, NEW k \in Key, NEW s \in Task, HandOut(k, s)
  PROVE  Answered'
<1>1. SUFFICES ASSUME NEW x \in Asset, Awaited(x)' PROVE Answers(x)'
  BY DEF Answered
<1>2. /\ UNCHANGED <<standard, announced, metadata, raced, erased, failed>>
      /\ overlapped \subseteq overlapped' /\ queued' = queued \ {k}
      /\ TasksOf(k[1]) # {} => k[1] \in overlapped'
  BY DEF HandOut, tables
<1>3. \A r \in Task \ {s} : task'[r] = task[r]
  BY HandOutTask
<1>4. ~Busy(s) /\ Busy(s)' /\ AssetOf(s)' = k[1]
  BY HandOutTask DEF HandOut, Busy, At, AssetOf
<1>5. CASE x = k[1]
  <2>1. TasksOf(x) = {}
    BY <1>1, <1>2, <1>5 DEF Awaited, Disturbed
  <2>2. TasksOf(x)' = {s}
    <3>1. \A r \in Task \ {s} : r \in TasksOf(x)' <=> r \in TasksOf(x)
      BY <1>3 DEF TasksOf, At, AssetOf
    <3>2. s \in TasksOf(x)'
      BY <1>4, <1>5 DEF TasksOf, Busy
    <3>3. TasksOf(x)' \subseteq Task
      BY DEF TasksOf
    <3>4. QED
      BY <2>1, <3>1, <3>2, <3>3
  <2>3. OnItsWay(s)'
    BY HandOutTask DEF OnItsWay, At, Filling
  <2>4. QED
    BY <2>2, <2>3 DEF Answers
<1>6. CASE x # k[1]
  <2>1. k \notin KeysOf(x)
    BY <1>6, KeysOfAsset
  <2>2. Awaited(x)
    BY <1>1, <1>2, <2>1 DEF Awaited, KeysOf, CodesOf, Disturbed
  <2>3. TasksOf(x)' = TasksOf(x) /\ s \notin TasksOf(x)
    BY <1>3, <1>4, <1>6 DEF TasksOf, Busy, At, AssetOf
  <2>4. QED
    BY <1>2, <1>3, <2>2, <2>3, AnswersKept DEF Answered, TasksOf
<1>7. QED
  BY <1>5, <1>6

LEMMA CrashAnswers == ASSUME Answered, Crash PROVE Answered'
<1>1. SUFFICES ASSUME NEW x \in Asset, Awaited(x)' PROVE Answers(x)'
  BY DEF Answered
<1>2. /\ UNCHANGED <<standard, announced, metadata, raced, overlapped, erased>>
      /\ failed \subseteq failed' /\ queued \subseteq queued'
  BY DEF Crash, tables
<1>3. Awaited(x) /\ x \notin failed'
  BY <1>1, <1>2 DEF Awaited, KeysOf, CodesOf, Disturbed
<1>4. TasksOf(x) = {} /\ TasksOf(x)' = {}
  <2>1. \A s \in TasksOf(x) : x \in failed'
    BY DEF Crash, TasksOf, At
  <2>2. \A s \in Task : ~Busy(s)'
    BY DEF Crash, Busy, At, NoTask
  <2>3. QED
    BY <1>3, <2>1, <2>2 DEF TasksOf, Busy
<1>5. RowHas(x)'
  BY <1>2, <1>3, <1>4 DEF Answered, Answers, RowHas
<1>6. QED
  BY <1>4, <1>5 DEF Answers

LEMMA AnsweredStep == ASSUME Base, Agreement, Answered, [Next]_vars PROVE Answered'
<1>1. CASE UNCHANGED vars
  BY <1>1, StreamAnswers DEF vars, stream, tables, history, Disturbed
<1>2. CASE Next
  <2>1. ASSUME NEW x \in Asset, Change(x) PROVE Answered'
    BY <2>1, StreamAnswers DEF Change, stream, tables, history, Disturbed
  <2>2. ASSUME NEW k \in Key, Release(k) \/ RunFails(k) PROVE Answered'
    BY <2>2, StreamAnswers DEF Release, RunFails, tables, history, Disturbed
  <2>3. ASSUME NEW s \in Task, Step(s) PROVE Answered'
    BY <2>3, IdentifyAnswers, ReadAnswers, WriteRowAnswers, FillsOnAnswers,
       DeleteItemsFillsOn, InsertItemsFillsOn DEF Step
  <2>4. QED
    BY <1>2, <2>1, <2>2, <2>3, RequestAnswers, HandOutAnswers, ReadFailsAnswers,
       WriteFailsAnswers, CrashAnswers DEF Next
<1>3. QED
  BY <1>1, <1>2

-----------------------------------------------------------------------------
(* The theorems.                                                           *)

LEMMA InitIInv == Init => IInv
<1> SUFFICES ASSUME Init PROVE IInv
  OBVIOUS
<1>1. \A s \in Task : ~Busy(s) /\ ~Filling(s)
  BY DEF Init, NoTask, Busy, Filling, At
<1>2. Agreement
  BY <1>1 DEF Init, Agreement, Alone, FillingAgrees, RestAgrees
<1>3. Answered
  BY DEF Init, Answered, Awaited
<1>4. QED
  BY <1>2, <1>3, InitBase DEF IInv

(* The inductive invariant holds in every reachable state.                 *)
THEOREM Invariance == Spec => []IInv
<1>1. IInv /\ [Next]_vars => IInv'
  BY BaseStep, AgreementStep, AnsweredStep DEF IInv
<1>2. QED
  BY <1>1, InitIInv, PTL DEF Spec

(* The stream, the tables and the tasks hold what the code can put there,  *)
(* and no item is without its row, whatever fails.                         *)
THEOREM TypeCorrectness == Spec => []TypeOK
<1>1. IInv => TypeOK
  BY DEF IInv, Base
<1>2. QED
  BY <1>1, Invariance, PTL

(* A row and its four tables are of one answer between the tasks of an     *)
(* asset that no second task, failure or token's task disturbed.           *)
THEOREM OneAnswer == Spec => []PartsAgree
<1>1. IInv => PartsAgree
  <2>1. SUFFICES ASSUME IInv, NEW x \in Asset, metadata[x] # Null, TasksOf(x) = {}, ~Disturbed(x)
                 PROVE  \A p \in Part : items[x][p] = {metadata[x].items} \ {0}
    BY DEF PartsAgree
  <2>2. Resting(x)
    BY <2>1 DEF Resting, TasksOf, Filling, At
  <2>3. QED
    BY <2>1, <2>2 DEF IInv, Agreement, RestAgrees
<1>2. QED
  BY <1>1, Invariance, PTL

(* An asset with no message and no task has a row with every announced     *)
(* change, unless a request was skipped for a message handed out already,  *)
(* or the asset was disturbed.                                             *)
THEOREM RequestsAnswered == Spec => []RowFollowsRequests
<1>1. IInv => RowFollowsRequests
  <2>1. SUFFICES ASSUME IInv, NEW x \in Asset, Awaited(x), TasksOf(x) = {} PROVE RowHas(x)
    BY DEF RowFollowsRequests, Awaited, RowHas
  <2>2. QED
    BY <2>1 DEF IInv, Answered, Answers
<1>2. QED
  BY <1>1, Invariance, PTL
=============================================================================
