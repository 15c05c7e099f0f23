--------------------------- MODULE RefreshStream ---------------------------
(***************************************************************************)
(* The stream of assets whose metadata is to be fetched again:             *)
(* shared/redis/redis.service.ts and, as its only consumer, indexMetadata  *)
(* of apps/indexer/src/scheduling/scheduling.service.ts.                   *)
(*                                                                         *)
(* A producer locks an asset (SETNX and EXPIRE of a unique key, in one     *)
(* MULTI) and, when the lock was free, adds a message to the stream with a *)
(* second command.  The consumer reads the oldest messages, starts a       *)
(* metadata task for each, reads as many messages again to learn which     *)
(* locks to release, and sends the XDEL and DEL commands in one go.  It    *)
(* does not wait for the tasks: promiseAllSettledPLimit is given functions.*)
(*                                                                         *)
(* The stream is the set of its messages; Redis keeps them in order of id. *)
(* Time is counted in ticks of a fraction of a day.                        *)
(***************************************************************************)
EXTENDS Integers, FiniteSets

CONSTANTS
  Asset,         \* address, token and interface of what is not skipped (EOA, LSP6)
  Producer,      \* calls of addAssetToRefreshDataStream under way
  Null,          \* no asset
  ChunkSize,     \* getMetadataChunkSize()
  Day,           \* ticks until a unique key expires
  MaxMessages,   \* bound: messages ever added
  MaxFaults      \* bound: failed calls and crashes

ASSUME StreamAssumption ==
  /\ ChunkSize \in Nat \ {0}
  /\ Day \in Nat \ {0}
  /\ MaxMessages \in Nat
  /\ MaxFaults \in Nat
  /\ Null \notin Asset

VARIABLES
  unique,     \* unique[a]: ticks until a's unique key expires, 0 without key
  stream,     \* the messages of refresh-data
  lastId,     \* the id of the newest message ever added
  producer,   \* producer[p]: the asset p has locked and will add
  job,        \* the local variables of the run of indexMetadata
  tasks,      \* ids of the messages whose metadata task is under way
  handed,     \* history: ids of the messages a task was started for
  done,       \* history: ids of the messages whose metadata was stored
  faults      \* history: faults so far

vars == <<unique, stream, lastId, producer, job, tasks, handed, done, faults>>

Message == [id : Nat, asset : Asset]
Ids(messages) == {m.id : m \in messages}
Assets(messages) == {m.asset : m \in messages}
AwaitingAdd == {p \in Producer : producer[p] # Null}

Idle == [at |-> "idle", batch |-> {}, again |-> {}]

Init ==
  /\ unique = [a \in Asset |-> 0]
  /\ stream = {}
  /\ lastId = 0
  /\ producer = [p \in Producer |-> Null]
  /\ job = Idle
  /\ tasks = {} /\ handed = {} /\ done = {}
  /\ faults = 0

-----------------------------------------------------------------------------
(* addAssetToRefreshDataStream.                                            *)

(* SETNX sets the key: the caller goes on to XADD.                         *)
Lock(p, a) ==
  /\ producer[p] = Null
  /\ unique[a] = 0
  /\ lastId + Cardinality(AwaitingAdd) < MaxMessages
  /\ unique' = [unique EXCEPT ![a] = Day]
  /\ producer' = [producer EXCEPT ![p] = a]
  /\ UNCHANGED <<stream, lastId, job, tasks, handed, done, faults>>

(* A regression: every duplicate adds a day to the key's life.             *)
SkipDuplicateExtending(a) ==
  /\ unique[a] > 0
  /\ unique' = [unique EXCEPT ![a] = @ + Day]
  /\ UNCHANGED <<stream, lastId, producer, job, tasks, handed, done, faults>>

(* SETNX finds the key: a duplicate is skipped, but EXPIRE has been sent   *)
(* along and the key lives for another day.                                *)
SkipDuplicate(a) ==
  /\ unique[a] > 0
  /\ unique' = [unique EXCEPT ![a] = Day]
  /\ UNCHANGED <<stream, lastId, producer, job, tasks, handed, done, faults>>

(* XADD.                                                                   *)
Add(p) ==
  /\ producer[p] # Null
  /\ lastId' = lastId + 1
  /\ stream' = stream \cup {[id |-> lastId', asset |-> producer[p]]}
  /\ producer' = [producer EXCEPT ![p] = Null]
  /\ UNCHANGED <<unique, job, tasks, handed, done, faults>>

(* Keys expire.                                                            *)
Tick ==
  /\ \E a \in Asset : unique[a] > 0
  /\ unique' = [a \in Asset |-> IF unique[a] > 0 THEN unique[a] - 1 ELSE 0]
  /\ UNCHANGED <<stream, lastId, producer, job, tasks, handed, done, faults>>

-----------------------------------------------------------------------------
(* indexMetadata.                                                          *)

(* A regression: XREVRANGE, which starts from the newest.                  *)
Newest(n) ==
  IF n = 0 THEN stream
  ELSE {m \in stream : Cardinality({x \in stream : x.id >= m.id}) <= n}

(* XREAD COUNT n from the start; a COUNT of 0 is no limit.                 *)
Oldest(n) ==
  IF n = 0 THEN stream
  ELSE {m \in stream : Cardinality({x \in stream : x.id <= m.id}) <= n}

(* Read a chunk and start its tasks, which run on their own.               *)
Fetch ==
  /\ job.at = "idle"
  /\ LET batch == Oldest(ChunkSize) IN
       /\ job' = [Idle EXCEPT !.at = "reread", !.batch = batch]
       /\ tasks' = tasks \cup Ids(batch)
       /\ handed' = handed \cup Ids(batch)
  /\ UNCHANGED <<unique, stream, lastId, producer, done, faults>>

(* markMessagesAsProcessed reads as many messages again.                   *)
Reread ==
  /\ job.at = "reread"
  /\ job' = [job EXCEPT !.at = "mark", !.again = Oldest(Cardinality(job.batch))]
  /\ UNCHANGED <<unique, stream, lastId, producer, tasks, handed, done, faults>>

(* The XDELs, one per message of the batch, and after them the DELs, one   *)
(* per message read again: those for ids up to removed and released.       *)
Commands(removed, released) ==
  /\ stream' = {m \in stream : ~ (m \in job.batch /\ m.id <= removed)}
  /\ unique' = [a \in Asset |->
                  IF \E m \in job.again : m.asset = a /\ m.id <= released
                  THEN 0 ELSE unique[a]]

(* A regression: the locks of processed messages left to expire.           *)
MarkWithoutRelease ==
  /\ job.at = "mark"
  /\ Commands(lastId, 0)
  /\ job' = Idle
  /\ UNCHANGED <<lastId, producer, tasks, handed, done, faults>>

(* A regression: the messages read again removed, not those processed.     *)
MarkReread ==
  /\ job.at = "mark"
  /\ stream' = stream \ job.again
  /\ unique' = [a \in Asset |-> IF a \in Assets(job.again) THEN 0 ELSE unique[a]]
  /\ job' = Idle
  /\ UNCHANGED <<lastId, producer, tasks, handed, done, faults>>

Mark ==
  /\ job.at = "mark"
  /\ Commands(lastId, lastId)
  /\ job' = Idle
  /\ UNCHANGED <<lastId, producer, tasks, handed, done, faults>>

(* The metadata of message i is stored.                                    *)
TaskEnds(i) ==
  /\ i \in tasks
  /\ tasks' = tasks \ {i}
  /\ done' = done \cup {i}
  /\ UNCHANGED <<unique, stream, lastId, producer, job, handed, faults>>

-----------------------------------------------------------------------------
(* Failures.                                                               *)

Fault ==
  /\ faults < MaxFaults
  /\ faults' = faults + 1

(* Whatever ends the run while its commands are on their way leaves a      *)
(* prefix of them executed.                                                *)
SomeCommands ==
  \E removed, released \in 0..lastId :
    /\ removed > 0 => job.at = "mark"
    /\ released > 0 => removed = lastId
    /\ Commands(removed, released)

(* A Redis call of the run fails: its @ExceptionHandler(false) ends it.    *)
RunFails ==
  /\ job.at # "idle"
  /\ Fault
  /\ SomeCommands
  /\ job' = Idle
  /\ UNCHANGED <<lastId, producer, tasks, handed, done>>

(* XADD throws; the key stays.                                             *)
AddFails(p) ==
  /\ producer[p] # Null
  /\ Fault
  /\ producer' = [producer EXCEPT ![p] = Null]
  /\ UNCHANGED <<unique, stream, lastId, job, tasks, handed, done>>

(* A metadata task fails, and is logged by its @ExceptionHandler(false).   *)
TaskFails(i) ==
  /\ i \in tasks
  /\ Fault
  /\ tasks' = tasks \ {i}
  /\ UNCHANGED <<unique, stream, lastId, producer, job, handed, done>>

(* The process ends; Redis and the database remain.                        *)
Crash ==
  /\ Fault
  /\ SomeCommands
  /\ job' = Idle
  /\ tasks' = {}
  /\ producer' = [p \in Producer |-> Null]
  /\ UNCHANGED <<lastId, handed, done>>

Next ==
  \/ \E p \in Producer : (\E a \in Asset : Lock(p, a)) \/ Add(p) \/ AddFails(p)
  \/ \E a \in Asset : SkipDuplicate(a)
  \/ Tick
  \/ Fetch \/ Reread \/ Mark \/ RunFails
  \/ \E i \in tasks : TaskEnds(i) \/ TaskFails(i)
  \/ Crash

Spec == Init /\ [][Next]_vars

(* Awaited commands and tasks settle, cron ticks find the limiter free     *)
(* again and again (PreventOverlap), and time passes.  Nothing makes an    *)
(* asset be requested.                                                     *)
FairSpec ==
  /\ Spec
  /\ \A p \in Producer : WF_vars(Add(p))
  /\ WF_vars(Fetch \/ Reread \/ Mark)
  /\ \A i \in 1..MaxMessages : WF_vars(TaskEnds(i))
  /\ WF_vars(Tick)

-----------------------------------------------------------------------------
(* Properties.                                                             *)

TypeOK ==
  /\ unique \in [Asset -> 0..Day]
  /\ stream \subseteq Message
  /\ lastId \in Nat
  /\ producer \in [Producer -> Asset \cup {Null}]
  /\ job \in [at : {"idle", "reread", "mark"},
              batch : SUBSET Message, again : SUBSET Message]
  /\ tasks \subseteq Nat /\ handed \subseteq Nat /\ done \subseteq Nat
  /\ faults \in 0..MaxFaults

(* A message leaves the stream only after a task was started for it,       *)
(* whatever was added, failed or crashed between the two reads of a run.   *)
NothingDropped == 1..lastId \subseteq handed \cup Ids(stream)

(* Messages are handed out in the order they came: none is overtaken.      *)
HandedInOrder == \A i \in handed : 1..i \subseteq handed

(* The numbers of the messages behave as AtLeastOnce says: the run starts  *)
(* the oldest ones and removes what it has started, however many were      *)
(* added in between and whichever of its commands got through.             *)
Numbers == INSTANCE AtLeastOnce WITH last <- lastId, kept <- Ids(stream), started <- handed
DeliversInOrder == Numbers!Spec

(* As long as nothing failed, the key that keeps an asset out of the       *)
(* stream has a message in it, or about to be: the run that processes the  *)
(* message will release the asset.                                         *)
LockIsBacked ==
  faults = 0 =>
    \A a \in Asset : unique[a] > 0 =>
      a \in Assets(stream) \cup {producer[p] : p \in Producer}

(* Without faults every message that enters the stream gets its metadata   *)
(* stored, although the run does not wait for its tasks.                   *)
MessagesProcessed ==
  [](faults = 0) => \A i \in 1..MaxMessages : (i <= lastId) ~> (i \in done)

(* The comment at redis.service.ts:73: "24 hours of uniqueness max".  A    *)
(* locked asset does not stay locked.  TLC refutes it: EXPIRE runs for     *)
(* duplicates too, and a key without a message is renewed by them.         *)
LockEnds == \A a \in Asset : (unique[a] > 0) ~> (unique[a] = 0)

(* Without faults it holds: the message is processed.                      *)
LockEndsWithoutFault == [](faults = 0) => LockEnds
=============================================================================
