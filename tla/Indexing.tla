------------------------------ MODULE Indexing ------------------------------
(***************************************************************************)
(* The two checkpointed jobs of apps/indexer/src/scheduling/scheduling     *)
(* .service.ts, indexByBlock and indexByEvents, in the process that runs   *)
(* them: the shared limiter of @PreventOverlap, the Redis checkpoints, the *)
(* work each run leaves in the background, failed calls, and crashes.      *)
(*                                                                         *)
(* Each action is the code between two awaits of a run.  A run starts the  *)
(* work of its whole chunk and does not wait for it: promiseAllPLimit and  *)
(* promiseAllSettledPLimit hand functions, not promises, to Promise.all,   *)
(* which resolves at once (utils/promise-p-limit.ts:6,22).  The work goes  *)
(* on as tasks, outside the limiter; a rejection of indexBlock is observed *)
(* by nobody, so Node ends the process.                                    *)
(*                                                                         *)
(* The timers of @PreventOverlap change nothing the limiter or a run can   *)
(* see (PreventOverlap!Timeout), so they do not appear.  The p-limit keys  *)
(* only reach the two functions above, where they have no effect.          *)
(***************************************************************************)
EXTENDS Integers, Sequences, FiniteSetsExt

CONSTANTS
  Null,            \* a Redis key that is not set
  DefaultStatus,   \* DEFAULT_INDEXER_STATUS
  DefaultChunk,    \* DEFAULT_BLOCKS_CHUNK_SIZE, DEFAULT_EVENTS_CHUNK_SIZE
  Busy,            \* Busy[j]: blocks that hold transactions, or logs
  MaxBlock,        \* bound: the chain stops growing there
  MaxPending,      \* bound: pending calls of one job
  MaxFaults        \* bound: failed calls, stale answers and crashes

Job == {"indexByBlock", "indexByEvents"}
Block == 1..MaxBlock
Call == Job \X (1..MaxPending)
JobOf(c) == c[1]

ASSUME ConstantsAssumption ==
  /\ Null \notin Nat
  /\ DefaultStatus \in Nat
  /\ DefaultChunk \in Nat \ {0}
  /\ Busy \in [Job -> SUBSET Block]
  /\ MaxBlock \in Nat
  /\ MaxPending \in Nat
  /\ MaxFaults \in Nat

VARIABLES
  head,            \* the chain: its newest block
  latest, status, chunk,   \* Redis: checkpoints, indexer status, chunk sizes
  queue, active,   \* the limiter of @PreventOverlap
  run,             \* the local variables of each run
  fetching,        \* indexBlock(b) calls waiting for the block's transactions
  working,         \* tasks indexing the transactions, or events, of a block
  seen, done,      \* history: blocks whose indexing started, and succeeded
  faults           \* history: faults so far

redis == <<latest, status, chunk>>
slot == <<queue, active>>
tasks == <<fetching, working>>
vars == <<head, redis, slot, run, tasks, seen, done, faults>>

Limit == INSTANCE PLimit

-----------------------------------------------------------------------------
(* Runs.                                                                   *)

(* A run that has not taken a step: it starts by reading the status.       *)
FreshRun == [at |-> "status", from |-> 0, last |-> 0, to |-> 0]

RunStep ==
  {"status", "setStatus", "head", "from", "chunk", "setChunk", "logs", "save"}
Run == [at : RunStep, from : Nat, last : Nat, to : Nat]

At(c, step) == c \in active /\ run[c].at = step

GoTo(c, step) == run' = [run EXCEPT ![c].at = step]

(* The method returns, or throws into @ExceptionHandler(false), and the    *)
(* limiter starts the next call.                                           *)
Return(c) ==
  /\ Limit!Settle(c)
  /\ run' = [run EXCEPT ![c] = FreshRun]

(* `value || DEFAULT` in the getters: a stored 0 counts as missing.        *)
OrDefault(value, default) == IF value \in {Null, 0} THEN default ELSE value

NoTasks == [b \in Block |-> 0]

Init ==
  /\ head = 0
  /\ latest = [j \in Job |-> 0]
  /\ status = Null
  /\ chunk = [j \in Job |-> Null]
  /\ Limit!Init
  /\ run = [c \in Call |-> FreshRun]
  /\ fetching = NoTasks
  /\ working = [j \in Job |-> NoTasks]
  /\ seen = [j \in Job |-> {}]
  /\ done = [j \in Job |-> {}]
  /\ faults = 0

Fault ==
  /\ faults < MaxFaults
  /\ faults' = faults + 1

ChainGrows ==
  /\ head < MaxBlock
  /\ head' = head + 1
  /\ UNCHANGED <<redis, slot, run, tasks, seen, done, faults>>

(* A cron tick calls the decorated method.                                 *)
Tick(c) ==
  /\ Limit!Enqueue(c)
  /\ UNCHANGED <<head, redis, run, tasks, seen, done, faults>>

(* A regression: without @PreventOverlap a call starts whatever runs.      *)
BeginUnlimited(c) ==
  /\ queue # <<>>
  /\ c = Head(queue)
  /\ queue' = Tail(queue)
  /\ active' = active \cup {c}
  /\ UNCHANGED <<head, redis, run, tasks, seen, done, faults>>

(* The limiter starts the oldest waiting call.                             *)
Begin(c) ==
  /\ Limit!Start(c)
  /\ UNCHANGED <<head, redis, run, tasks, seen, done, faults>>

-----------------------------------------------------------------------------
(* The steps of a run.                                                     *)

AfterStatus == [j \in Job |-> IF j = "indexByBlock" THEN "head" ELSE "from"]
AfterHead == [j \in Job |-> IF j = "indexByBlock" THEN "from" ELSE "chunk"]
AfterFrom == [j \in Job |-> IF j = "indexByBlock" THEN "chunk" ELSE "head"]

IsOff(value) == OrDefault(value, DefaultStatus) = 0

(* if ((await this.getIndexerStatus()) === 0) return;                      *)
Enter(c, value) ==
  \/ /\ IsOff(value)
     /\ Return(c)
  \/ /\ ~IsOff(value)
     /\ GoTo(c, AfterStatus[JobOf(c)])
     /\ UNCHANGED slot

(* getNumber(INDEXER_STATUS).                                              *)
ReadStatus(c) ==
  /\ At(c, "status")
  /\ \/ /\ status = Null
        /\ GoTo(c, "setStatus")
        /\ UNCHANGED slot
     \/ /\ status # Null
        /\ Enter(c, status)
  /\ UNCHANGED <<head, redis, tasks, seen, done, faults>>

(* The key was missing: the default is written back, over whatever was     *)
(* stored meanwhile.                                                       *)
SetStatus(c) ==
  /\ At(c, "setStatus")
  /\ status' = DefaultStatus
  /\ Enter(c, Null)
  /\ UNCHANGED <<head, latest, chunk, tasks, seen, done, faults>>

(* getLastBlock(): the head, or an older one when the RPC node lags.       *)
ReadHead(c) ==
  /\ At(c, "head")
  /\ \E n \in 0..head :
       /\ run' = [run EXCEPT ![c].at = AfterHead[JobOf(c)], ![c].last = n]
       /\ \/ n = head /\ UNCHANGED faults
          \/ n < head /\ Fault
  /\ UNCHANGED <<head, redis, slot, tasks, seen, done>>

(* A regression: starting from the block after the next one.               *)
FromBlockSkipping(j) == latest[j] + 2

(* fromBlock: the block after the job's checkpoint.                        *)
FromBlock(j) == latest[j] + 1

ReadFrom(c) ==
  /\ At(c, "from")
  /\ run' = [run EXCEPT ![c].at = AfterFrom[JobOf(c)],
                        ![c].from = FromBlock(JobOf(c))]
  /\ UNCHANGED <<head, redis, slot, tasks, seen, done, faults>>

(* The chunk size is missing: the default is about to be written back.     *)
ChunkMissing(c) ==
  /\ At(c, "chunk")
  /\ chunk[JobOf(c)] = Null
  /\ GoTo(c, "setChunk")
  /\ UNCHANGED <<head, redis, slot, tasks, seen, done, faults>>

(* getBlockChunkSize or getEventChunkSize returns: the value it read, or   *)
(* the default, which is written now.                                      *)
HasSize(c) == At(c, "setChunk") \/ (At(c, "chunk") /\ chunk[JobOf(c)] # Null)
SizeRead(c) ==
  IF run[c].at = "setChunk" THEN DefaultChunk ELSE OrDefault(chunk[JobOf(c)], DefaultChunk)
StoreSize(c) ==
  chunk' = IF run[c].at = "setChunk" THEN [chunk EXCEPT ![JobOf(c)] = DefaultChunk] ELSE chunk

(* Regressions: a chunk not cut at the head, and one that stops early.     *)
ToBlockUncut(c) == run[c].from + SizeRead(c) - 1
ToBlockShort(c) == Min({run[c].from + SizeRead(c) - 1, run[c].last - 1})

(* toBlock = Math.min(fromBlock + chunk - 1, lastBlock).                   *)
ToBlock(c) == Min({run[c].from + SizeRead(c) - 1, run[c].last})

(* A regression: toBlock taken for an exclusive bound.                     *)
ChunkButLast(from, to) == from..(to - 1)

(* The blocks of a chunk, in Array.from(...) and in getPastLogs(...).      *)
ChunkOf(from, to) == from..to

(* if (fromBlock >= toBlock) return;                                       *)
NothingToDo(c) ==
  /\ HasSize(c)
  /\ run[c].from >= ToBlock(c)
  /\ StoreSize(c)
  /\ Return(c)
  /\ UNCHANGED <<head, latest, status, tasks, seen, done, faults>>

(* indexByBlock calls indexBlock for the whole chunk, and moves on.        *)
LaunchBlocks(c) ==
  /\ HasSize(c)
  /\ JobOf(c) = "indexByBlock"
  /\ run[c].from < ToBlock(c)
  /\ StoreSize(c)
  /\ run' = [run EXCEPT ![c].at = "save", ![c].to = ToBlock(c)]
  /\ LET blocks == ChunkOf(run[c].from, ToBlock(c)) IN
       /\ fetching' = [b \in Block |->
                         IF b \in blocks THEN fetching[b] + 1 ELSE fetching[b]]
       /\ seen' = [seen EXCEPT !["indexByBlock"] = @ \cup blocks]
  /\ UNCHANGED <<head, latest, status, slot, working, done, faults>>

(* indexByEvents asks for the logs of the whole chunk.                     *)
PlanEvents(c) ==
  /\ HasSize(c)
  /\ JobOf(c) = "indexByEvents"
  /\ run[c].from < ToBlock(c)
  /\ StoreSize(c)
  /\ run' = [run EXCEPT ![c].at = "logs", ![c].to = ToBlock(c)]
  /\ UNCHANGED <<head, latest, status, slot, tasks, seen, done, faults>>

(* getPastLogs(fromBlock, toBlock) answers: indexEvent starts for each     *)
(* log.  A lagging node knows the logs up to n only, and the rest of the   *)
(* range is taken for blocks without logs.                                 *)
GetLogs(c) ==
  /\ At(c, "logs")
  /\ GoTo(c, "save")
  /\ seen' = [seen EXCEPT !["indexByEvents"] = @ \cup ChunkOf(run[c].from, run[c].to)]
  /\ \E n \in run[c].from - 1 .. run[c].to :
       LET known == ChunkOf(run[c].from, n) IN
       /\ working' = [working EXCEPT !["indexByEvents"] =
                        [b \in Block |-> IF b \in known \cap Busy["indexByEvents"]
                                         THEN @[b] + 1 ELSE @[b]]]
       /\ done' = [done EXCEPT !["indexByEvents"] = @ \cup (known \ Busy["indexByEvents"])]
       /\ \/ n = run[c].to /\ UNCHANGED faults
          \/ n < run[c].to /\ Fault
  /\ UNCHANGED <<head, redis, slot, fetching>>

(* setNumber(LATEST_..._INDEXED_BLOCK, toBlock), the last step.            *)
Save(c) ==
  /\ At(c, "save")
  /\ latest' = [latest EXCEPT ![JobOf(c)] = run[c].to]
  /\ Return(c)
  /\ UNCHANGED <<head, status, chunk, tasks, seen, done, faults>>

(* Any await of a run can throw; @ExceptionHandler(false) logs it.         *)
RunFails(c) ==
  /\ c \in active
  /\ Fault
  /\ Return(c)
  /\ UNCHANGED <<head, redis, tasks, seen, done>>

-----------------------------------------------------------------------------
(* The background tasks.                                                   *)

(* getBlockTransactions(b) answers: indexTransaction starts for each one.  *)
BlockFetched(b) ==
  /\ fetching[b] > 0
  /\ fetching' = [fetching EXCEPT ![b] = @ - 1]
  /\ \/ /\ b \in Busy["indexByBlock"]
        /\ working' = [working EXCEPT !["indexByBlock"][b] = @ + 1]
        /\ UNCHANGED done
     \/ /\ b \notin Busy["indexByBlock"]
        /\ done' = [done EXCEPT !["indexByBlock"] = @ \cup {b}]
        /\ UNCHANGED working
  /\ UNCHANGED <<head, redis, slot, run, seen, faults>>

(* The RPC node does not know block b yet: `block ? ... : []` takes it for *)
(* a block without transactions.                                           *)
BlockMissing(b) ==
  /\ fetching[b] > 0
  /\ Fault
  /\ fetching' = [fetching EXCEPT ![b] = @ - 1]
  /\ UNCHANGED <<head, redis, slot, run, working, seen, done>>

(* The transactions, or events, of block b are all in the database.        *)
TaskDone(j, b) ==
  /\ working[j][b] > 0
  /\ working' = [working EXCEPT ![j][b] = @ - 1]
  /\ done' = [done EXCEPT ![j] = @ \cup {b}]
  /\ UNCHANGED <<head, redis, slot, run, fetching, seen, faults>>

(* indexTransaction or indexEvent throws into @ExceptionHandler(false):    *)
(* what it was indexing is given up.                                       *)
TaskFails(j, b) ==
  /\ working[j][b] > 0
  /\ Fault
  /\ working' = [working EXCEPT ![j][b] = @ - 1]
  /\ UNCHANGED <<head, redis, slot, run, fetching, seen, done>>

-----------------------------------------------------------------------------
(* The process ends and is started again: Redis and the database remain.   *)
Restart ==
  /\ queue' = <<>>
  /\ active' = {}
  /\ run' = [c \in Call |-> FreshRun]
  /\ fetching' = NoTasks
  /\ working' = [j \in Job |-> NoTasks]
  /\ UNCHANGED <<head, redis, seen, done>>

Crash == Fault /\ Restart

(* getBlockTransactions(b) throws: the rejection of indexBlock(b) has no   *)
(* handler, and Node ends the process.                                     *)
UnhandledRejection(b) ==
  /\ fetching[b] > 0
  /\ Fault
  /\ Restart

RunSteps(c) ==
  \/ ReadStatus(c) \/ SetStatus(c) \/ ReadHead(c) \/ ReadFrom(c)
  \/ ChunkMissing(c) \/ NothingToDo(c) \/ LaunchBlocks(c) \/ PlanEvents(c)
  \/ GetLogs(c) \/ Save(c)

Next ==
  \/ ChainGrows
  \/ \E c \in Call : Tick(c) \/ Begin(c) \/ RunSteps(c) \/ RunFails(c)
  \/ \E b \in Block : BlockFetched(b) \/ BlockMissing(b) \/ UnhandledRejection(b)
  \/ \E j \in Job, b \in Block : TaskDone(j, b) \/ TaskFails(j, b)
  \/ Crash

Spec == Init /\ [][Next]_vars

(* Cron timers keep firing, microtasks run, and every promise a run or a   *)
(* task awaits settles.  Faults are not fair: they need not happen.        *)
Fairness ==
  /\ \A c \in Call : WF_vars(Tick(c)) /\ WF_vars(Begin(c)) /\ WF_vars(RunSteps(c))
  /\ \A b \in Block : WF_vars(BlockFetched(b))
  /\ \A j \in Job, b \in Block : WF_vars(TaskDone(j, b))

FairSpec == Spec /\ Fairness

-----------------------------------------------------------------------------
(* Properties.                                                             *)

TypeOK ==
  /\ head \in 0..MaxBlock
  /\ latest \in [Job -> Nat]
  /\ status \in Nat \cup {Null}
  /\ chunk \in [Job -> Nat \cup {Null}]
  /\ Limit!TypeOK
  /\ run \in [Call -> Run]
  /\ fetching \in [Block -> Nat]
  /\ working \in [Job -> [Block -> Nat]]
  /\ seen \in [Job -> SUBSET Block]
  /\ done \in [Job -> SUBSET Block]
  /\ faults \in 0..MaxFaults

(* The steps of a run after it has read its job's checkpoint.              *)
PastFrom(j) ==
  {"chunk", "setChunk", "logs", "save"} \cup (IF j = "indexByEvents" THEN {"head"} ELSE {})

(* A run reads its checkpoint, awaits several answers, and writes the      *)
(* checkpoint it computed: what it read must still be what is stored,      *)
(* across ticks, other runs, failures and restarts.                        *)
CheckpointFresh ==
  \A c \in active :
    run[c].at \in PastFrom(JobOf(c)) => run[c].from = latest[JobOf(c)] + 1

(* No block at or below a checkpoint was jumped over: its indexing was     *)
(* started, in this process or in one before a restart.                    *)
NoBlockSkipped == \A j \in Job : 1..latest[j] \subseteq seen[j]

(* Blocks the chain does not have yet are never indexed: their answers     *)
(* would be empty and their contents lost.                                 *)
OnlyExistingBlocks == \A j \in Job : seen[j] \subseteq 1..head

(* Tasks of job j for block b that have not ended.                         *)
InFlight(j, b) ==
  \/ j = "indexByBlock" /\ fetching[b] > 0
  \/ working[j][b] > 0

(* As long as nothing failed, a block at or below a checkpoint is in the   *)
(* database or on its way, although no run waits for its tasks.            *)
NoLossWithoutFault ==
  faults = 0 =>
    \A j \in Job : \A b \in 1..latest[j] : b \in done[j] \/ InFlight(j, b)

(* A checkpoint never moves back, whatever is interrupted and retried.     *)
CheckpointMonotonic == [][\A j \in Job : latest'[j] >= latest[j]]_latest

(* Both jobs implement the abstract scan.                                  *)
BlockScan == INSTANCE BlockCursor WITH
  seen <- seen["indexByBlock"], cursor <- latest["indexByBlock"]
EventScan == INSTANCE BlockCursor WITH
  seen <- seen["indexByEvents"], cursor <- latest["indexByEvents"]

ScansImplementCursor == BlockScan!Spec /\ EventScan!Spec

(* Once faults stop, both checkpoints reach the last block but one: the    *)
(* guard `fromBlock >= toBlock` leaves the newest block for a later run.   *)
CatchesUp == <>[](\A j \in Job : latest[j] >= head - 1)

(* Without faults every block but the newest ends up in the database.      *)
FaultFreeScanCompletes ==
  [](faults = 0) => <>[](\A j \in Job : 1..(head - 1) \subseteq done[j])

(* The comments at lines 87 and 90: "Wait for all promises in the current  *)
(* chunk to resolve", then "Update the latest indexed block for the        *)
(* current chunk".  A block at or below the checkpoint has no task left.   *)
ChunkResolvedBeforeCheckpoint ==
  \A b \in 1..latest["indexByBlock"] : ~InFlight("indexByBlock", b)
=============================================================================
