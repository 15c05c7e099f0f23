-------------------------- MODULE Indexing_proofs --------------------------
(***************************************************************************)
(* For every chain length, chunk size, number of pending calls and number  *)
(* of faults: the checkpoint a run is about to write is the one it read,   *)
(* no block is jumped over or indexed before it exists, none is lost       *)
(* without a fault, checkpoints only move forward, and both jobs implement *)
(* the abstract scan BlockCursor.  Beside the operator, only what is       *)
(* posted makes a checkpoint jump over a block.                            *)
(***************************************************************************)
EXTENDS IndexerTools, SequenceTheorems, TLAPS

-----------------------------------------------------------------------------
(* The inductive invariant.                                                *)

(* The limiter: one run at a time, and a call that is not running has not  *)
(* taken a step.                                                           *)
Alone == \A c, d \in active : c = d
IdleFresh == \A c \in Call \ active : run[c] = FreshRun

(* What a run knows of the chain is true of it.                            *)
KnownHead == \A c \in Call : run[c].last <= head

(* A planned chunk is not empty and ends at an existing block.             *)
Planned ==
  \A c \in active : run[c].at \in {"logs", "save"} =>
    run[c].from < run[c].to /\ run[c].to <= head

(* Only the event job asks for logs.                                       *)
LogsOfEvents == \A c \in active : run[c].at = "logs" => JobOf(c) = "indexByEvents"

(* A run about to save has handed out the whole chunk.                     *)
Launched ==
  \A c \in active : run[c].at = "save" =>
    (run[c].from .. run[c].to) \subseteq seen[JobOf(c)]

(* A run past reading its checkpoint starts at a block.                    *)
Begun == \A c \in active : run[c].at \in PastFrom(JobOf(c)) => run[c].from >= 1

(* What holds whatever the checkpoints are.                                *)
Base ==
  /\ TypeOK
  /\ Alone /\ IdleFresh
  /\ KnownHead /\ Planned /\ LogsOfEvents /\ Launched /\ Begun
  /\ OnlyExistingBlocks

(* CheckpointFresh is the heart of it: it makes the range a run covers     *)
(* meet the range covered before it.  It needs Alone and IdleFresh, since  *)
(* a second run of the same job would move the checkpoint under the first. *)
IInv == Base /\ CheckpointFresh /\ NoBlockSkipped

-----------------------------------------------------------------------------
(* Facts about the pieces a run is made of.                                *)

LEMMA JobOfCall == ASSUME NEW c \in Call PROVE JobOf(c) \in Job
  BY DEF Call, JobOf

LEMMA FreshRunType == FreshRun \in Run
  BY DEF FreshRun, Run, RunStep

(* Math.min of two numbers is one of them, and no greater than either.     *)
LEMMA MinOfTwo ==
  ASSUME NEW m \in Int, NEW n \in Int
  PROVE  Min({m, n}) \in {m, n} /\ Min({m, n}) <= m /\ Min({m, n}) <= n
<1>1. CASE m <= n
  <2>1. m \in {m, n} /\ \A y \in {m, n} : m <= y
    BY <1>1
  <2>2. Min({m, n}) \in {m, n} /\ \A y \in {m, n} : Min({m, n}) <= y
    BY <2>1 DEF Min
  <2>3. QED
    BY <2>2
<1>2. CASE n <= m
  <2>1. n \in {m, n} /\ \A y \in {m, n} : n <= y
    BY <1>2
  <2>2. Min({m, n}) \in {m, n} /\ \A y \in {m, n} : Min({m, n}) <= y
    BY <2>1 DEF Min
  <2>3. QED
    BY <2>2
<1>3. QED
  BY <1>1, <1>2

(* A chunk ends at or before the head its run knows.                       *)
LEMMA ChunkEnd ==
  ASSUME TypeOK, NEW c \in Call
  PROVE  ToBlock(c) \in Nat /\ ToBlock(c) <= run[c].last
<1> DEFINE size == SizeRead(c)
<1>1. size \in Nat /\ size >= 1
  BY JobOfCall, ConstantsAssumption DEF TypeOK, OrDefault, SizeRead
<1>2. run[c].from \in Nat /\ run[c].last \in Nat /\ run[c].last \in Int
  BY DEF TypeOK, Run
<1>3. ToBlock(c) = Min({run[c].from + size - 1, run[c].last})
  BY DEF ToBlock
<1>4. run[c].from + size - 1 \in Nat
  BY <1>1, <1>2
<1> DEFINE end == run[c].from + size - 1
<1>5. end \in Int /\ end \in Nat /\ ToBlock(c) = Min({end, run[c].last})
  BY <1>3, <1>4
<1> HIDE DEF end
<1>6. Min({end, run[c].last}) \in {end, run[c].last} /\ Min({end, run[c].last}) <= run[c].last
  BY <1>2, <1>5, MinOfTwo
<1>7. QED
  BY <1>2, <1>5, <1>6

-----------------------------------------------------------------------------
(* The limiter.                                                            *)

LEMMA HeadOfQueue ==
  ASSUME Limit!TypeOK, queue # <<>>
  PROVE  Head(queue) \in Call /\ Tail(queue) \in Seq(Call)
  BY HeadTailProperties DEF Limit!TypeOK

LEMMA EnqueueKeepsActive ==
  ASSUME Limit!TypeOK, NEW c \in Call, Limit!Enqueue(c)
  PROVE  Limit!TypeOK' /\ active' = active
  BY AppendProperties DEF Limit!TypeOK, Limit!Enqueue

(* The run that starts is a call, and the only active one.                 *)
LEMMA StartsAlone ==
  ASSUME Limit!TypeOK, NEW c, Limit!Start(c)
  PROVE  active = {} /\ Limit!TypeOK' /\ Alone'
  BY HeadOfQueue DEF Limit!Start, Limit!TypeOK, Alone

(* The run that settles was the active one; at most one takes its place.   *)
LEMMA SettlesAlone ==
  ASSUME Limit!TypeOK, Alone, NEW c, Limit!Settle(c)
  PROVE  active = {c} /\ Limit!TypeOK' /\ Alone'
<1>1. active = {c}
  BY DEF Limit!Settle, Limit!SettleLast, Limit!SettleAndStart, Alone
<1>2. CASE Limit!SettleLast(c)
  BY <1>1, <1>2 DEF Limit!SettleLast, Limit!TypeOK, Alone
<1>3. ASSUME NEW d, Limit!SettleAndStart(c, d) PROVE Limit!TypeOK' /\ Alone'
  BY <1>1, <1>3, HeadOfQueue DEF Limit!SettleAndStart, Limit!TypeOK, Alone
<1>4. QED
  BY <1>1, <1>2, <1>3 DEF Limit!Settle

-----------------------------------------------------------------------------
(* Three shapes of step.                                                   *)

(* No run is under way: all that is left is the fact about blocks.         *)
LEMMA NothingUnderWay ==
  ASSUME TypeOK', Alone', \A d \in Call : run'[d] = FreshRun, OnlyExistingBlocks'
  PROVE  Base'
<1>1. active' \subseteq Call /\ head' \in Nat
  BY ConstantsAssumption DEF TypeOK, Limit!TypeOK
<1>2. \A d \in Call : run'[d].at = "status" /\ run'[d].last = 0
  BY DEF FreshRun
<1>3. IdleFresh' /\ KnownHead' /\ Planned' /\ LogsOfEvents' /\ Launched'
  BY <1>1, <1>2 DEF IdleFresh, KnownHead, Planned, LogsOfEvents, Launched
<1>4. Begun'
  BY <1>1, <1>2 DEF Begun, PastFrom
<1>5. QED
  BY <1>3, <1>4 DEF Base

(* A run returns, and at most one other, which has done nothing, starts.   *)
LEMMA ReturnLeavesFresh ==
  ASSUME Base, NEW c \in Call, Return(c)
  PROVE  /\ c \in active
         /\ Limit!TypeOK'
         /\ run' \in [Call -> Run]
         /\ \A d \in Call : run'[d] = FreshRun
         /\ Alone'
<1>1. Limit!TypeOK /\ Limit!Settle(c)
  BY DEF Base, TypeOK, Return
<1>2. active = {c} /\ Limit!TypeOK' /\ Alone'
  BY <1>1, SettlesAlone DEF Base
<1>3. \A d \in Call : run'[d] = FreshRun
  BY <1>2 DEF Base, IdleFresh, Return, TypeOK
<1>4. run' \in [Call -> Run]
  BY FreshRunType DEF Base, TypeOK, Return
<1>5. QED
  BY <1>2, <1>3, <1>4

(* The run that is under way takes a step, leaving the limiter alone.      *)
LEMMA RunSteppedOn ==
  ASSUME Base, NEW c \in active, UNCHANGED <<slot, head>>, TypeOK',
         \A d \in Call \ {c} : run'[d] = run[d],
         \A j \in Job : seen[j] \subseteq seen'[j],
         OnlyExistingBlocks',
         run'[c].last <= head,
         run'[c].at \in {"logs", "save"} => run'[c].from < run'[c].to /\ run'[c].to <= head,
         run'[c].at = "logs" => JobOf(c) = "indexByEvents",
         run'[c].at = "save" => (run'[c].from .. run'[c].to) \subseteq seen'[JobOf(c)],
         run'[c].at \in PastFrom(JobOf(c)) => run'[c].from >= 1
  PROVE  Base'
<1>1. active' = {c} /\ active = {c} /\ c \in Call
  BY DEF Base, Alone, slot, TypeOK, Limit!TypeOK
<1>2. Alone' /\ IdleFresh'
  BY <1>1 DEF Alone, IdleFresh, Base
<1>3. KnownHead'
  BY <1>1 DEF KnownHead, Base
<1>4. Planned' /\ LogsOfEvents' /\ Launched'
  BY <1>1 DEF Planned, LogsOfEvents, Launched
<1>5. Begun'
  BY <1>1 DEF Begun
<1>6. QED
  BY <1>2, <1>3, <1>4, <1>5 DEF Base

(* Background work, which touches neither runs nor checkpoints.            *)
LEMMA RunsUntouched ==
  ASSUME Base, UNCHANGED <<slot, run, head, seen>>, TypeOK'
  PROVE  Base'
<1>1. Alone' /\ IdleFresh' /\ KnownHead' /\ Planned' /\ LogsOfEvents' /\ Launched'
  BY DEF Base, slot, Alone, IdleFresh, KnownHead, Planned, LogsOfEvents, Launched
<1>2. Begun' /\ OnlyExistingBlocks'
  BY DEF Base, slot, Begun, OnlyExistingBlocks
<1>3. QED
  BY <1>1, <1>2 DEF Base

-----------------------------------------------------------------------------
(* One lemma per action.                                                   *)

LEMMA InitBase == Init => Base
<1> SUFFICES ASSUME Init PROVE Base
  OBVIOUS
<1>1. TypeOK
  BY ConstantsAssumption, FreshRunType
     DEF Init, Limit!Init, TypeOK, Limit!TypeOK, NoTasks
<1>2. \A d \in Call : run[d] = FreshRun /\ run[d].last = 0
  BY DEF Init, FreshRun
<1>3. active = {} /\ head = 0
  BY DEF Init, Limit!Init
<1>4. Alone /\ IdleFresh /\ KnownHead /\ Planned /\ LogsOfEvents /\ Launched /\ Begun
  BY <1>2, <1>3 DEF Alone, IdleFresh, KnownHead, Planned, LogsOfEvents, Launched, Begun
<1>5. OnlyExistingBlocks
  BY DEF Init, OnlyExistingBlocks
<1>6. QED
  BY <1>1, <1>4, <1>5 DEF Base

LEMMA ChainGrowsBase == ASSUME Base, ChainGrows PROVE Base'
<1>1. head' \in 0..MaxBlock /\ head <= head' /\ head \in Nat
  BY ConstantsAssumption DEF Base, TypeOK, ChainGrows
<1>2. TypeOK'
  BY <1>1 DEF Base, TypeOK, ChainGrows, Limit!TypeOK, redis, slot, tasks
<1>3. KnownHead'
  <2>1. \A c \in Call : run[c].last \in Nat
    BY DEF Base, TypeOK, Run
  <2>2. QED
    BY <1>1, <2>1 DEF Base, KnownHead, ChainGrows
<1>4. Planned'
  <2>1. \A c \in active : run[c].to \in Nat
    BY DEF Base, TypeOK, Run, Limit!TypeOK
  <2>2. QED
    BY <1>1, <2>1 DEF Base, Planned, ChainGrows, slot
<1>5. OnlyExistingBlocks'
  BY <1>1 DEF Base, OnlyExistingBlocks, ChainGrows
<1>6. QED
  BY <1>2, <1>3, <1>4, <1>5 DEF Base, ChainGrows, Alone, IdleFresh, LogsOfEvents,
     Launched, Begun, redis, slot

LEMMA TickBase == ASSUME Base, NEW c \in Call, Tick(c) PROVE Base'
<1>2. Limit!TypeOK' /\ active' = active
  BY EnqueueKeepsActive DEF Base, TypeOK, Tick
<1>3. TypeOK'
  BY <1>2 DEF Base, TypeOK, Tick, redis, tasks
<1>4. Alone' /\ IdleFresh' /\ KnownHead' /\ Planned' /\ LogsOfEvents' /\ Launched'
  BY <1>2 DEF Base, Tick, Alone, IdleFresh, KnownHead, Planned, LogsOfEvents, Launched
<1>5. Begun' /\ OnlyExistingBlocks'
  BY <1>2 DEF Base, Tick, Begun, OnlyExistingBlocks
<1>6. QED
  BY <1>3, <1>4, <1>5 DEF Base

LEMMA BeginBase == ASSUME Base, NEW c \in Call, Begin(c) PROVE Base'
<1>2. active = {} /\ Limit!TypeOK' /\ Alone'
  BY StartsAlone DEF Base, TypeOK, Begin
<1>3. TypeOK'
  BY <1>2 DEF Base, TypeOK, Begin, redis, tasks
<1>4. \A d \in Call : run'[d] = FreshRun
  BY <1>2 DEF Base, IdleFresh, Begin
<1>5. OnlyExistingBlocks'
  BY DEF Base, Begin, OnlyExistingBlocks
<1>6. QED
  BY <1>2, <1>3, <1>4, <1>5, NothingUnderWay

(* A run that ends.                                                        *)
LEMMA ReturnBase ==
  ASSUME Base, NEW c \in Call, Return(c), UNCHANGED <<head, tasks, seen, done>>,
         latest' \in [Job -> Nat], status' \in Nat \cup {Null}, chunk' \in [Job -> Nat \cup {Null}],
         faults' \in 0..MaxFaults
  PROVE  Base'
<1>1. TypeOK'
  BY ReturnLeavesFresh DEF Base, TypeOK, tasks
<1>2. OnlyExistingBlocks'
  BY DEF Base, OnlyExistingBlocks
<1>3. QED
  BY <1>1, <1>2, ReturnLeavesFresh, NothingUnderWay

(* The chunk size a getter stores, and the count of faults.                *)
LEMMA StoredType ==
  ASSUME TypeOK, NEW c \in Call, StoreSize(c) PROVE chunk' \in [Job -> Nat \cup {Null}]
  BY ConstantsAssumption DEF TypeOK, StoreSize

LEMMA FaultType == ASSUME TypeOK, Fault PROVE faults' \in 0..MaxFaults
  BY ConstantsAssumption DEF TypeOK, Fault

(* A run moves on to its next await, and nothing else of it changes.       *)
LEMMA GoesOnBase ==
  ASSUME Base, NEW c \in active, NEW step \in RunStep \ {"logs", "save"}, GoTo(c, step),
         step \in PastFrom(JobOf(c)) => run[c].from >= 1,
         UNCHANGED <<head, latest, chunk, slot, tasks, seen, done, faults>>,
         status' \in Nat \cup {Null}
  PROVE  Base'
<1>1. c \in Call /\ run' = [run EXCEPT ![c].at = step]
  BY DEF Base, TypeOK, Limit!TypeOK, GoTo
<1>2. run' \in [Call -> Run]
  BY <1>1 DEF Base, TypeOK, Run
<1>3. TypeOK'
  BY <1>2 DEF Base, TypeOK, Limit!TypeOK, slot, tasks
<1>4. /\ \A d \in Call \ {c} : run'[d] = run[d]
      /\ run'[c].last = run[c].last /\ run'[c].from = run[c].from
      /\ run'[c].at = step
  BY <1>1 DEF Base, TypeOK, Run
<1>5. OnlyExistingBlocks' /\ run'[c].last <= head
  BY <1>1, <1>4 DEF Base, OnlyExistingBlocks, KnownHead
<1>6. QED
  BY <1>3, <1>4, <1>5, RunSteppedOn

(* The value of getIndexerStatus is looked at.                             *)
LEMMA EnterBase ==
  ASSUME Base, NEW c \in Call, c \in active, run[c].at \in {"status", "setStatus"},
         NEW value, Enter(c, value),
         UNCHANGED <<head, latest, chunk, tasks, seen, done, faults>>,
         status' \in Nat \cup {Null}
  PROVE  Base'
<1>1. CASE Return(c)
  BY <1>1, ReturnBase DEF Base, TypeOK
<1>2. CASE GoTo(c, AfterStatus[JobOf(c)]) /\ UNCHANGED slot
  <2>1. AfterStatus[JobOf(c)] \in RunStep \ (PastFrom(JobOf(c)) \cup {"logs", "save"})
    BY JobOfCall DEF AfterStatus, RunStep, PastFrom, Job
  <2>2. QED
    BY <1>2, <2>1, GoesOnBase
<1>3. QED
  BY <1>1, <1>2 DEF Enter

LEMMA ReadStatusBase == ASSUME Base, NEW c \in Call, ReadStatus(c) PROVE Base'
<1>1. c \in active /\ run[c].at = "status" /\ status' \in Nat \cup {Null}
      /\ UNCHANGED <<head, latest, chunk, tasks, seen, done, faults>>
  BY DEF Base, TypeOK, ReadStatus, At, redis
<1>2. CASE GoTo(c, "setStatus") /\ UNCHANGED slot
  <2>1. "setStatus" \in RunStep \ (PastFrom(JobOf(c)) \cup {"logs", "save"})
    BY DEF RunStep, PastFrom
  <2>2. QED
    BY <1>1, <1>2, <2>1, GoesOnBase
<1>3. CASE Enter(c, status)
  BY <1>1, <1>3, EnterBase
<1>4. QED
  BY <1>2, <1>3 DEF ReadStatus

LEMMA SetStatusBase == ASSUME Base, NEW c \in Call, SetStatus(c) PROVE Base'
  BY EnterBase, ConstantsAssumption DEF SetStatus, At

LEMMA ChunkMissingBase == ASSUME Base, NEW c \in Call, ChunkMissing(c) PROVE Base'
<1>1. c \in active /\ run[c].at \in PastFrom(JobOf(c)) /\ status' \in Nat \cup {Null}
      /\ UNCHANGED <<head, latest, chunk, slot, tasks, seen, done, faults>>
  BY DEF Base, TypeOK, ChunkMissing, At, PastFrom, redis
<1>2. "setChunk" \in RunStep \ {"logs", "save"} /\ GoTo(c, "setChunk") /\ run[c].from >= 1
  BY <1>1 DEF RunStep, ChunkMissing, Base, Begun
<1>3. QED
  BY <1>1, <1>2, GoesOnBase

LEMMA ReadHeadBase == ASSUME Base, NEW c \in Call, ReadHead(c) PROVE Base'
<1>1. c \in active /\ run[c].at = "head" /\ JobOf(c) \in Job
  BY JobOfCall DEF ReadHead, At
<1>2. PICK n \in 0..head :
        run' = [run EXCEPT ![c].at = AfterHead[JobOf(c)], ![c].last = n]
  BY DEF ReadHead
<1>3. AfterHead[JobOf(c)] \in RunStep \ {"logs", "save"} /\ n \in Nat /\ n <= head
  BY <1>1, ConstantsAssumption DEF AfterHead, RunStep, Job, Base, TypeOK
<1>4. run' \in [Call -> Run]
  BY <1>2, <1>3 DEF Base, TypeOK, Run
<1>5. faults' \in 0..MaxFaults
  BY FaultType DEF ReadHead, Base, TypeOK
<1>6. TypeOK'
  BY <1>4, <1>5 DEF Base, TypeOK, ReadHead, Limit!TypeOK, redis, slot, tasks
<1>7. /\ \A d \in Call \ {c} : run'[d] = run[d]
      /\ run'[c].at = AfterHead[JobOf(c)] /\ run'[c].last = n /\ run'[c].from = run[c].from
  BY <1>2 DEF Base, TypeOK, Run
<1>8. run'[c].at \in PastFrom(JobOf(c)) => run'[c].from >= 1
  <2>1. run'[c].at \in PastFrom(JobOf(c)) => run[c].at \in PastFrom(JobOf(c))
    BY <1>1, <1>7 DEF AfterHead, PastFrom, Job
  <2>2. QED
    BY <1>1, <1>7, <2>1 DEF Base, Begun
<1>9. OnlyExistingBlocks'
  BY DEF Base, OnlyExistingBlocks, ReadHead
<1>10. QED
  BY <1>1, <1>3, <1>6, <1>7, <1>8, <1>9, RunSteppedOn DEF ReadHead, redis

LEMMA ReadFromBase == ASSUME Base, NEW c \in Call, ReadFrom(c) PROVE Base'
<1>1. c \in active /\ JobOf(c) \in Job
  BY JobOfCall DEF ReadFrom, At
<1>2. AfterFrom[JobOf(c)] \in RunStep \ {"logs", "save"}
  BY <1>1 DEF AfterFrom, RunStep, Job
<1>3. FromBlock(JobOf(c)) \in Nat /\ FromBlock(JobOf(c)) >= 1
  BY <1>1 DEF Base, TypeOK, FromBlock
<1>4. run' \in [Call -> Run]
  BY <1>2, <1>3 DEF Base, TypeOK, Run, ReadFrom
<1>5. TypeOK'
  BY <1>4 DEF Base, TypeOK, ReadFrom, Limit!TypeOK, redis, slot, tasks
<1>6. /\ \A d \in Call \ {c} : run'[d] = run[d]
      /\ run'[c].at = AfterFrom[JobOf(c)] /\ run'[c].last = run[c].last
      /\ run'[c].from >= 1
  BY <1>3 DEF Base, TypeOK, Run, ReadFrom
<1>7. run'[c].last <= head
  BY <1>6 DEF Base, KnownHead
<1>8. OnlyExistingBlocks'
  BY DEF Base, OnlyExistingBlocks, ReadFrom
<1>9. QED
  BY <1>1, <1>2, <1>5, <1>6, <1>7, <1>8, RunSteppedOn DEF ReadFrom, redis

LEMMA NothingToDoBase == ASSUME Base, NEW c \in Call, NothingToDo(c) PROVE Base'
<1>1. chunk' \in [Job -> Nat \cup {Null}]
  BY StoredType DEF NothingToDo, Base
<1>2. QED
  BY <1>1, ReturnBase DEF NothingToDo, Base, TypeOK

(* What a run at its chunk is about to hand out.                           *)
LEMMA ChunkExists ==
  ASSUME Base, NEW c \in Call, HasSize(c), run[c].from < ToBlock(c)
  PROVE  /\ ToBlock(c) \in Nat
         /\ ToBlock(c) <= head
         /\ run[c].from >= 1
         /\ ChunkOf(run[c].from, ToBlock(c)) \subseteq 1..head
         /\ ChunkOf(run[c].from, ToBlock(c)) \subseteq Block
<1>1. ToBlock(c) \in Nat /\ ToBlock(c) <= run[c].last
  BY ChunkEnd DEF Base
<1>2. run[c].last \in Nat /\ run[c].last <= head /\ head \in 0..MaxBlock
  BY DEF Base, KnownHead, TypeOK, Run
<1>3. run[c].from \in Nat /\ run[c].from >= 1
  BY JobOfCall DEF Base, Begun, HasSize, At, PastFrom, TypeOK, Run
<1>4. ToBlock(c) <= head
  BY <1>1, <1>2, ConstantsAssumption
<1>5. QED
  BY <1>1, <1>2, <1>3, <1>4, ConstantsAssumption DEF ChunkOf, Block

LEMMA LaunchBlocksBase == ASSUME Base, NEW c \in Call, LaunchBlocks(c) PROVE Base'
<1> DEFINE blocks == ChunkOf(run[c].from, ToBlock(c))
<1>1. c \in active /\ JobOf(c) = "indexByBlock" /\ JobOf(c) \in Job
  BY JobOfCall DEF LaunchBlocks, HasSize, At
<1>2. /\ ToBlock(c) \in Nat /\ ToBlock(c) <= head
      /\ run[c].from >= 1
      /\ blocks \subseteq 1..head /\ blocks \subseteq Block
  BY ChunkExists DEF LaunchBlocks
<1>3. /\ \A d \in Call \ {c} : run'[d] = run[d]
      /\ run'[c].at = "save" /\ run'[c].from = run[c].from
      /\ run'[c].to = ToBlock(c) /\ run'[c].last = run[c].last
  BY DEF Base, TypeOK, Run, LaunchBlocks
<1>4. run' \in [Call -> Run]
  <2>1. run \in [Call -> Run]
    BY DEF Base, TypeOK
  <2>2. [run[c] EXCEPT !.at = "save", !.to = ToBlock(c)] \in Run
    BY <1>2, <2>1 DEF Run, RunStep
  <2>3. run' = [run EXCEPT ![c] = [run[c] EXCEPT !.at = "save", !.to = ToBlock(c)]]
    BY <2>1 DEF LaunchBlocks, Run
  <2>4. QED
    BY <2>1, <2>2, <2>3
<1>5. seen' = [seen EXCEPT !["indexByBlock"] = @ \cup blocks]
  BY DEF LaunchBlocks
<1>6. /\ seen' \in [Job -> SUBSET Block]
      /\ \A j \in Job : seen[j] \subseteq seen'[j]
      /\ blocks \subseteq seen'[JobOf(c)]
  BY <1>1, <1>2, <1>5 DEF Base, TypeOK, Job
<1>7. fetching' \in [Block -> Nat]
  BY DEF Base, TypeOK, LaunchBlocks
<1>8. chunk' \in [Job -> Nat \cup {Null}]
  BY StoredType DEF LaunchBlocks, Base
<1>9. TypeOK'
  BY <1>4, <1>6, <1>7, <1>8 DEF Base, TypeOK, LaunchBlocks, Limit!TypeOK, slot
<1>10. OnlyExistingBlocks'
  BY <1>2, <1>5 DEF Base, TypeOK, OnlyExistingBlocks, LaunchBlocks
<1>11. run'[c].last <= head /\ run'[c].from < run'[c].to
  BY <1>3 DEF Base, KnownHead, LaunchBlocks
<1>12. (run'[c].from .. run'[c].to) \subseteq seen'[JobOf(c)]
  BY <1>3, <1>6 DEF ChunkOf
<1>13. QED
  BY <1>1, <1>2, <1>3, <1>6, <1>9, <1>10, <1>11, <1>12, RunSteppedOn DEF LaunchBlocks

LEMMA PlanEventsBase == ASSUME Base, NEW c \in Call, PlanEvents(c) PROVE Base'
<1>1. c \in active /\ JobOf(c) = "indexByEvents" /\ JobOf(c) \in Job
  BY JobOfCall DEF PlanEvents, HasSize, At
<1>2. /\ ToBlock(c) \in Nat /\ ToBlock(c) <= head
      /\ run[c].from >= 1
  BY ChunkExists DEF PlanEvents
<1>3. /\ \A d \in Call \ {c} : run'[d] = run[d]
      /\ run'[c].at = "logs" /\ run'[c].from = run[c].from
      /\ run'[c].to = ToBlock(c) /\ run'[c].last = run[c].last
  BY DEF Base, TypeOK, Run, PlanEvents
<1>4. run' \in [Call -> Run]
  <2>1. run \in [Call -> Run]
    BY DEF Base, TypeOK
  <2>2. [run[c] EXCEPT !.at = "logs", !.to = ToBlock(c)] \in Run
    BY <1>2, <2>1 DEF Run, RunStep
  <2>3. run' = [run EXCEPT ![c] = [run[c] EXCEPT !.at = "logs", !.to = ToBlock(c)]]
    BY <2>1 DEF PlanEvents, Run
  <2>4. QED
    BY <2>1, <2>2, <2>3
<1>5. chunk' \in [Job -> Nat \cup {Null}]
  BY StoredType DEF PlanEvents, Base
<1>6. TypeOK'
  BY <1>4, <1>5 DEF Base, TypeOK, PlanEvents, Limit!TypeOK, slot, tasks
<1>7. OnlyExistingBlocks'
  BY DEF Base, OnlyExistingBlocks, PlanEvents
<1>8. run'[c].last <= head /\ run'[c].from < run'[c].to
  BY <1>3 DEF Base, KnownHead, PlanEvents
<1>9. QED
  BY <1>1, <1>2, <1>3, <1>6, <1>7, <1>8, RunSteppedOn DEF PlanEvents

(* What GetLogs does when the node answers with the logs up to n.          *)
LogsKnown(c, n) ==
  LET known == ChunkOf(run[c].from, n) IN
  /\ working' = [working EXCEPT !["indexByEvents"] =
                   [b \in Block |-> IF b \in known \cap Busy["indexByEvents"]
                                    THEN @[b] + 1 ELSE @[b]]]
  /\ done' = [done EXCEPT !["indexByEvents"] = @ \cup (known \ Busy["indexByEvents"])]
  /\ \/ n = run[c].to /\ UNCHANGED faults
     \/ n < run[c].to /\ Fault

LEMMA LogsUpTo ==
  ASSUME NEW c \in Call, GetLogs(c)
  PROVE  \E n \in run[c].from - 1 .. run[c].to : LogsKnown(c, n)
  BY DEF GetLogs, LogsKnown

LEMMA GetLogsBase == ASSUME Base, NEW c \in Call, GetLogs(c) PROVE Base'
<1> DEFINE blocks == ChunkOf(run[c].from, run[c].to)
<1>1. c \in active /\ run[c].at = "logs" /\ JobOf(c) = "indexByEvents" /\ JobOf(c) \in Job
  BY JobOfCall DEF GetLogs, At, Base, LogsOfEvents
<1>2. run[c].from < run[c].to /\ run[c].to <= head /\ run[c].from >= 1
  BY <1>1 DEF Base, Planned, Begun, PastFrom
<1>3. blocks \subseteq 1..head /\ blocks \subseteq Block
  <2>1. /\ run[c].to \in Nat /\ head \in 0..MaxBlock /\ run[c].from \in Nat
    BY <1>1 DEF Base, TypeOK, Run
  <2>2. QED
    BY <1>2, <2>1, ConstantsAssumption DEF ChunkOf, Block
<1>4. /\ \A d \in Call \ {c} : run'[d] = run[d]
      /\ run'[c].at = "save" /\ run'[c].from = run[c].from
      /\ run'[c].to = run[c].to /\ run'[c].last = run[c].last
  BY DEF Base, TypeOK, Run, GetLogs, GoTo
<1>5. run' \in [Call -> Run]
  BY DEF Base, TypeOK, Run, RunStep, GetLogs, GoTo
<1>6. seen' = [seen EXCEPT !["indexByEvents"] = @ \cup blocks]
  BY DEF GetLogs
<1>7. /\ seen' \in [Job -> SUBSET Block]
      /\ \A j \in Job : seen[j] \subseteq seen'[j]
      /\ blocks \subseteq seen'[JobOf(c)]
  BY <1>1, <1>3, <1>6 DEF Base, TypeOK, Job
<1>8. working' \in [Job -> [Block -> Nat]] /\ done' \in [Job -> SUBSET Block]
      /\ faults' \in 0..MaxFaults
  <2>1. PICK n \in run[c].from - 1 .. run[c].to : LogsKnown(c, n)
    BY LogsUpTo
  <2> DEFINE known == ChunkOf(run[c].from, n)
             more == [b \in Block |-> IF b \in known \cap Busy["indexByEvents"]
                                      THEN working["indexByEvents"][b] + 1
                                      ELSE working["indexByEvents"][b]]
  <2>2. working' = [working EXCEPT !["indexByEvents"] = more]
        /\ done' = [done EXCEPT !["indexByEvents"] = @ \cup (known \ Busy["indexByEvents"])]
    BY <2>1 DEF LogsKnown
  <2>3. known \subseteq Block
    <3>1. run[c].from \in Int /\ run[c].to \in Int
      BY DEF Base, TypeOK, Run
    <3>2. known \subseteq blocks
      BY <3>1 DEF ChunkOf
    <3>3. QED
      BY <1>3, <3>2
  <2>4. working["indexByEvents"] \in [Block -> Nat] /\ working \in [Job -> [Block -> Nat]]
    BY <1>1 DEF Base, TypeOK
  <2>5. more \in [Block -> Nat]
    BY <2>4
  <2> HIDE DEF more, known
  <2>6. working' \in [Job -> [Block -> Nat]]
    BY <2>2, <2>4, <2>5
  <2>7. done' \in [Job -> SUBSET Block]
    BY <2>2, <2>3 DEF Base, TypeOK
  <2>8. faults' \in 0..MaxFaults
    BY <2>1, FaultType DEF LogsKnown, Base, TypeOK
  <2>9. QED
    BY <2>6, <2>7, <2>8
<1>9. TypeOK'
  BY <1>5, <1>7, <1>8 DEF Base, TypeOK, GetLogs, Limit!TypeOK, slot, redis
<1>10. OnlyExistingBlocks'
  BY <1>3, <1>6 DEF Base, TypeOK, OnlyExistingBlocks, GetLogs
<1>11. run'[c].last <= head
  BY <1>4 DEF Base, KnownHead
<1>12. (run'[c].from .. run'[c].to) \subseteq seen'[JobOf(c)]
  BY <1>4, <1>7 DEF ChunkOf
<1>13. QED
  BY <1>1, <1>2, <1>4, <1>7, <1>9, <1>10, <1>11, <1>12, RunSteppedOn DEF GetLogs, redis

LEMMA SaveBase == ASSUME Base, NEW c \in Call, Save(c) PROVE Base'
<1>1. run[c].to \in Nat
  BY DEF Base, TypeOK, Run
<1>2. latest' \in [Job -> Nat]
  BY <1>1 DEF Base, TypeOK, Save
<1>3. QED
  BY <1>2, ReturnBase DEF Save, Base, TypeOK

LEMMA RunFailsBase == ASSUME Base, NEW c \in Call, RunFails(c) PROVE Base'
  BY ReturnBase, FaultType DEF RunFails, Base, TypeOK, redis, tasks

LEMMA BlockFetchedBase == ASSUME Base, NEW b \in Block, BlockFetched(b) PROVE Base'
<1>1. fetching' \in [Block -> Nat]
  BY DEF Base, TypeOK, BlockFetched
<1>2. working' \in [Job -> [Block -> Nat]]
  BY DEF Base, TypeOK, BlockFetched, Job
<1>3. done' \in [Job -> SUBSET Block]
  BY DEF Base, TypeOK, BlockFetched, Job
<1>4. TypeOK'
  BY <1>1, <1>2, <1>3 DEF Base, TypeOK, BlockFetched, Limit!TypeOK, slot, redis
<1>5. QED
  BY <1>4, RunsUntouched DEF BlockFetched, redis

LEMMA BlockMissingBase == ASSUME Base, NEW b \in Block, BlockMissing(b) PROVE Base'
<1>1. fetching' \in [Block -> Nat]
  BY DEF Base, TypeOK, BlockMissing
<1>2. TypeOK'
  BY <1>1, FaultType DEF Base, TypeOK, BlockMissing, Limit!TypeOK, slot, redis
<1>3. QED
  BY <1>2, RunsUntouched DEF BlockMissing, redis

LEMMA TaskDoneBase ==
  ASSUME Base, NEW j \in Job, NEW b \in Block, TaskDone(j, b) PROVE Base'
<1>1. working' \in [Job -> [Block -> Nat]]
  BY DEF Base, TypeOK, TaskDone
<1>2. done' \in [Job -> SUBSET Block]
  BY DEF Base, TypeOK, TaskDone
<1>3. TypeOK'
  BY <1>1, <1>2 DEF Base, TypeOK, TaskDone, Limit!TypeOK, slot, redis
<1>4. QED
  BY <1>3, RunsUntouched DEF TaskDone, redis

LEMMA TaskFailsBase ==
  ASSUME Base, NEW j \in Job, NEW b \in Block, TaskFails(j, b) PROVE Base'
<1>1. working' \in [Job -> [Block -> Nat]]
  BY DEF Base, TypeOK, TaskFails
<1>2. TypeOK'
  BY <1>1, FaultType DEF Base, TypeOK, TaskFails, Limit!TypeOK, slot, redis
<1>3. QED
  BY <1>2, RunsUntouched DEF TaskFails, redis

LEMMA RestartBase == ASSUME Base, Fault, Restart PROVE Base'
<1>1. run' \in [Call -> Run] /\ \A d \in Call : run'[d] = FreshRun
  BY FreshRunType DEF Restart
<1>2. TypeOK'
  BY <1>1, FaultType DEF Base, TypeOK, Restart, Limit!TypeOK, NoTasks, redis
<1>3. Alone' /\ OnlyExistingBlocks'
  BY DEF Base, Alone, OnlyExistingBlocks, Restart
<1>4. QED
  BY <1>1, <1>2, <1>3, NothingUnderWay

LEMMA StutterBase == ASSUME Base, UNCHANGED vars PROVE Base'
<1>1. TypeOK'
  BY DEF Base, TypeOK, vars, redis, slot, tasks, Limit!TypeOK
<1>2. QED
  BY <1>1, RunsUntouched DEF vars, redis

LEMMA NextBase == ASSUME Base, Next PROVE Base'
<1>1. ASSUME NEW c \in Call, RunSteps(c) PROVE Base'
  BY <1>1, SetStatusBase, ChunkMissingBase, ReadStatusBase, ReadHeadBase, ReadFromBase,
     NothingToDoBase, LaunchBlocksBase, PlanEventsBase, GetLogsBase, SaveBase DEF RunSteps
<1>2. ASSUME NEW c \in Call, Tick(c) \/ Begin(c) \/ RunFails(c) PROVE Base'
  BY <1>2, TickBase, BeginBase, RunFailsBase
<1>3. ASSUME NEW b \in Block, BlockFetched(b) \/ BlockMissing(b) \/ UnhandledRejection(b)
      PROVE Base'
  BY <1>3, BlockFetchedBase, BlockMissingBase, RestartBase DEF UnhandledRejection
<1>4. ASSUME NEW j \in Job, NEW b \in Block, TaskDone(j, b) \/ TaskFails(j, b) PROVE Base'
  BY <1>4, TaskDoneBase, TaskFailsBase
<1>5. QED
  BY <1>1, <1>2, <1>3, <1>4, ChainGrowsBase, RestartBase DEF Next, Crash

-----------------------------------------------------------------------------
(* Checkpoints, and what was handed out below them.                        *)

(* Save is the only step that moves a checkpoint.                          *)
LEMMA OnlySaveMoves ==
  ASSUME Next, latest' # latest
  PROVE  \E c \in Call : Save(c)
<1>1. ASSUME NEW c \in Call, RunSteps(c) PROVE Save(c)
  BY <1>1 DEF RunSteps, ReadStatus, SetStatus, ReadHead, ReadFrom, ChunkMissing, NothingToDo,
     LaunchBlocks, PlanEvents, GetLogs, redis
<1>2. ASSUME NEW c \in Call, Tick(c) \/ Begin(c) \/ RunFails(c) PROVE FALSE
  BY <1>2 DEF Tick, Begin, RunFails, redis
<1>3. ASSUME NEW b \in Block, BlockFetched(b) \/ BlockMissing(b) \/ UnhandledRejection(b)
      PROVE FALSE
  BY <1>3 DEF BlockFetched, BlockMissing, UnhandledRejection, Restart, redis
<1>4. ASSUME NEW j \in Job, NEW b \in Block, TaskDone(j, b) \/ TaskFails(j, b) PROVE FALSE
  BY <1>4 DEF TaskDone, TaskFails, redis
<1>5. QED
  BY <1>1, <1>2, <1>3, <1>4 DEF Next, ChainGrows, Crash, Restart, redis

LEMMA SeenGrows == ASSUME Base, Next, NEW j \in Job PROVE seen[j] \subseteq seen'[j]
<1>1. ASSUME NEW c \in Call, RunSteps(c) PROVE seen[j] \subseteq seen'[j]
  <2>1. CASE LaunchBlocks(c)
    BY <2>1 DEF LaunchBlocks, Base, TypeOK
  <2>2. CASE GetLogs(c)
    BY <2>2 DEF GetLogs, Base, TypeOK
  <2>3. CASE ~LaunchBlocks(c) /\ ~GetLogs(c)
    BY <1>1, <2>3 DEF RunSteps, ReadStatus, SetStatus, ReadHead, ReadFrom, ChunkMissing,
       NothingToDo, PlanEvents, Save
  <2>4. QED
    BY <2>1, <2>2, <2>3
<1>2. ASSUME NEW c \in Call, Tick(c) \/ Begin(c) \/ RunFails(c) PROVE UNCHANGED seen
  BY <1>2 DEF Tick, Begin, RunFails
<1>3. ASSUME NEW b \in Block, BlockFetched(b) \/ BlockMissing(b) \/ UnhandledRejection(b)
      PROVE UNCHANGED seen
  BY <1>3 DEF BlockFetched, BlockMissing, UnhandledRejection, Restart
<1>4. ASSUME NEW i \in Job, NEW b \in Block, TaskDone(i, b) \/ TaskFails(i, b)
      PROVE UNCHANGED seen
  BY <1>4 DEF TaskDone, TaskFails
<1>5. QED
  BY <1>1, <1>2, <1>3, <1>4 DEF Next, ChainGrows, Crash, Restart

(* After a step every run is fresh; or checkpoints are as they were, and a *)
(* run past reading its own started where it did, or has just read it.     *)
Onward ==
  \/ \A d \in Call : run'[d] = FreshRun
  \/ /\ UNCHANGED <<active, latest>>
     /\ \A d \in active : run'[d].at \in PastFrom(JobOf(d)) =>
          \/ run[d].at \in PastFrom(JobOf(d)) /\ run'[d].from = run[d].from
          \/ run'[d].from = latest[JobOf(d)] + 1

LEMMA RunOnward == ASSUME Base, NEW c \in Call, RunSteps(c) PROVE Onward
<1>1. c \in active /\ active = {c} /\ JobOf(c) \in Job
      /\ run \in [Call -> Run] /\ run[c] \in Run
  BY JobOfCall DEF RunSteps, ReadStatus, SetStatus, ReadHead, ReadFrom, ChunkMissing, NothingToDo,
     LaunchBlocks, PlanEvents, GetLogs, Save, HasSize, At, Base, Alone, TypeOK
<1>2. CASE Return(c)
  BY <1>2, ReturnLeavesFresh DEF Onward
<1>3. CASE (ReadStatus(c) \/ SetStatus(c)) /\ ~Return(c)
  <2>1. PICK step \in {"setStatus", AfterStatus[JobOf(c)]} :
          UNCHANGED <<active, latest>> /\ run' = [run EXCEPT ![c].at = step]
    BY <1>3 DEF ReadStatus, SetStatus, Enter, GoTo, slot, redis
  <2>2. run'[c].at = step
    BY <1>1, <2>1 DEF Run
  <2>3. run'[c].at \notin PastFrom(JobOf(c))
    BY <1>1, <2>2 DEF AfterStatus, PastFrom, Job
  <2>4. QED
    BY <1>1, <2>1, <2>3 DEF Onward
<1>4. CASE ReadHead(c)
  <2>1. PICK n \in 0..head :
          run' = [run EXCEPT ![c].at = AfterHead[JobOf(c)], ![c].last = n]
    BY <1>4 DEF ReadHead
  <2>2. run'[c].at = AfterHead[JobOf(c)] /\ run'[c].from = run[c].from /\ run[c].at = "head"
    BY <1>1, <1>4, <2>1 DEF Run, ReadHead, At
  <2>3. run'[c].at \in PastFrom(JobOf(c)) => run[c].at \in PastFrom(JobOf(c))
    BY <1>1, <2>2 DEF AfterHead, PastFrom, Job
  <2>4. QED
    BY <1>1, <1>4, <2>2, <2>3 DEF Onward, ReadHead, slot, redis
<1>5. CASE ReadFrom(c)
  <2>1. run'[c].from = latest[JobOf(c)] + 1
    BY <1>1, <1>5 DEF ReadFrom, FromBlock, Run
  <2>2. QED
    BY <1>1, <1>5, <2>1 DEF Onward, ReadFrom, slot, redis
<1>6. CASE ChunkMissing(c) \/ LaunchBlocks(c) \/ PlanEvents(c) \/ GetLogs(c)
  <2>1. run'[c].from = run[c].from /\ run[c].at \in {"chunk", "setChunk", "logs"}
        /\ UNCHANGED <<active, latest>>
    BY <1>1, <1>6 DEF ChunkMissing, LaunchBlocks, PlanEvents, GetLogs, GoTo, HasSize, At, Run,
       slot, redis
  <2>2. QED
    BY <1>1, <2>1 DEF Onward, PastFrom
<1>7. QED
  BY <1>2, <1>3, <1>4, <1>5, <1>6 DEF RunSteps, NothingToDo, Save

LEMMA NextOnward == ASSUME Base, Next PROVE Onward
<1>1. ASSUME NEW c \in Call, Begin(c) PROVE Onward
  BY <1>1, StartsAlone DEF Begin, Base, TypeOK, IdleFresh, Onward
<1>2. ASSUME NEW c \in Call, RunFails(c) PROVE Onward
  BY <1>2, ReturnLeavesFresh DEF RunFails, Onward
<1>3. ASSUME Restart PROVE Onward
  BY <1>3 DEF Restart, Onward
<1>4. ASSUME ChainGrows \/ (\E c \in Call : Tick(c))
             \/ (\E b \in Block : BlockFetched(b) \/ BlockMissing(b))
             \/ (\E j \in Job, b \in Block : TaskDone(j, b) \/ TaskFails(j, b))
      PROVE  Onward
  <2>1. UNCHANGED <<active, run, latest>>
    BY <1>4 DEF ChainGrows, Tick, Limit!Enqueue, BlockFetched, BlockMissing, TaskDone, TaskFails,
       slot, redis
  <2>2. QED
    BY <2>1 DEF Onward
<1>5. QED
  BY <1>1, <1>2, <1>3, <1>4, RunOnward DEF Next, UnhandledRejection, Crash

LEMMA FreshNotPast ==
  ASSUME NEW d, FreshRun.at \in PastFrom(JobOf(d)) PROVE FALSE
  BY DEF FreshRun, PastFrom

LEMMA FreshStep == ASSUME Base, CheckpointFresh, Next PROVE CheckpointFresh'
<1>1. active' \subseteq Call
  BY NextBase DEF Base, TypeOK, Limit!TypeOK
<1>2. CASE \A d \in Call : run'[d] = FreshRun
  BY <1>1, <1>2, FreshNotPast DEF CheckpointFresh
<1>3. CASE ~(\A d \in Call : run'[d] = FreshRun)
  BY <1>3, NextOnward DEF Onward, CheckpointFresh
<1>4. QED
  BY <1>2, <1>3

(* The chunk a run saves.                                                  *)
LEMMA SavesChunk ==
  ASSUME Base, NEW c \in Call, Save(c)
  PROVE  /\ c \in active /\ run[c].at \in PastFrom(JobOf(c)) /\ JobOf(c) \in Job
         /\ run[c].from \in Nat /\ run[c].to \in Nat /\ run[c].from < run[c].to
         /\ (run[c].from .. run[c].to) \subseteq seen[JobOf(c)]
         /\ latest' = [latest EXCEPT ![JobOf(c)] = run[c].to]
         /\ UNCHANGED seen
<1>1. c \in active /\ run[c].at = "save" /\ JobOf(c) \in Job
  BY JobOfCall DEF Save, At
<1>2. run[c].from \in Nat /\ run[c].to \in Nat
  BY DEF Base, TypeOK, Run
<1>3. QED
  BY <1>1, <1>2 DEF Base, Planned, Launched, PastFrom, Save

(* What Save writes extends what was covered before.                       *)
LEMMA SaveExtends ==
  ASSUME IInv, NEW c \in Call, Save(c)
  PROVE  /\ run[c].to \in Nat /\ run[c].to > latest[JobOf(c)]
         /\ 1..run[c].to \subseteq seen[JobOf(c)]
         /\ latest' = [latest EXCEPT ![JobOf(c)] = run[c].to]
<1>1. run[c].from = latest[JobOf(c)] + 1 /\ latest[JobOf(c)] \in Nat
  BY SavesChunk DEF IInv, Base, CheckpointFresh, TypeOK
<1>2. 1..latest[JobOf(c)] \subseteq seen[JobOf(c)]
  BY SavesChunk DEF IInv, NoBlockSkipped
<1>3. 1..run[c].to \subseteq (1..latest[JobOf(c)]) \cup (run[c].from .. run[c].to)
  BY <1>1, SavesChunk DEF IInv
<1>4. QED
  BY <1>1, <1>2, <1>3, SavesChunk DEF IInv

LEMMA SkippedStep == ASSUME IInv, Next PROVE NoBlockSkipped'
<1>1. CASE latest' = latest
  BY <1>1, SeenGrows DEF IInv, NoBlockSkipped
<1>2. ASSUME NEW c \in Call, Save(c) PROVE NoBlockSkipped'
  BY <1>2, SaveExtends, SavesChunk DEF IInv, Base, TypeOK, NoBlockSkipped
<1>3. QED
  BY <1>1, <1>2, OnlySaveMoves

LEMMA InitIInv == Init => IInv
<1>1. Init => CheckpointFresh /\ NoBlockSkipped
  BY DEF Init, Limit!Init, CheckpointFresh, NoBlockSkipped
<1>2. QED
  BY <1>1, InitBase DEF IInv

LEMMA NextIInv == ASSUME IInv, Next PROVE IInv'
  BY NextBase, FreshStep, SkippedStep DEF IInv

LEMMA StutterIInv == ASSUME IInv, UNCHANGED vars PROVE IInv'
  BY StutterBase DEF IInv, CheckpointFresh, NoBlockSkipped, vars, redis, slot

-----------------------------------------------------------------------------
(* The theorems.                                                           *)

(* The inductive invariant holds in every reachable state.                 *)
THEOREM Invariance == Spec => []IInv
<1>1. IInv /\ [Next]_vars => IInv'
  BY NextIInv, StutterIInv
<1>2. QED
  BY <1>1, InitIInv, PTL DEF Spec

(* Every variable keeps its type.                                          *)
THEOREM TypeCorrectness == Spec => []TypeOK
<1>1. IInv => TypeOK
  BY DEF IInv, Base
<1>2. QED
  BY <1>1, Invariance, PTL

(* What a run is about to write was computed from what is still stored.    *)
THEOREM Freshness == Spec => []CheckpointFresh
<1>1. IInv => CheckpointFresh
  BY DEF IInv, Base
<1>2. QED
  BY <1>1, Invariance, PTL

(* No block at or below a checkpoint was jumped over.                      *)
THEOREM NothingSkipped == Spec => []NoBlockSkipped
<1>1. IInv => NoBlockSkipped
  BY DEF IInv, Base
<1>2. QED
  BY <1>1, Invariance, PTL

(* Blocks the chain does not have yet are never indexed.                   *)
THEOREM NothingInvented == Spec => []OnlyExistingBlocks
<1>1. IInv => OnlyExistingBlocks
  BY DEF IInv, Base
<1>2. QED
  BY <1>1, Invariance, PTL

(* A checkpoint never moves back, whatever is interrupted and retried.     *)
THEOREM Monotonicity == Spec => CheckpointMonotonic
<1>1. IInv /\ [Next]_vars => [\A j \in Job : latest'[j] >= latest[j]]_latest
  <2>1. SUFFICES ASSUME IInv, [Next]_vars, latest' # latest, NEW j \in Job
                 PROVE  latest'[j] >= latest[j]
    OBVIOUS
  <2>2. PICK c \in Call : Save(c)
    BY <2>1, OnlySaveMoves DEF vars, redis
  <2>3. QED
    BY <2>1, <2>2, SaveExtends DEF IInv, Base, TypeOK
<1>2. QED
  BY <1>1, Invariance, PTL DEF Spec, CheckpointMonotonic

-----------------------------------------------------------------------------
(* Nothing is lost without a fault: what was handed out is in the database *)
(* or on its way, and NoBlockSkipped says that is all below a checkpoint.  *)

UnderWay ==
  faults = 0 => \A j \in Job : \A b \in seen[j] : b \in done[j] \/ InFlight(j, b)

(* Most steps of the runs leave the tasks, and what is known of them, alone*)
LEMMA TasksUntouched ==
  ASSUME UnderWay, UNCHANGED <<tasks, seen, done>>, faults' = 0 => faults = 0
  PROVE  UnderWay'
  BY DEF UnderWay, InFlight, tasks

(* A fault promises nothing.                                               *)
LEMMA FaultExcuses == ASSUME TypeOK, Fault PROVE UnderWay'
<1>1. faults' # 0
  BY ConstantsAssumption DEF TypeOK, Fault
<1>2. QED
  BY <1>1 DEF UnderWay

LEMMA LaunchUnderWay ==
  ASSUME IInv, UnderWay, NEW c \in Call, LaunchBlocks(c) PROVE UnderWay'
<1> DEFINE blocks == ChunkOf(run[c].from, ToBlock(c))
<1>1. TypeOK /\ TypeOK' /\ "indexByBlock" \in Job
  BY LaunchBlocksBase DEF IInv, Base, Job
<1>2. /\ fetching' = [b \in Block |-> IF b \in blocks THEN fetching[b] + 1 ELSE fetching[b]]
      /\ seen' = [seen EXCEPT !["indexByBlock"] = @ \cup blocks]
      /\ UNCHANGED <<working, done, faults>>
  BY DEF LaunchBlocks
<1> HIDE DEF blocks
<1>3. SUFFICES ASSUME faults = 0, NEW j \in Job, NEW b \in seen'[j]
               PROVE  b \in done[j] \/ InFlight(j, b)'
  BY <1>2 DEF UnderWay
<1>4. b \in Block /\ fetching[b] \in Nat
  BY <1>1 DEF TypeOK
<1>5. CASE j = "indexByBlock" /\ b \in blocks
  BY <1>2, <1>4, <1>5 DEF InFlight
<1>6. CASE ~ (j = "indexByBlock" /\ b \in blocks)
  <2>1. b \in seen[j]
    BY <1>1, <1>2, <1>6 DEF TypeOK
  <2>2. b \in done[j] \/ InFlight(j, b)
    BY <1>3, <2>1 DEF UnderWay
  <2>3. fetching[b] > 0 => fetching'[b] > 0
    BY <1>2, <1>4
  <2>4. QED
    BY <1>2, <2>2, <2>3 DEF InFlight
<1>7. QED
  BY <1>5, <1>6

LEMMA LogsUnderWay ==
  ASSUME IInv, UnderWay, NEW c \in Call, GetLogs(c) PROVE UnderWay'
<1> DEFINE blocks == ChunkOf(run[c].from, run[c].to)
           j0 == "indexByEvents"
<1>1. TypeOK /\ TypeOK' /\ j0 \in Job
  BY GetLogsBase DEF IInv, Base, Job
<1> SUFFICES ASSUME faults' = 0 PROVE UnderWay'
  BY DEF UnderWay
<1>0. LogsKnown(c, run[c].to) /\ UNCHANGED faults
  <2>1. PICK n \in run[c].from - 1 .. run[c].to : LogsKnown(c, n)
    BY LogsUpTo
  <2>2. ~Fault
    BY <1>1, ConstantsAssumption DEF TypeOK, Fault
  <2>3. QED
    BY <2>1, <2>2 DEF LogsKnown
<1>2. /\ working' = [working EXCEPT ![j0] =
                       [b \in Block |-> IF b \in blocks \cap Busy[j0] THEN @[b] + 1 ELSE @[b]]]
      /\ seen' = [seen EXCEPT ![j0] = @ \cup blocks]
      /\ done' = [done EXCEPT ![j0] = @ \cup (blocks \ Busy[j0])]
      /\ UNCHANGED <<fetching, faults>>
  BY <1>0 DEF GetLogs, LogsKnown
<1> HIDE DEF blocks
<1>3. SUFFICES ASSUME faults = 0, NEW j \in Job, NEW b \in seen'[j]
               PROVE  b \in done'[j] \/ InFlight(j, b)'
  BY <1>2 DEF UnderWay
<1>4. b \in Block /\ working[j][b] \in Nat /\ done[j] \subseteq done'[j]
  BY <1>1, <1>2 DEF TypeOK
<1>5. CASE j = j0 /\ b \in blocks
  <2>1. working'[j][b] = IF b \in blocks \cap Busy[j0] THEN working[j][b] + 1 ELSE working[j][b]
    BY <1>1, <1>2, <1>4, <1>5 DEF TypeOK
  <2>2. CASE b \in Busy[j0]
    BY <1>4, <1>5, <2>1, <2>2 DEF InFlight
  <2>3. CASE b \notin Busy[j0]
    BY <1>1, <1>2, <1>5, <2>3 DEF TypeOK
  <2>4. QED
    BY <2>2, <2>3
<1>6. CASE ~ (j = j0 /\ b \in blocks)
  <2>1. b \in seen[j]
    BY <1>1, <1>2, <1>6 DEF TypeOK
  <2>2. b \in done[j] \/ InFlight(j, b)
    BY <1>3, <2>1 DEF UnderWay
  <2>3. working'[j][b] = working[j][b]
    BY <1>1, <1>2, <1>4, <1>6 DEF TypeOK
  <2>4. QED
    BY <1>2, <1>4, <2>2, <2>3 DEF InFlight
<1>7. QED
  BY <1>5, <1>6

(* The answer for block b: its transactions are being indexed, or there    *)
(* are none.                                                               *)
LEMMA FetchedUnderWay ==
  ASSUME IInv, UnderWay, NEW a \in Block, BlockFetched(a) PROVE UnderWay'
<1> DEFINE j0 == "indexByBlock"
<1>1. TypeOK /\ j0 \in Job
  BY DEF IInv, Base, Job
<1>2. /\ fetching' = [fetching EXCEPT ![a] = @ - 1]
      /\ UNCHANGED <<seen, faults>>
  BY DEF BlockFetched
<1>3. SUFFICES ASSUME faults = 0, NEW j \in Job, NEW b \in seen[j]
               PROVE  b \in done'[j] \/ InFlight(j, b)'
  BY <1>2 DEF UnderWay
<1>4. /\ b \in Block /\ working[j][b] \in Nat
      /\ b \in done[j] \/ InFlight(j, b)
  BY <1>1, <1>3 DEF TypeOK, UnderWay
<1>5. /\ working[j][b] > 0 => working'[j][b] > 0
      /\ done[j] \subseteq done'[j]
  <2>1. CASE working' = [working EXCEPT ![j0][a] = @ + 1] /\ UNCHANGED done
    <3>1. working'[j][b] \in {working[j][b], working[j][b] + 1}
      BY <1>1, <1>4, <2>1 DEF TypeOK
    <3>2. QED
      BY <1>4, <2>1, <3>1
  <2>2. CASE UNCHANGED working /\ done' = [done EXCEPT ![j0] = @ \cup {a}]
    BY <1>1, <2>2 DEF TypeOK
  <2>3. QED
    BY <2>1, <2>2 DEF BlockFetched
<1>6. CASE j = j0 /\ b = a
  <2>1. a \in Busy[j0] => working'[j0][a] = working[j0][a] + 1
    BY <1>1 DEF BlockFetched, TypeOK
  <2>2. a \notin Busy[j0] => a \in done'[j0]
    BY <1>1 DEF BlockFetched, TypeOK
  <2>3. QED
    BY <1>4, <1>6, <2>1, <2>2 DEF InFlight
<1>7. CASE ~ (j = j0 /\ b = a)
  <2>1. j = j0 => fetching'[b] = fetching[b]
    BY <1>1, <1>2, <1>4, <1>7 DEF TypeOK
  <2>2. QED
    BY <1>4, <1>5, <2>1 DEF InFlight
<1>8. QED
  BY <1>6, <1>7

LEMMA TaskUnderWay ==
  ASSUME IInv, UnderWay, NEW i \in Job, NEW a \in Block, TaskDone(i, a) PROVE UnderWay'
<1>1. TypeOK
  BY DEF IInv, Base
<1>2. /\ working' = [working EXCEPT ![i][a] = @ - 1]
      /\ done' = [done EXCEPT ![i] = @ \cup {a}]
      /\ UNCHANGED <<seen, fetching, faults>>
  BY DEF TaskDone
<1>3. SUFFICES ASSUME faults = 0, NEW j \in Job, NEW b \in seen[j]
               PROVE  b \in done'[j] \/ InFlight(j, b)'
  BY <1>2 DEF UnderWay
<1>4. b \in Block /\ (b \in done[j] \/ InFlight(j, b))
  BY <1>1, <1>3 DEF TypeOK, UnderWay
<1>5. CASE j = i /\ b = a
  BY <1>1, <1>2, <1>5 DEF TypeOK
<1>6. CASE ~ (j = i /\ b = a)
  <2>1. working'[j][b] = working[j][b] /\ done[j] \subseteq done'[j]
    BY <1>1, <1>2, <1>4, <1>6 DEF TypeOK
  <2>2. QED
    BY <1>2, <1>4, <2>1 DEF InFlight
<1>7. QED
  BY <1>5, <1>6

LEMMA NextUnderWay == ASSUME IInv, UnderWay, Next PROVE UnderWay'
<1>1. TypeOK
  BY DEF IInv, Base
<1>2. ASSUME NEW c \in Call, RunSteps(c) PROVE UnderWay'
  <2>1. CASE ReadHead(c)
    BY <1>1, <2>1, TasksUntouched, FaultExcuses DEF ReadHead
  <2>2. CASE \/ ReadStatus(c) \/ SetStatus(c) \/ ReadFrom(c) \/ ChunkMissing(c)
             \/ NothingToDo(c) \/ PlanEvents(c) \/ Save(c)
    BY <2>2, TasksUntouched
       DEF ReadStatus, SetStatus, ReadFrom, ChunkMissing, NothingToDo, PlanEvents, Save
  <2>3. QED
    BY <1>2, <2>1, <2>2, LaunchUnderWay, LogsUnderWay DEF RunSteps
<1>3. ASSUME NEW c \in Call, Tick(c) \/ Begin(c) \/ RunFails(c) PROVE UnderWay'
  BY <1>1, <1>3, TasksUntouched, FaultExcuses DEF Tick, Begin, RunFails
<1>4. ASSUME NEW b \in Block, BlockFetched(b) \/ BlockMissing(b) \/ UnhandledRejection(b)
      PROVE UnderWay'
  BY <1>1, <1>4, FetchedUnderWay, FaultExcuses DEF BlockMissing, UnhandledRejection
<1>5. ASSUME NEW j \in Job, NEW b \in Block, TaskDone(j, b) \/ TaskFails(j, b)
      PROVE UnderWay'
  BY <1>1, <1>5, TaskUnderWay, FaultExcuses DEF TaskFails
<1>6. CASE ChainGrows
  BY <1>6, TasksUntouched DEF ChainGrows
<1>7. QED
  BY <1>1, <1>2, <1>3, <1>4, <1>5, <1>6, FaultExcuses DEF Next, Crash

(* As long as nothing failed, a block at or below a checkpoint is in the   *)
(* database or on its way (scheduling.service.ts:57-92), although the runs *)
(* do not wait for the tasks they start.                                   *)
THEOREM NothingLost == Spec => []NoLossWithoutFault
<1>1. Init => UnderWay
  BY DEF Init, UnderWay
<1>2. IInv /\ UnderWay /\ [Next]_vars => UnderWay'
  BY NextUnderWay, TasksUntouched DEF vars
<1>3. IInv /\ UnderWay => NoLossWithoutFault
  BY DEF IInv, Base, NoBlockSkipped, UnderWay, NoLossWithoutFault
<1>4. QED
  BY <1>1, <1>2, <1>3, Invariance, PTL DEF Spec

-----------------------------------------------------------------------------
(* Refinement: each job's checkpoint is a cursor of BlockCursor.           *)

LEMMA InitScans == Init => BlockScan!Init /\ EventScan!Init
  BY DEF Init, BlockScan!Init, EventScan!Init, Job

(* Steps of the indexer as steps of a scan.                                *)
BlockStep == [BlockScan!Next]_(BlockScan!vars)
EventStep == [EventScan!Next]_(EventScan!vars)

LEMMA StillScans ==
  ASSUME UNCHANGED <<head, seen, latest>> PROVE BlockStep /\ EventStep
  BY DEF BlockStep, EventStep, BlockScan!vars, EventScan!vars

LEMMA GrowScans == ASSUME IInv, ChainGrows PROVE BlockStep /\ EventStep
<1>1. head' > head
  BY ConstantsAssumption DEF IInv, Base, TypeOK, ChainGrows
<1>2. UNCHANGED <<seen, latest>>
  BY DEF ChainGrows, redis
<1>3. QED
  BY <1>1, <1>2 DEF BlockStep, EventStep, BlockScan!Next, BlockScan!Grow,
     EventScan!Next, EventScan!Grow

(* Blocks are handed out by one job at a time.                             *)
LEMMA LaunchScans == ASSUME IInv, NEW c \in Call, LaunchBlocks(c) PROVE BlockStep /\ EventStep
<1>1. /\ UNCHANGED <<head, latest>>
      /\ seen' = [seen EXCEPT !["indexByBlock"] = @ \cup ChunkOf(run[c].from, ToBlock(c))]
  BY DEF LaunchBlocks
<1>2. "indexByBlock" \in Job /\ "indexByEvents" \in Job /\ seen \in [Job -> SUBSET Block]
  BY DEF Job, IInv, Base, TypeOK
<1>3. seen'["indexByBlock"] \subseteq 1..head
  BY <1>1, <1>2, LaunchBlocksBase DEF IInv, Base, OnlyExistingBlocks
<1>4. seen["indexByBlock"] \subseteq seen'["indexByBlock"]
      /\ seen'["indexByEvents"] = seen["indexByEvents"]
  BY <1>1, <1>2
<1>5. BlockScan!See
  BY <1>1, <1>3, <1>4 DEF BlockScan!See
<1>6. UNCHANGED EventScan!vars
  BY <1>1, <1>4 DEF EventScan!vars
<1>7. QED
  BY <1>5, <1>6 DEF BlockStep, EventStep, BlockScan!Next

LEMMA LogsScan == ASSUME IInv, NEW c \in Call, GetLogs(c) PROVE BlockStep /\ EventStep
<1>1. /\ UNCHANGED <<head, latest>>
      /\ seen' = [seen EXCEPT !["indexByEvents"] = @ \cup ChunkOf(run[c].from, run[c].to)]
  BY DEF GetLogs, redis
<1>2. "indexByBlock" \in Job /\ "indexByEvents" \in Job /\ seen \in [Job -> SUBSET Block]
  BY DEF Job, IInv, Base, TypeOK
<1>3. seen'["indexByEvents"] \subseteq 1..head
  BY <1>1, <1>2, GetLogsBase DEF IInv, Base, OnlyExistingBlocks
<1>4. seen["indexByEvents"] \subseteq seen'["indexByEvents"]
      /\ seen'["indexByBlock"] = seen["indexByBlock"]
  BY <1>1, <1>2
<1>5. EventScan!See
  BY <1>1, <1>3, <1>4 DEF EventScan!See
<1>6. UNCHANGED BlockScan!vars
  BY <1>1, <1>4 DEF BlockScan!vars
<1>7. QED
  BY <1>5, <1>6 DEF BlockStep, EventStep, EventScan!Next

LEMMA SaveScans == ASSUME IInv, NEW c \in Call, Save(c) PROVE BlockStep /\ EventStep
<1>1. /\ run[c].to > latest[JobOf(c)]
      /\ 1..run[c].to \subseteq seen[JobOf(c)]
      /\ latest' = [latest EXCEPT ![JobOf(c)] = run[c].to]
      /\ latest \in [Job -> Nat]
      /\ UNCHANGED <<head, seen>>
  BY SaveExtends DEF Save, IInv, Base, TypeOK
<1>2. CASE JobOf(c) = "indexByBlock"
  <2>1. BlockScan!Advance
    BY <1>1, <1>2 DEF BlockScan!Advance, Job
  <2>2. UNCHANGED EventScan!vars
    BY <1>1, <1>2 DEF EventScan!vars, Job
  <2>3. QED
    BY <2>1, <2>2 DEF BlockStep, EventStep, BlockScan!Next
<1>3. CASE JobOf(c) = "indexByEvents"
  <2>1. EventScan!Advance
    BY <1>1, <1>3 DEF EventScan!Advance, Job
  <2>2. UNCHANGED BlockScan!vars
    BY <1>1, <1>3 DEF BlockScan!vars, Job
  <2>3. QED
    BY <2>1, <2>2 DEF BlockStep, EventStep, EventScan!Next
<1>4. QED
  BY <1>2, <1>3, JobOfCall DEF Job

LEMMA NextScans == ASSUME IInv, Next PROVE BlockStep /\ EventStep
<1>1. ASSUME NEW c \in Call, RunSteps(c) PROVE BlockStep /\ EventStep
  <2>1. CASE \/ ReadStatus(c) \/ SetStatus(c) \/ ReadHead(c) \/ ReadFrom(c)
             \/ ChunkMissing(c) \/ NothingToDo(c) \/ PlanEvents(c)
    BY <2>1, StillScans
       DEF ReadStatus, SetStatus, ReadHead, ReadFrom, ChunkMissing, NothingToDo, PlanEvents, redis
  <2>2. QED
    BY <1>1, <2>1, LaunchScans, LogsScan, SaveScans DEF RunSteps
<1>2. ASSUME NEW c \in Call, Tick(c) \/ Begin(c) \/ RunFails(c) PROVE BlockStep /\ EventStep
  BY <1>2, StillScans DEF Tick, Begin, RunFails, redis
<1>3. ASSUME NEW b \in Block, BlockFetched(b) \/ BlockMissing(b) \/ UnhandledRejection(b)
      PROVE BlockStep /\ EventStep
  BY <1>3, StillScans DEF BlockFetched, BlockMissing, UnhandledRejection, Restart, redis
<1>4. ASSUME NEW j \in Job, NEW b \in Block, TaskDone(j, b) \/ TaskFails(j, b)
      PROVE BlockStep /\ EventStep
  BY <1>4, StillScans DEF TaskDone, TaskFails, redis
<1>5. CASE Crash
  BY <1>5, StillScans DEF Crash, Restart, redis
<1>6. QED
  BY <1>1, <1>2, <1>3, <1>4, <1>5, GrowScans DEF Next

(* Both jobs implement the abstract scan: blocks are handed out once they  *)
(* exist, and each checkpoint advances over blocks that were handed out.   *)
THEOREM Refinement == Spec => ScansImplementCursor
<1>1. IInv /\ [Next]_vars => BlockStep /\ EventStep
  BY NextScans, StillScans DEF vars, redis
<1>2. IInv /\ [Next]_vars => [BlockScan!Next]_(BlockScan!vars) /\ [EventScan!Next]_(EventScan!vars)
  BY <1>1 DEF BlockStep, EventStep
<1>3. QED
  BY <1>2, InitScans, Invariance, PTL
     DEF Spec, ScansImplementCursor, BlockScan!Spec, EventScan!Spec

-----------------------------------------------------------------------------
(* Beside the operator (IndexerTools).  A posted checkpoint makes a run    *)
(* write one it did not read, so CheckpointFresh is gone; Base is not      *)
(* about checkpoints, and stays.                                           *)

(* What a run has below its start was handed out or posted over: the       *)
(* checkpoint it read was covered, and stays so when another is posted.    *)
RunsCovered ==
  \A c \in active :
    JobOf(c) = "indexByBlock" /\ run[c].at \in PastFrom(JobOf(c)) =>
      1..(run[c].from - 1) \subseteq seen["indexByBlock"] \cup skipped

ToolsIInv ==
  /\ Base
  /\ posts \in 0..MaxPosts /\ skipped \subseteq Nat
  /\ RunsCovered
  /\ SkippedOnlyByOperator

LEMMA ToolsInitIInv == ToolsInit => ToolsIInv
<1> SUFFICES ASSUME ToolsInit PROVE ToolsIInv
  OBVIOUS
<1>1. Base /\ posts \in 0..MaxPosts /\ skipped \subseteq Nat
  BY InitBase, ToolsAssumption DEF ToolsInit
<1>2. RunsCovered /\ SkippedOnlyByOperator
  BY DEF ToolsInit, Init, Limit!Init, RunsCovered, SkippedOnlyByOperator, Job
<1>3. QED
  BY <1>1, <1>2 DEF ToolsIInv

LEMMA CoveredStep ==
  ASSUME ToolsIInv, Next, UNCHANGED skipped PROVE RunsCovered' /\ SkippedOnlyByOperator'
<1> DEFINE j == "indexByBlock"
<1>0. j \in Job /\ seen[j] \subseteq seen'[j] /\ latest \in [Job -> Nat] /\ active' \subseteq Call
  BY SeenGrows, NextBase DEF ToolsIInv, Job, Base, TypeOK, Limit!TypeOK
<1>1. RunsCovered'
  <2>1. CASE \A d \in Call : run'[d] = FreshRun
    BY <1>0, <2>1, FreshNotPast DEF RunsCovered
  <2>2. CASE ~(\A d \in Call : run'[d] = FreshRun)
    <3>1. SUFFICES ASSUME NEW d \in active', JobOf(d) = j, run'[d].at \in PastFrom(JobOf(d))
                   PROVE  1..(run'[d].from - 1) \subseteq seen'[j] \cup skipped
      BY DEF RunsCovered
    <3>2. d \in active
          /\ (\/ run[d].at \in PastFrom(JobOf(d)) /\ run'[d].from = run[d].from
              \/ run'[d].from = latest[j] + 1)
      BY <2>2, <3>1, NextOnward DEF ToolsIInv, Onward
    <3>3. CASE run[d].at \in PastFrom(JobOf(d)) /\ run'[d].from = run[d].from
      BY <1>0, <3>1, <3>2, <3>3 DEF ToolsIInv, RunsCovered
    <3>4. CASE run'[d].from = latest[j] + 1
      <4>1. run'[d].from - 1 = latest[j]
        BY <1>0, <3>4
      <4>2. QED
        BY <1>0, <4>1 DEF ToolsIInv, SkippedOnlyByOperator
    <3>5. QED
      BY <3>2, <3>3, <3>4
  <2>3. QED
    BY <2>1, <2>2
<1>2. SkippedOnlyByOperator'
  <2>1. CASE latest'[j] = latest[j]
    BY <1>0, <2>1 DEF ToolsIInv, SkippedOnlyByOperator
  <2>2. ASSUME NEW c \in Call, Save(c), JobOf(c) = j PROVE SkippedOnlyByOperator'
    <3>1. /\ c \in active /\ run[c].at \in PastFrom(JobOf(c))
          /\ run[c].from \in Nat /\ run[c].to \in Nat
          /\ (run[c].from .. run[c].to) \subseteq seen[j]
          /\ latest'[j] = run[c].to
      BY <1>0, <2>2, SavesChunk DEF ToolsIInv
    <3>2. 1..(run[c].from - 1) \subseteq seen[j] \cup skipped
      BY <2>2, <3>1 DEF ToolsIInv, RunsCovered
    <3>3. 1..run[c].to \subseteq (1..(run[c].from - 1)) \cup (run[c].from .. run[c].to)
      BY <3>1
    <3>4. QED
      BY <1>0, <3>1, <3>2, <3>3 DEF SkippedOnlyByOperator
  <2>3. ASSUME NEW c \in Call, Save(c), JobOf(c) # j PROVE latest'[j] = latest[j]
    BY <1>0, <2>3, SavesChunk DEF ToolsIInv
  <2>4. QED
    BY <2>1, <2>2, <2>3, OnlySaveMoves
<1>3. QED
  BY <1>1, <1>2

LEMMA OperatorIInv == ASSUME ToolsIInv, Operator PROVE ToolsIInv'
<1> DEFINE j == "indexByBlock"
<1>0. /\ TypeOK /\ Base /\ j \in Job /\ latest \in [Job -> Nat] /\ skipped \subseteq Nat
      /\ posts \in 0..MaxPosts /\ MaxPosts \in Nat
  BY ToolsAssumption DEF ToolsIInv, Base, TypeOK, Job
<1>1. Post
  BY DEF Operator, ChangeStatus, ChangeChunksSizes, ChangeLastIndexedBlocks
<1>2. UNCHANGED <<head, slot, active, run, tasks, seen, done, faults>> /\ posts' \in 0..MaxPosts
  BY <1>0, <1>1 DEF Post, slot
<1>3. /\ status' \in Nat \cup {Null} /\ chunk' \in [Job -> Nat \cup {Null}]
      /\ latest' \in [Job -> Nat]
  <2>1. CASE \E n \in PostedStatus : ChangeStatus(n)
    BY <1>0, <2>1, ToolsAssumption DEF ChangeStatus, TypeOK
  <2>2. CASE \E n \in PostedChunk : ChangeChunksSizes(n)
    BY <1>0, <2>2, ToolsAssumption DEF ChangeChunksSizes, TypeOK
  <2>3. CASE \E n \in PostedBlock : ChangeLastIndexedBlocks(n)
    BY <1>0, <2>3, ToolsAssumption DEF ChangeLastIndexedBlocks, TypeOK
  <2>4. QED
    BY <2>1, <2>2, <2>3 DEF Operator
<1>4. Base'
  <2>1. TypeOK'
    BY <1>0, <1>2, <1>3 DEF TypeOK, Limit!TypeOK, slot, tasks
  <2>2. QED
    BY <1>0, <1>2, <2>1, RunsUntouched
<1>5. skipped \subseteq skipped' /\ skipped' \subseteq Nat /\ SkippedOnlyByOperator'
  <2>1. CASE UNCHANGED <<latest, skipped>>
    BY <1>0, <1>2, <2>1 DEF ToolsIInv, SkippedOnlyByOperator
  <2>2. ASSUME NEW n \in PostedBlock, ChangeLastIndexedBlocks(n)
        PROVE  skipped \subseteq skipped' /\ skipped' \subseteq Nat /\ SkippedOnlyByOperator'
    <3>1. /\ n \in Nat /\ latest[j] \in Nat /\ latest'[j] = n
          /\ skipped' = skipped \cup ((latest[j] + 1) .. n)
      BY <1>0, <2>2, ToolsAssumption DEF ChangeLastIndexedBlocks
    <3>2. 1..n \subseteq (1..latest[j]) \cup ((latest[j] + 1) .. n)
      BY <3>1
    <3>3. 1..latest[j] \subseteq seen[j] \cup skipped
      BY DEF ToolsIInv, SkippedOnlyByOperator
    <3>4. skipped' \subseteq Nat
      <4>1. \A m \in Nat : (m + 1) .. n \subseteq Nat
        BY <3>1
      <4>2. QED
        BY <1>0, <3>1, <4>1
    <3>5. QED
      BY <1>2, <3>1, <3>2, <3>3, <3>4 DEF SkippedOnlyByOperator
  <2>3. QED
    BY <2>1, <2>2 DEF Operator, ChangeStatus, ChangeChunksSizes
<1>6. RunsCovered'
  BY <1>2, <1>5 DEF ToolsIInv, RunsCovered
<1>7. QED
  BY <1>2, <1>4, <1>5, <1>6 DEF ToolsIInv

THEOREM ToolsInvariance == ToolsSpec => []ToolsIInv
<1>1. ToolsIInv /\ [ToolsNext]_allVars => ToolsIInv'
  <2>1. SUFFICES ASSUME ToolsIInv, [ToolsNext]_allVars PROVE ToolsIInv'
    OBVIOUS
  <2>2. CASE Next /\ UNCHANGED toolVars
    BY <2>1, <2>2, NextBase, CoveredStep DEF ToolsIInv, toolVars
  <2>3. CASE UNCHANGED allVars
    BY <2>1, <2>3, StutterBase
       DEF allVars, toolVars, vars, redis, slot, ToolsIInv, RunsCovered, SkippedOnlyByOperator
  <2>4. QED
    BY <2>1, <2>2, <2>3, OperatorIInv DEF ToolsNext
<1>2. QED
  BY <1>1, ToolsInitIInv, PTL DEF ToolsSpec

(* Whatever is posted, every variable keeps its type.                      *)
THEOREM ToolsTypeCorrectness == ToolsSpec => []ToolsTypeOK
<1>1. ToolsIInv => ToolsTypeOK
  BY DEF ToolsIInv, Base, ToolsTypeOK
<1>2. QED
  BY <1>1, ToolsInvariance, PTL

(* Whatever the operator posts, and whichever run's write lands after it,  *)
(* only the operator makes the checkpoint jump over a block.               *)
THEOREM OperatorOnlySkips == ToolsSpec => []SkippedOnlyByOperator
<1>1. ToolsIInv => SkippedOnlyByOperator
  BY DEF ToolsIInv
<1>2. QED
  BY <1>1, ToolsInvariance, PTL

(* No posted checkpoint makes the indexer take up a block that does not    *)
(* exist yet: the chunk is cut at the head its run read.                   *)
THEOREM ToolsNothingInvented == ToolsSpec => []OnlyExistingBlocks
<1>1. ToolsIInv => OnlyExistingBlocks
  BY DEF ToolsIInv, Base
<1>2. QED
  BY <1>1, ToolsInvariance, PTL
=============================================================================
