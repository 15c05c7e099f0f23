------------------------ MODULE RefreshStream_proofs ------------------------
(***************************************************************************)
(* For any number of assets, producers, messages and faults, and any chunk *)
(* size: no message leaves the stream before a task was started for it,    *)
(* messages are handed out in order, and as long as nothing failed a key   *)
(* always has a message, or a producer about to add one, behind it.        *)
(***************************************************************************)
EXTENDS RefreshStream, FiniteSetTheorems, TLAPS

-----------------------------------------------------------------------------
(* The inductive invariant.                                                *)

(* Ids are given out in order.                                             *)
IdsBounded ==
  /\ IsFiniteSet(stream)
  /\ \A m \in stream : m.id \in 1..lastId
  /\ handed \subseteq 1..lastId

(* The batch of a run is what is oldest in the stream, and tasks were      *)
(* started for all of it.  What is added meanwhile is newer, so that       *)
(* reading as many messages again yields at least the batch.               *)
BatchIsOldest ==
  /\ job.batch \subseteq stream /\ Ids(job.batch) \subseteq handed
  /\ \A m \in job.batch : \A x \in stream : x.id <= m.id => x \in job.batch
  /\ job.at = "mark" => job.batch \subseteq job.again

IInv ==
  /\ TypeOK
  /\ IdsBounded
  /\ BatchIsOldest
  /\ NothingDropped
  /\ HandedInOrder
  /\ LockIsBacked

-----------------------------------------------------------------------------
(* Oldest(n) is part of the stream, and with a message it holds every      *)
(* older one.                                                              *)
LEMMA OldestIsPrefix ==
  ASSUME NEW n \in Nat, IsFiniteSet(stream), stream \subseteq Message
  PROVE  /\ Oldest(n) \subseteq stream
         /\ \A m \in Oldest(n) : \A x \in stream : x.id <= m.id => x \in Oldest(n)
  <1>1. Oldest(n) \subseteq stream BY DEF Oldest
  <1>2. ASSUME NEW m \in Oldest(n), NEW x \in stream, x.id <= m.id, n # 0
        PROVE  x \in Oldest(n)
    <2> DEFINE older(y) == {z \in stream : z.id <= y.id}
    <2>1. m \in stream /\ Cardinality(older(m)) <= n BY <1>2 DEF Oldest
    <2>2. \A z \in stream : z.id \in Nat BY DEF Message
    <2>3. older(x) \subseteq older(m) BY <1>2, <2>1, <2>2
    <2>4. older(m) \subseteq stream OBVIOUS
    <2>5. IsFiniteSet(older(m)) BY <2>4, FS_Subset
    <2>6. IsFiniteSet(older(x)) /\ Cardinality(older(x)) <= Cardinality(older(m))
      BY <2>3, <2>5, FS_Subset
    <2>7. Cardinality(older(x)) \in Nat /\ Cardinality(older(m)) \in Nat
      BY <2>5, <2>6, FS_CardinalityType
    <2>8. Cardinality(older(x)) <= n BY <2>1, <2>6, <2>7
    <2> QED BY <1>2, <2>8 DEF Oldest
  <1> QED BY <1>1, <1>2 DEF Oldest

(* Reading as many messages again as there are in a set of oldest ones     *)
(* yields at least these.                                                  *)
LEMMA RereadCovers ==
  ASSUME NEW B \in SUBSET stream, IsFiniteSet(stream), stream \subseteq Message,
         \A m \in B : \A x \in stream : x.id <= m.id => x \in B
  PROVE  Cardinality(B) \in Nat /\ B \subseteq Oldest(Cardinality(B))
  <1>1. IsFiniteSet(B) BY FS_Subset
  <1>2. Cardinality(B) \in Nat BY <1>1, FS_CardinalityType
  <1>3. ASSUME NEW m \in B PROVE m \in Oldest(Cardinality(B))
    <2> DEFINE older == {z \in stream : z.id <= m.id}
    <2>1. older \subseteq B OBVIOUS
    <2>2. Cardinality(older) <= Cardinality(B) BY <1>1, <2>1, FS_Subset
    <2> QED BY <2>2 DEF Oldest
  <1> QED BY <1>2, <1>3

LEMMA InitEstablishes == Init => IInv
  <1> SUFFICES ASSUME Init PROVE IInv OBVIOUS
  <1>1. TypeOK BY StreamAssumption DEF Init, TypeOK, Idle, Message
  <1>2. IdsBounded BY FS_EmptySet DEF Init, IdsBounded
  <1>3. BatchIsOldest BY DEF Init, BatchIsOldest, Idle, Ids
  <1>4. NothingDropped /\ HandedInOrder /\ LockIsBacked
    BY DEF Init, NothingDropped, HandedInOrder, LockIsBacked
  <1> QED BY <1>1, <1>2, <1>3, <1>4 DEF IInv

-----------------------------------------------------------------------------
(* The producers and the clock.                                            *)

LEMMA StepLock ==
  ASSUME IInv, NEW p \in Producer, NEW a \in Asset, Lock(p, a) PROVE IInv'
  <1>1. TypeOK' BY StreamAssumption DEF Lock, IInv, TypeOK
  <1>2. IdsBounded' /\ BatchIsOldest' /\ NothingDropped' /\ HandedInOrder'
    BY DEF Lock, IInv, IdsBounded, BatchIsOldest, NothingDropped, HandedInOrder, Ids
  <1>3. LockIsBacked'
    <2> SUFFICES ASSUME faults' = 0, NEW b \in Asset, unique'[b] > 0
                 PROVE  b \in Assets(stream)' \cup {producer'[q] : q \in Producer}
      BY DEF LockIsBacked
    <2>1. CASE b = a BY <2>1 DEF Lock, IInv, TypeOK
    <2>2. CASE b # a
      <3>1. unique[b] > 0 /\ faults = 0 BY <2>2 DEF Lock, IInv, TypeOK
      <3>2. CASE b \in Assets(stream) BY <3>2 DEF Lock, Assets
      <3>3. CASE \E q \in Producer : producer[q] = b
        <4>1. PICK q \in Producer : producer[q] = b BY <3>3
        <4>2. q # p BY <4>1, StreamAssumption DEF Lock
        <4>3. producer'[q] = b BY <4>1, <4>2 DEF Lock, IInv, TypeOK
        <4> QED BY <4>3
      <3> QED BY <3>1, <3>2, <3>3 DEF IInv, LockIsBacked
    <2> QED BY <2>1, <2>2
  <1> QED BY <1>1, <1>2, <1>3 DEF IInv

LEMMA StepAdd ==
  ASSUME IInv, NEW p \in Producer, Add(p) PROVE IInv'
  <1> DEFINE new == [id |-> lastId', asset |-> producer[p]]
  <1>1. /\ producer[p] \in Asset /\ lastId \in Nat /\ lastId' = lastId + 1
        /\ stream' = stream \cup {new} /\ new.id = lastId + 1 /\ new.asset = producer[p]
        /\ stream \subseteq Message /\ handed' = handed /\ job' = job
    BY StreamAssumption DEF Add, IInv, TypeOK
  <1>2. new \in Message BY <1>1 DEF Message
  <1>3. TypeOK' BY <1>1, <1>2, StreamAssumption DEF Add, IInv, TypeOK
  <1>4. IdsBounded'
    <2>1. IsFiniteSet(stream)' BY <1>1, FS_AddElement DEF IInv, IdsBounded
    <2>2. ASSUME NEW m \in stream' PROVE m.id \in 1..(lastId + 1)
      BY <1>1, <2>2 DEF IInv, IdsBounded
    <2>3. handed \subseteq 1..(lastId + 1) BY <1>1 DEF IInv, IdsBounded
    <2> QED BY <1>1, <2>1, <2>2, <2>3 DEF IdsBounded
  <1>5. BatchIsOldest'
    <2>1. \A m \in job.batch : m \in stream /\ m.id <= lastId /\ m.id \in Nat
      BY <1>1 DEF IInv, BatchIsOldest, IdsBounded
    <2>2. \A m \in job.batch : ~ (new.id <= m.id) BY <1>1, <2>1
    <2> QED BY <1>1, <2>2 DEF IInv, BatchIsOldest
  <1>6. NothingDropped'
    <2> SUFFICES ASSUME NEW i \in 1..(lastId + 1) PROVE i \in handed \cup Ids(stream)'
      BY <1>1 DEF NothingDropped
    <2>1. CASE i = lastId + 1 BY <1>1, <2>1 DEF Ids
    <2>2. CASE i \in 1..lastId BY <1>1, <2>2 DEF IInv, NothingDropped, Ids
    <2> QED BY <1>1, <2>1, <2>2
  <1>7. HandedInOrder' BY <1>1 DEF IInv, HandedInOrder
  <1>8. LockIsBacked'
    <2> SUFFICES ASSUME faults' = 0, NEW b \in Asset, unique'[b] > 0
                 PROVE  b \in Assets(stream)' \cup {producer'[q] : q \in Producer}
      BY DEF LockIsBacked
    <2>1. unique[b] > 0 /\ faults = 0 BY DEF Add
    <2>2. CASE b \in Assets(stream) BY <1>1, <2>2 DEF Assets
    <2>3. CASE b = producer[p] BY <1>1, <2>3 DEF Assets
    <2>4. CASE \E q \in Producer : q # p /\ producer[q] = b
      BY <2>4 DEF Add, IInv, TypeOK
    <2> QED BY <2>1, <2>2, <2>3, <2>4 DEF IInv, LockIsBacked
  <1> QED BY <1>3, <1>4, <1>5, <1>6, <1>7, <1>8 DEF IInv

(* Only keys that are there are kept alive or aged.                        *)
LEMMA StepKeys ==
  ASSUME IInv, Tick \/ \E a \in Asset : SkipDuplicate(a) PROVE IInv'
  <1>1. /\ unique' \in [Asset -> 0..Day]
        /\ \A a \in Asset : unique'[a] > 0 => unique[a] > 0
    BY StreamAssumption DEF Tick, SkipDuplicate, IInv, TypeOK
  <1>2. UNCHANGED <<stream, lastId, producer, job, tasks, handed, done, faults>>
    BY DEF Tick, SkipDuplicate
  <1>3. TypeOK' BY <1>1, <1>2 DEF IInv, TypeOK
  <1>4. IdsBounded' /\ BatchIsOldest' /\ NothingDropped' /\ HandedInOrder'
    BY <1>2 DEF IInv, IdsBounded, BatchIsOldest, NothingDropped, HandedInOrder, Ids
  <1>5. LockIsBacked' BY <1>1, <1>2 DEF IInv, LockIsBacked, Assets
  <1> QED BY <1>3, <1>4, <1>5 DEF IInv

-----------------------------------------------------------------------------
(* The consumer.                                                           *)

LEMMA StepFetch == ASSUME IInv, Fetch PROVE IInv'
  <1> DEFINE batch == Oldest(ChunkSize)
  <1>1. /\ job' = [at |-> "reread", batch |-> batch, again |-> {}]
        /\ handed' = handed \cup Ids(batch) /\ tasks' = tasks \cup Ids(batch)
        /\ UNCHANGED <<unique, stream, lastId, producer, done, faults>>
    BY DEF Fetch, Idle
  <1>2. /\ batch \subseteq stream
        /\ \A m \in batch : \A x \in stream : x.id <= m.id => x \in batch
    BY OldestIsPrefix, StreamAssumption DEF IInv, TypeOK, IdsBounded
  <1> HIDE DEF batch
  <1>3. Ids(batch) \subseteq 1..lastId /\ lastId \in Nat
    BY <1>2, StreamAssumption DEF IInv, TypeOK, IdsBounded, Ids
  <1>4. TypeOK'
    <2>1. job' \in [at : {"idle", "reread", "mark"},
                    batch : SUBSET Message, again : SUBSET Message]
      BY <1>1, <1>2 DEF IInv, TypeOK
    <2>2. Ids(batch) \subseteq Nat BY <1>3
    <2>3. tasks' \subseteq Nat /\ handed' \subseteq Nat BY <1>1, <2>2 DEF IInv, TypeOK
    <2> QED BY <1>1, <2>1, <2>3 DEF IInv, TypeOK
  <1>5. IdsBounded' BY <1>1, <1>3 DEF IInv, IdsBounded
  <1>6. BatchIsOldest' BY <1>1, <1>2 DEF BatchIsOldest
  <1>7. NothingDropped' BY <1>1 DEF IInv, NothingDropped
  <1>8. HandedInOrder'
    <2> SUFFICES ASSUME NEW i \in handed', NEW j \in 1..i PROVE j \in handed'
      BY DEF HandedInOrder
    <2>1. CASE i \in handed BY <1>1, <2>1 DEF IInv, HandedInOrder
    <2>2. CASE i \in Ids(batch)
      <3>1. PICK m \in batch : m.id = i BY <2>2 DEF Ids
      <3>2. i \in 1..lastId /\ j \in 1..lastId BY <1>3, <2>2
      <3>3. CASE j \in handed BY <1>1, <3>3
      <3>4. CASE j \in Ids(stream)
        <4>1. PICK x \in stream : x.id = j BY <3>4 DEF Ids
        <4>2. x \in batch BY <1>2, <1>3, <3>1, <3>2, <4>1
        <4> QED BY <1>1, <4>1, <4>2 DEF Ids
      <3> QED BY <3>2, <3>3, <3>4 DEF IInv, NothingDropped
    <2> QED BY <1>1, <2>1, <2>2
  <1>9. LockIsBacked' BY <1>1 DEF IInv, LockIsBacked, Assets
  <1> QED BY <1>4, <1>5, <1>6, <1>7, <1>8, <1>9 DEF IInv

LEMMA StepReread == ASSUME IInv, Reread PROVE IInv'
  <1> DEFINE again == Oldest(Cardinality(job.batch))
  <1>1. /\ Cardinality(job.batch) \in Nat /\ job.batch \subseteq again
        /\ again \subseteq stream /\ stream \subseteq Message
    BY RereadCovers, OldestIsPrefix DEF IInv, TypeOK, IdsBounded, BatchIsOldest
  <1> HIDE DEF again
  <1>2. job' = [job EXCEPT !.at = "mark", !.again = again]
    BY DEF Reread, again
  <1>3. job'.at = "mark" /\ job'.batch = job.batch /\ job'.again = again
    BY <1>2 DEF IInv, TypeOK
  <1>4. UNCHANGED <<unique, stream, lastId, producer, tasks, handed, done, faults>>
    BY DEF Reread
  <1>5. TypeOK' BY <1>1, <1>2, <1>4 DEF IInv, TypeOK
  <1>6. BatchIsOldest' BY <1>1, <1>3, <1>4 DEF IInv, BatchIsOldest
  <1>7. IdsBounded' /\ NothingDropped' /\ HandedInOrder' /\ LockIsBacked'
    BY <1>4 DEF IInv, IdsBounded, NothingDropped, HandedInOrder, LockIsBacked, Ids, Assets
  <1> QED BY <1>5, <1>6, <1>7 DEF IInv

(* Executing a prefix of the commands of a run and ending it keeps all but *)
(* LockIsBacked, which is about runs without faults.                       *)
LEMMA RunEnds ==
  ASSUME IInv, NEW removed \in 0..lastId, NEW released \in 0..lastId,
         Commands(removed, released), job' = Idle, LockIsBacked',
         tasks' \subseteq tasks, producer' \in [Producer -> Asset \cup {Null}],
         faults' \in 0..MaxFaults, UNCHANGED <<lastId, handed, done>>
  PROVE  IInv'
  <1>1. /\ stream' \subseteq stream /\ unique' \in [Asset -> 0..Day]
        /\ \A m \in stream : m \notin job.batch => m \in stream'
    BY StreamAssumption DEF Commands, IInv, TypeOK
  <1>2. Idle.batch = {} /\ Idle.at = "idle" BY DEF Idle
  <1>3. TypeOK'
    BY <1>1 DEF IInv, TypeOK, Idle
  <1>4. IdsBounded' BY <1>1, FS_Subset DEF IInv, IdsBounded
  <1>5. BatchIsOldest' BY <1>2 DEF BatchIsOldest, Ids
  <1>6. NothingDropped'
    BY <1>1 DEF IInv, NothingDropped, BatchIsOldest, Ids
  <1>7. HandedInOrder' BY DEF IInv, HandedInOrder
  <1> QED BY <1>3, <1>4, <1>5, <1>6, <1>7 DEF IInv

LEMMA StepMark == ASSUME IInv, Mark PROVE IInv'
  <1>1. lastId \in Nat /\ lastId \in 0..lastId BY StreamAssumption DEF IInv, TypeOK
  <1>2. job.batch \subseteq job.again BY DEF IInv, Mark, BatchIsOldest
  <1>3. LockIsBacked'
    <2> SUFFICES ASSUME faults' = 0, NEW b \in Asset, unique'[b] > 0
                 PROVE  b \in Assets(stream)' \cup {producer'[q] : q \in Producer}
      BY DEF LockIsBacked
    <2>1. /\ unique[b] > 0 /\ faults = 0 /\ producer' = producer
          /\ \A m \in job.again : ~ (m.asset = b /\ m.id <= lastId)
      BY DEF Mark, Commands, IInv, TypeOK
    <2>2. CASE b \in Assets(stream)
      <3>1. PICK m \in stream : m.asset = b BY <2>2 DEF Assets
      <3>2. m \notin job.batch
        BY <1>1, <1>2, <2>1, <3>1 DEF IInv, IdsBounded
      <3>3. m \in stream' BY <3>1, <3>2 DEF Mark, Commands
      <3> QED BY <3>1, <3>3 DEF Assets
    <2>3. CASE b \in {producer[q] : q \in Producer} BY <2>1, <2>3
    <2> QED BY <2>1, <2>2, <2>3 DEF IInv, LockIsBacked
  <1>4. faults' \in 0..MaxFaults /\ producer' \in [Producer -> Asset \cup {Null}]
    BY DEF Mark, IInv, TypeOK
  <1> QED BY <1>1, <1>3, <1>4, RunEnds DEF Mark

-----------------------------------------------------------------------------
(* The tasks, and failures.                                                *)

(* A step that leaves the stream and the run alone.                        *)
LEMMA Aside ==
  ASSUME IInv, TypeOK', LockIsBacked', UNCHANGED <<stream, lastId, job, handed>>
  PROVE  IInv'
  BY DEF IInv, IdsBounded, BatchIsOldest, NothingDropped, HandedInOrder, Ids

LEMMA FaultCounts ==
  ASSUME IInv, Fault PROVE faults' \in 0..MaxFaults /\ LockIsBacked'
  <1>1. faults \in 0..MaxFaults /\ MaxFaults \in Nat
    BY StreamAssumption DEF IInv, TypeOK
  <1>2. faults' \in 0..MaxFaults /\ faults' # 0 BY <1>1 DEF Fault
  <1> QED BY <1>2 DEF LockIsBacked

LEMMA StepTask ==
  ASSUME IInv, NEW i \in tasks, TaskEnds(i) \/ TaskFails(i) PROVE IInv'
  <1>1. CASE TaskEnds(i)
    <2>1. TypeOK' BY <1>1 DEF TaskEnds, IInv, TypeOK
    <2>2. LockIsBacked' BY <1>1 DEF TaskEnds, IInv, LockIsBacked, Assets
    <2> QED BY <1>1, <2>1, <2>2, Aside DEF TaskEnds
  <1>2. CASE TaskFails(i)
    <2>1. faults' \in 0..MaxFaults /\ LockIsBacked' BY <1>2, FaultCounts DEF TaskFails
    <2>2. TypeOK' BY <1>2, <2>1 DEF TaskFails, IInv, TypeOK
    <2> QED BY <1>2, <2>1, <2>2, Aside DEF TaskFails
  <1> QED BY <1>1, <1>2

LEMMA StepAddFails ==
  ASSUME IInv, NEW p \in Producer, AddFails(p) PROVE IInv'
  <1>1. faults' \in 0..MaxFaults /\ LockIsBacked' BY FaultCounts DEF AddFails
  <1>2. TypeOK' BY <1>1 DEF AddFails, IInv, TypeOK
  <1> QED BY <1>1, <1>2, Aside DEF AddFails

LEMMA StepRunEnds == ASSUME IInv, RunFails \/ Crash PROVE IInv'
  <1>1. faults' \in 0..MaxFaults /\ LockIsBacked'
    BY FaultCounts DEF RunFails, Crash
  <1>2. PICK removed, released \in 0..lastId : Commands(removed, released)
    BY DEF RunFails, Crash, SomeCommands
  <1>3. /\ job' = Idle /\ tasks' \subseteq tasks /\ UNCHANGED <<lastId, handed, done>>
        /\ producer' \in [Producer -> Asset \cup {Null}]
    BY DEF RunFails, Crash, IInv, TypeOK
  <1> QED BY <1>1, <1>2, <1>3, RunEnds

LEMMA StepPreserves == IInv /\ [Next]_vars => IInv'
  <1> SUFFICES ASSUME IInv, [Next]_vars PROVE IInv' OBVIOUS
  <1>1. CASE UNCHANGED vars
    <2>1. TypeOK' /\ LockIsBacked'
      BY <1>1 DEF vars, IInv, TypeOK, LockIsBacked, Assets
    <2> QED BY <1>1, <2>1, Aside DEF vars
  <1> QED
    BY <1>1, StepLock, StepAdd, StepKeys, StepFetch, StepReread, StepMark, StepTask,
       StepAddFails, StepRunEnds DEF Next

LEMMA Invariance == Spec => []IInv
  BY InitEstablishes, StepPreserves, PTL DEF Spec

-----------------------------------------------------------------------------
(* Every variable keeps its type.                                          *)
THEOREM TypeCorrectness == Spec => []TypeOK
  <1>1. IInv => TypeOK BY DEF IInv
  <1> QED BY <1>1, Invariance, PTL

(* A message leaves the stream only after a metadata task was started for  *)
(* it (redis.service.ts:137-154, scheduling.service.ts:184-201).           *)
THEOREM Delivered == Spec => []NothingDropped
  <1>1. IInv => NothingDropped BY DEF IInv
  <1> QED BY <1>1, Invariance, PTL

(* Messages are handed out in the order they were added.                   *)
THEOREM FirstInFirstOut == Spec => []HandedInOrder
  <1>1. IInv => HandedInOrder BY DEF IInv
  <1> QED BY <1>1, Invariance, PTL

(* Without faults, the key that locks an asset out of the stream has a     *)
(* message, or a producer about to add one, behind it.                     *)
THEOREM LocksBacked == Spec => []LockIsBacked
  <1>1. IInv => LockIsBacked BY DEF IInv
  <1> QED BY <1>1, Invariance, PTL
-----------------------------------------------------------------------------
(* Refinement: the numbers of the messages behave as AtLeastOnce.          *)

(* A set of messages that is closed downwards has a batch of numbers.      *)
LEMMA BatchOfNumbers ==
  ASSUME NEW B, B \subseteq stream,
         \A m \in B : \A x \in stream : x.id < m.id => x \in B
  PROVE  Numbers!Oldest(Ids(B)) /\ Ids(B) \in SUBSET Ids(stream)
  BY DEF Numbers!Oldest, Ids

LEMMA InitNumbers == Init => Numbers!Init
  BY DEF Init, Numbers!Init, Ids

LEMMA AddNumbers == ASSUME IInv, NEW p \in Producer, Add(p) PROVE Numbers!Add
  <1> DEFINE new == [id |-> lastId', asset |-> producer[p]]
  <1>1. stream' = stream \cup {new} /\ new.id = lastId' BY DEF Add
  <1> HIDE DEF new
  <1>2. Ids(stream)' = Ids(stream) \cup {lastId'} BY <1>1 DEF Ids
  <1> QED BY <1>2 DEF Add, Numbers!Add

LEMMA FetchNumbers == ASSUME IInv, Fetch PROVE Numbers!Next
  <1> DEFINE batch == Oldest(ChunkSize)
  <1>1. /\ batch \subseteq stream /\ stream \subseteq Message
        /\ \A m \in batch : \A x \in stream : x.id <= m.id => x \in batch
    BY OldestIsPrefix, StreamAssumption DEF IInv, TypeOK, IdsBounded
  <1>2. handed' = handed \cup Ids(batch) /\ stream' = stream /\ lastId' = lastId
    BY DEF Fetch
  <1> HIDE DEF batch
  <1>3. \A m \in batch : \A x \in stream : x.id < m.id => x \in batch
    BY <1>1 DEF Message
  <1>4. Numbers!Oldest(Ids(batch)) /\ Ids(batch) \in SUBSET Ids(stream)
    BY <1>1, <1>3, BatchOfNumbers
  <1>5. Numbers!Start(Ids(batch)) BY <1>2, <1>4 DEF Numbers!Start, Ids
  <1> QED BY <1>4, <1>5 DEF Numbers!Next

(* However many of the XDELs get through, what they remove is oldest and   *)
(* was started.                                                            *)
LEMMA CommandsNumbers ==
  ASSUME IInv, NEW removed \in 0..lastId, NEW released, Commands(removed, released),
         UNCHANGED <<lastId, handed>>
  PROVE  Numbers!Next
  <1> DEFINE gone == {m \in job.batch : m.id <= removed}
  <1>1. /\ gone \subseteq stream /\ Ids(gone) \subseteq handed /\ stream \subseteq Message
        /\ lastId \in Nat /\ removed \in Nat
    BY StreamAssumption DEF IInv, TypeOK, BatchIsOldest, Ids
  <1>2. \A m \in gone : \A x \in stream : x.id <= m.id => x \in gone
    BY <1>1 DEF IInv, BatchIsOldest, Message
  <1>3. stream' = stream \ gone BY DEF Commands
  <1> HIDE DEF gone
  <1>4. \A m \in gone : \A x \in stream : x.id < m.id => x \in gone
    BY <1>1, <1>2 DEF Message
  <1>5. Numbers!Oldest(Ids(gone)) /\ Ids(gone) \in SUBSET Ids(stream)
    BY <1>1, <1>4, BatchOfNumbers
  <1>6. Ids(stream)' = Ids(stream) \ Ids(gone)
    <2>1. ASSUME NEW x \in stream, x \notin gone PROVE x.id \notin Ids(gone)
      BY <1>1, <1>2, <2>1 DEF Ids, Message
    <2> QED BY <1>1, <1>3, <2>1 DEF Ids
  <1>7. Numbers!Remove(Ids(gone)) BY <1>1, <1>5, <1>6 DEF Numbers!Remove
  <1> QED BY <1>5, <1>7 DEF Numbers!Next

LEMMA StepNumbers == IInv /\ [Next]_vars => [Numbers!Next]_(Numbers!vars)
  <1> SUFFICES ASSUME IInv, [Next]_vars PROVE [Numbers!Next]_(Numbers!vars) OBVIOUS
  <1>1. ASSUME UNCHANGED <<stream, lastId, handed>> PROVE UNCHANGED Numbers!vars
    BY <1>1 DEF Numbers!vars, Ids
  <1>2. CASE UNCHANGED vars BY <1>1, <1>2 DEF vars
  <1>3. \A p \in Producer :
          (\E a \in Asset : Lock(p, a)) \/ AddFails(p) => UNCHANGED Numbers!vars
    BY <1>1 DEF Lock, AddFails
  <1>4. Tick \/ (\E a \in Asset : SkipDuplicate(a)) \/ Reread => UNCHANGED Numbers!vars
    BY <1>1 DEF Tick, SkipDuplicate, Reread
  <1>5. \A i \in tasks : TaskEnds(i) \/ TaskFails(i) => UNCHANGED Numbers!vars
    BY <1>1 DEF TaskEnds, TaskFails
  <1>6. CASE Mark \/ RunFails \/ Crash
    <2>1. \E removed \in 0..lastId : \E released \in 0..lastId : Commands(removed, released)
      BY <1>6, StreamAssumption DEF Mark, RunFails, Crash, SomeCommands, IInv, TypeOK
    <2>2. UNCHANGED <<lastId, handed>> BY <1>6 DEF Mark, RunFails, Crash
    <2> QED BY <2>1, <2>2, CommandsNumbers
  <1>7. ASSUME NEW p \in Producer, Add(p) PROVE Numbers!Next
    BY <1>7, AddNumbers DEF Numbers!Next
  <1> QED BY <1>2, <1>3, <1>4, <1>5, <1>6, <1>7, FetchNumbers DEF Next

(* For any messages, chunk size and faults, the stream delivers at least   *)
(* once and oldest first, although a run reads the stream twice and its    *)
(* commands may get through in part.                                       *)
THEOREM Refinement == Spec => DeliversInOrder
  <1>1. Init => Numbers!Init BY InitNumbers
  <1>2. IInv /\ [Next]_vars => [Numbers!Next]_(Numbers!vars) BY StepNumbers
  <1> QED BY <1>1, <1>2, Invariance, PTL DEF Spec, DeliversInOrder, Numbers!Spec
=============================================================================
