------------------------ MODULE PreventOverlap_proofs ------------------------
(***************************************************************************)
(* For every set of calls: the decorated methods never overlap, no caller  *)
(* waits for a method that is gone, and calls are served one at a time in  *)
(* the order they were made, whatever the timers do.                       *)
(***************************************************************************)
EXTENDS PreventOverlap, SequenceTheorems, TLAPS

-----------------------------------------------------------------------------
(* The limiter.                                                            *)

(* A call is in the queue once, and not while its function is active.      *)
QueuedOnce ==
  /\ \A i, j \in DOMAIN queue : queue[i] = queue[j] => i = j
  /\ \A i \in DOMAIN queue : queue[i] \notin active

(* The head of a queue of calls is a waiting call, and the tail has the    *)
(* other ones.                                                             *)
LEMMA HeadOfQueue ==
  ASSUME Limit!TypeOK, queue # <<>>
  PROVE  /\ Head(queue) \in Call
         /\ Head(queue) = queue[1]
         /\ 1 \in DOMAIN queue
         /\ Head(queue) \in Limit!Waiting
         /\ Tail(queue) \in Seq(Call)
         /\ DOMAIN Tail(queue) = 1..(Len(queue) - 1)
         /\ \A i \in DOMAIN Tail(queue) :
              i + 1 \in DOMAIN queue /\ Tail(queue)[i] = queue[i + 1]
  BY HeadTailProperties DEF Limit!TypeOK, Limit!Waiting

(* The function that starts is a call, and the only active one.            *)
LEMMA StartsAlone ==
  ASSUME Limit!TypeOK, NEW c, Limit!Start(c)
  PROVE  active = {} /\ active' = {c} /\ c \in Call /\ Limit!TypeOK' /\ NoOverlap'
<1>1. active = {} /\ active' = {c} /\ c \in Call
  BY HeadOfQueue DEF Limit!Start
<1>2. Limit!TypeOK'
  BY <1>1, HeadOfQueue DEF Limit!Start, Limit!TypeOK
<1>3. QED
  BY <1>1, <1>2 DEF NoOverlap

(* What waits is the head, and what the tail holds.                        *)
LEMMA HeadAndTail ==
  ASSUME Limit!TypeOK, queue # <<>>
  PROVE  Limit!Waiting \subseteq {Head(queue)} \cup {Tail(queue)[i] : i \in DOMAIN Tail(queue)}
<1>1. SUFFICES ASSUME NEW i \in DOMAIN queue, queue[i] # Head(queue)
               PROVE  queue[i] \in {Tail(queue)[k] : k \in DOMAIN Tail(queue)}
  BY DEF Limit!Waiting
<1>2. i \in 1..Len(queue) /\ i # 1 /\ Len(queue) \in Nat
  BY <1>1, HeadOfQueue, LenProperties DEF Limit!TypeOK
<1>3. i - 1 \in DOMAIN Tail(queue) /\ (i - 1) + 1 = i
  BY <1>2, HeadOfQueue
<1>4. Tail(queue)[i - 1] = queue[i]
  BY <1>3, HeadOfQueue
<1>5. QED
  BY <1>3, <1>4

(* When a function settles it was the active one, and at most one other    *)
(* takes its place.                                                        *)
LEMMA SettlesAlone ==
  ASSUME Limit!TypeOK, NoOverlap, NEW c, Limit!Settle(c)
  PROVE  /\ active = {c}
         /\ c \in Call
         /\ active' = {} \/ \E d \in Call : active' = {d}
         /\ Limit!TypeOK'
         /\ NoOverlap'
<1>1. active = {c} /\ c \in Call
  BY DEF Limit!Settle, Limit!SettleLast, Limit!SettleAndStart, NoOverlap, Limit!TypeOK
<1>2. CASE Limit!SettleLast(c)
  BY <1>1, <1>2 DEF Limit!SettleLast, Limit!TypeOK, NoOverlap
<1>3. CASE \E d \in Limit!Waiting : Limit!SettleAndStart(c, d)
  <2>1. PICK d \in Limit!Waiting : Limit!SettleAndStart(c, d)
    BY <1>3
  <2>2. active' = {d} /\ d \in Call
    BY <1>1, <2>1, HeadOfQueue DEF Limit!SettleAndStart
  <2>3. Limit!TypeOK'
    BY <2>1, <2>2, HeadOfQueue DEF Limit!SettleAndStart, Limit!TypeOK
  <2>4. QED
    BY <1>1, <2>2, <2>3 DEF NoOverlap
<1>4. QED
  BY <1>2, <1>3 DEF Limit!Settle

(* limit(fn) leaves the active functions alone.                            *)
LEMMA EnqueueKeepsActive ==
  ASSUME Limit!TypeOK, NEW c \in Call, Limit!Enqueue(c)
  PROVE  Limit!TypeOK' /\ active' = active /\ (NoOverlap => NoOverlap')
  BY AppendProperties DEF Limit!TypeOK, Limit!Enqueue, NoOverlap

(* The queue never holds a call twice, nor one that is active.             *)
LEMMA EnqueueQueuedOnce ==
  ASSUME Limit!TypeOK, QueuedOnce, NEW c \in Call, Limit!Enqueue(c)
  PROVE  QueuedOnce'
<1>1. /\ Len(queue') = Len(queue) + 1
      /\ DOMAIN queue' = 1..(Len(queue) + 1)
      /\ DOMAIN queue = 1..Len(queue)
      /\ \A i \in 1..Len(queue) : queue'[i] = queue[i]
      /\ queue'[Len(queue) + 1] = c
      /\ Len(queue) \in Nat
  BY AppendProperties, LenProperties DEF Limit!TypeOK, Limit!Enqueue
<1>2. c \notin active /\ \A i \in 1..Len(queue) : queue[i] # c
  BY <1>1 DEF Limit!Enqueue, Limit!Pending, Limit!Waiting
<1>3. active' = active
  BY DEF Limit!Enqueue
<1>4. QED
  BY <1>1, <1>2, <1>3 DEF QueuedOnce

LEMMA StartQueuedOnce ==
  ASSUME Limit!TypeOK, QueuedOnce, NEW c, Limit!Start(c)
  PROVE  QueuedOnce'
<1>1. active' = {queue[1]} /\ queue' = Tail(queue)
  BY StartsAlone, HeadOfQueue DEF Limit!Start
<1>2. QED
  BY <1>1, HeadOfQueue, LenProperties DEF QueuedOnce, Limit!TypeOK, Limit!Start

LEMMA SettleQueuedOnce ==
  ASSUME Limit!TypeOK, NoOverlap, QueuedOnce, NEW c, Limit!Settle(c)
  PROVE  QueuedOnce'
<1>1. CASE Limit!SettleLast(c)
  BY <1>1 DEF Limit!SettleLast, QueuedOnce
<1>2. CASE \E d \in Limit!Waiting : Limit!SettleAndStart(c, d)
  <2>1. PICK d \in Limit!Waiting : Limit!SettleAndStart(c, d)
    BY <1>2
  <2>2. active' = {queue[1]} /\ queue' = Tail(queue)
    BY <2>1, SettlesAlone, HeadOfQueue DEF Limit!SettleAndStart, Limit!Settle
  <2>3. QED
    BY <2>1, <2>2, HeadOfQueue, LenProperties
       DEF QueuedOnce, Limit!TypeOK, Limit!SettleAndStart
<1>3. QED
  BY <1>1, <1>2 DEF Limit!Settle

-----------------------------------------------------------------------------
(* The inductive invariant.                                                *)

(* NoOverlap is not inductive without the types; OpenRaceIsBacked needs    *)
(* that a settling method is not queued a second time, and the refinement  *)
(* that a queued call is not the running one.                              *)
IInv ==
  /\ TypeOK
  /\ NoOverlap
  /\ QueuedOnce
  /\ OpenRaceIsBacked

LEMMA InitIInv == Init => IInv
  BY DEF Init, IInv, TypeOK, NoOverlap, QueuedOnce, OpenRaceIsBacked, Limit!Init,
         Limit!TypeOK, RaceOutcome, Limit!Pending

LEMMA InvokeIInv == ASSUME IInv, NEW c \in Call, Invoke(c) PROVE IInv'
<1> USE DEF IInv
<1>1. Limit!TypeOK /\ Limit!Enqueue(c)
  BY DEF TypeOK, Invoke, Limit!TypeOK, Limit!Enqueue, Limit!Pending, Limit!Waiting
<1>2. TypeOK'
  BY <1>1, EnqueueKeepsActive DEF TypeOK, Invoke, Limit!TypeOK, RaceOutcome
<1>3. NoOverlap'
  BY <1>1, EnqueueKeepsActive DEF NoOverlap
<1>4. QueuedOnce'
  BY <1>1, EnqueueQueuedOnce
<1>5. OpenRaceIsBacked'
  <2>1. Limit!Waiting' = Limit!Waiting \cup {c} /\ active' = active
    BY <1>1, AppendProperties, LenProperties
       DEF Invoke, Limit!Enqueue, Limit!Waiting, Limit!TypeOK
  <2>2. QED
    BY <2>1 DEF OpenRaceIsBacked, Invoke, Limit!Pending, TypeOK
<1>6. QED
  BY <1>2, <1>3, <1>4, <1>5

LEMMA BeginIInv == ASSUME IInv, NEW c \in Call, Begin(c) PROVE IInv'
<1> USE DEF IInv
<1>1. Limit!TypeOK /\ NoOverlap /\ Limit!Start(c)
  BY DEF TypeOK, Begin, Limit!TypeOK, Limit!Start, NoOverlap
<1>2. TypeOK' /\ NoOverlap'
  BY <1>1, StartsAlone
     DEF TypeOK, Begin, Limit!TypeOK, NoOverlap
<1>3. QueuedOnce'
  BY <1>1, StartQueuedOnce
<1>4. OpenRaceIsBacked'
  <2>1. Limit!Waiting \subseteq Limit!Waiting' \cup active'
    BY <1>1, HeadAndTail DEF Limit!Start, Limit!Waiting
  <2>2. active \subseteq active'
    BY <1>1 DEF Limit!Start
  <2>3. QED
    BY <2>1, <2>2 DEF OpenRaceIsBacked, Begin, Limit!Pending
<1>5. QED
  BY <1>2, <1>3, <1>4

LEMMA EndIInv == ASSUME IInv, NEW c \in Call, End(c) PROVE IInv'
<1> USE DEF IInv
<1>1. Limit!TypeOK /\ NoOverlap /\ Limit!Settle(c)
  BY DEF TypeOK, End, Limit!TypeOK, NoOverlap, Limit!Settle, Limit!SettleLast,
         Limit!SettleAndStart, Limit!Waiting
<1>2. Limit!TypeOK' /\ NoOverlap'
  BY <1>1, SettlesAlone DEF Limit!TypeOK, NoOverlap
<1>3. race' \in [Call -> RaceOutcome]
  BY DEF End, TypeOK, RaceOutcome
<1>4. QueuedOnce'
  BY <1>1, SettleQueuedOnce
<1>5. OpenRaceIsBacked'
  <2>1. Limit!Waiting \cup (active \ {c}) \subseteq Limit!Waiting' \cup active'
    <3>1. CASE Limit!SettleLast(c)
      BY <3>1 DEF Limit!SettleLast, Limit!Waiting
    <3>2. ASSUME NEW d, Limit!SettleAndStart(c, d) PROVE <2>1
      BY <1>1, <3>2, HeadAndTail DEF Limit!SettleAndStart, Limit!Waiting
    <3>3. QED
      BY <1>1, <3>1, <3>2 DEF Limit!Settle
  <2>2. \A d \in Call : race'[d] = "pending" => d # c /\ race[d] = "pending"
    BY DEF End, TypeOK, RaceOutcome
  <2>3. QED
    BY <2>1, <2>2 DEF OpenRaceIsBacked, Limit!Pending
<1>6. QED
  BY <1>2, <1>3, <1>4, <1>5 DEF TypeOK

LEMMA TimeoutIInv == ASSUME IInv, NEW c \in Call, Timeout(c) PROVE IInv'
  BY DEF IInv, TypeOK, Timeout, NoOverlap, QueuedOnce, OpenRaceIsBacked,
         Limit!TypeOK, Limit!Pending, Limit!Waiting, RaceOutcome

(* The inductive invariant holds in every reachable state.                 *)
THEOREM Invariance == Spec => []IInv
<1>1. IInv /\ [Next]_vars => IInv'
  <2>1. SUFFICES ASSUME IInv, [Next]_vars PROVE IInv'
    OBVIOUS
  <2>2. CASE UNCHANGED vars
    BY <2>1, <2>2
       DEF vars, IInv, TypeOK, NoOverlap, QueuedOnce, OpenRaceIsBacked, Limit!TypeOK,
           Limit!Pending, Limit!Waiting
  <2>3. QED
    BY <2>1, <2>2, InvokeIInv, BeginIInv, EndIInv, TimeoutIInv DEF Next
<1>2. QED
  BY <1>1, InitIInv, PTL DEF Spec

(* Decorated methods never run at the same time, for any number of calls.  *)
THEOREM Exclusion == Spec => []NoOverlap
<1>1. IInv => NoOverlap
  BY DEF IInv
<1>2. QED
  BY <1>1, Invariance, PTL

(* A caller's open race always has a queued or running method behind it.   *)
THEOREM RaceBacked == Spec => []OpenRaceIsBacked
<1>1. IInv => OpenRaceIsBacked
  BY DEF IInv
<1>2. QED
  BY <1>1, Invariance, PTL

-----------------------------------------------------------------------------
(* Refinement: `line` behaves as the line of SerialJobs.                   *)

LEMMA LineOfOne ==
  ASSUME NEW x, active = {x}
  PROVE  line = <<x>> \o queue
  BY DEF line

LEMMA LinePrime ==
  ASSUME NEW x, active' = {x}
  PROVE  line' = <<x>> \o queue'
  BY DEF line

(* Serving the head of a line leaves the rest of it.                       *)
LEMMA TailOfLine ==
  ASSUME NEW S, NEW x \in S, NEW q \in Seq(S)
  PROVE  /\ <<x>> \o q # <<>>
         /\ Tail(<<x>> \o q) = q
         /\ \A y : (\A i \in DOMAIN (<<x>> \o q) : (<<x>> \o q)[i] # y)
                 <=> y # x /\ \A i \in DOMAIN q : q[i] # y
<1>1. <<x>> \in Seq(S) /\ Len(<<x>>) = 1 /\ <<x>>[1] = x
  OBVIOUS
<1>2. /\ <<x>> \o q \in Seq(S)
      /\ Len(<<x>> \o q) = 1 + Len(q)
      /\ Len(q) \in Nat
      /\ DOMAIN q = 1..Len(q)
      /\ DOMAIN (<<x>> \o q) = 1..(1 + Len(q))
      /\ \A i \in 1..(1 + Len(q)) : (<<x>> \o q)[i] = IF i = 1 THEN x ELSE q[i - 1]
  BY <1>1, ConcatProperties, LenProperties
<1>3. <<x>> \o q # <<>>
  BY <1>2
<1>4. Tail(<<x>> \o q) = q
  BY <1>2, <1>3, HeadTailProperties, SeqEqual
<1>5. \A i \in DOMAIN q : (<<x>> \o q)[i + 1] = q[i] /\ i + 1 \in DOMAIN (<<x>> \o q)
  BY <1>2
<1>6. (<<x>> \o q)[1] = x /\ 1 \in DOMAIN (<<x>> \o q)
  BY <1>2
<1>7. \A i \in DOMAIN (<<x>> \o q) :
        i = 1 \/ (i - 1 \in DOMAIN q /\ (<<x>> \o q)[i] = q[i - 1])
  BY <1>2
<1>8. QED
  BY <1>3, <1>4, <1>5, <1>6, <1>7

(* The two ways to look at a line that grows, and at one that shifts.      *)
LEMMA AppendToLine ==
  ASSUME NEW S, NEW x \in S, NEW c \in S, NEW q \in Seq(S)
  PROVE  <<x>> \o Append(q, c) = Append(<<x>> \o q, c)
<1>1. <<x>> \in Seq(S) /\ Len(<<x>>) = 1
  OBVIOUS
<1>2. /\ <<x>> \o Append(q, c) \in Seq(S)
      /\ Append(<<x>> \o q, c) \in Seq(S)
  BY <1>1, ConcatProperties, AppendProperties
<1>3. QED
  BY <1>1, <1>2, ConcatProperties, AppendProperties, LenProperties, SeqEqual

LEMMA HeadJoinsTail ==
  ASSUME NEW S, NEW q \in Seq(S), q # <<>>
  PROVE  <<Head(q)>> \o Tail(q) = q
<1>1. Head(q) \in S /\ Tail(q) \in Seq(S) /\ Len(Tail(q)) = Len(q) - 1 /\ Len(q) \in Nat
  BY HeadTailProperties, LenProperties
<1>2. <<Head(q)>> \in Seq(S) /\ Len(<<Head(q)>>) = 1 /\ <<Head(q)>>[1] = Head(q)
  BY <1>1
<1>3. /\ <<Head(q)>> \o Tail(q) \in Seq(S)
      /\ Len(<<Head(q)>> \o Tail(q)) = Len(q)
  BY <1>1, <1>2, ConcatProperties
<1>4. ASSUME NEW i \in 1..Len(q) PROVE (<<Head(q)>> \o Tail(q))[i] = q[i]
  <2>1. (<<Head(q)>> \o Tail(q))[i] = IF i = 1 THEN Head(q) ELSE Tail(q)[i - 1]
    BY <1>1, <1>2, ConcatProperties
  <2>2. QED
    BY <2>1, HeadTailProperties, <1>1
<1>5. QED
  BY <1>3, <1>4, SeqEqual

(* A call joins the line behind the others.                                *)
LEMMA InvokeJoins == ASSUME IInv, NEW c \in Call, Invoke(c) PROVE Serial!Join(c)
<1>1. /\ queue \in Seq(Call) /\ queue' = Append(queue, c)
      /\ active' = active /\ active \subseteq Call
      /\ c \notin active /\ \A i \in DOMAIN queue : queue[i] # c
  BY DEF IInv, TypeOK, Limit!TypeOK, Invoke, Limit!Enqueue, Limit!Pending, Limit!Waiting
<1>2. CASE active = {}
  BY <1>1, <1>2 DEF line, Serial!Join
<1>3. CASE active # {}
  <2>1. PICK x : active = {x} /\ x \in Call
    BY <1>1, <1>3 DEF IInv, NoOverlap
  <2>2. line = <<x>> \o queue /\ line' = <<x>> \o Append(queue, c)
    BY <1>1, <2>1, LineOfOne, LinePrime
  <2>3. line' = Append(line, c)
    BY <1>1, <2>1, <2>2, AppendToLine
  <2>4. \A i \in DOMAIN line : line[i] # c
    BY <1>1, <2>1, <2>2, TailOfLine
  <2>5. QED
    BY <2>3, <2>4 DEF Serial!Join
<1>4. QED
  BY <1>2, <1>3

(* Starting the oldest call does not change the line.                      *)
LEMMA BeginStutters == ASSUME IInv, NEW c \in Call, Begin(c) PROVE line' = line
<1>1. /\ queue \in Seq(Call) /\ queue # <<>> /\ queue' = Tail(queue)
      /\ active = {} /\ active' = {Head(queue)}
  BY DEF IInv, TypeOK, Limit!TypeOK, Begin, Limit!Start
<1>2. line = queue
  BY <1>1 DEF line
<1>3. line' = <<Head(queue)>> \o Tail(queue)
  BY <1>1, LinePrime
<1>4. QED
  BY <1>1, <1>2, <1>3, HeadJoinsTail

(* A method that settles has been served.                                  *)
LEMMA EndServes == ASSUME IInv, NEW c \in Call, End(c) PROVE Serial!Serve
<1>1. queue \in Seq(Call) /\ active = {c}
  BY DEF IInv, TypeOK, Limit!TypeOK, NoOverlap, End, Limit!Settle, Limit!SettleLast,
         Limit!SettleAndStart
<1>2. line = <<c>> \o queue
  BY <1>1, LineOfOne
<1>3. line # <<>> /\ Tail(line) = queue
  BY <1>1, <1>2, TailOfLine
<1>4. CASE Limit!SettleLast(c)
  <2>1. queue = <<>> /\ active' = {} /\ queue' = queue
    BY <1>1, <1>4 DEF Limit!SettleLast
  <2>2. QED
    BY <1>3, <2>1 DEF line, Serial!Serve
<1>5. CASE \E d \in Limit!Waiting : Limit!SettleAndStart(c, d)
  <2>1. queue # <<>> /\ queue' = Tail(queue) /\ active' = {Head(queue)}
    BY <1>1, <1>5 DEF Limit!SettleAndStart
  <2>2. line' = <<Head(queue)>> \o Tail(queue)
    BY <2>1, LinePrime
  <2>3. QED
    BY <1>1, <1>3, <2>1, <2>2, HeadJoinsTail DEF Serial!Serve
<1>6. QED
  BY <1>4, <1>5 DEF End, Limit!Settle

(* Every call is served in call order, one at a time, and none is lost:    *)
(* the safety part of ServesInCallOrder.                                   *)
THEOREM CallOrder == Spec => Serial!Spec
<1>1. Init => Serial!Init
  BY DEF Init, Limit!Init, Serial!Init, line
<1>2. IInv /\ [Next]_vars => [Serial!Next]_line
  <2>1. SUFFICES ASSUME IInv, [Next]_vars PROVE Serial!Next \/ line' = line
    OBVIOUS
  <2>2. CASE UNCHANGED vars
    BY <2>2 DEF vars, line
  <2>3. CASE Next
    <3>1. PICK c \in Call : Invoke(c) \/ Begin(c) \/ End(c) \/ Timeout(c)
      BY <2>3 DEF Next
    <3>2. CASE Timeout(c)
      BY <3>2 DEF Timeout, line
    <3>3. QED
      BY <2>1, <3>1, <3>2, InvokeJoins, BeginStutters, EndServes DEF Serial!Next
  <2>4. QED
    BY <2>1, <2>2, <2>3
<1>3. QED
  BY <1>1, <1>2, Invariance, PTL DEF Spec, Serial!Spec
=============================================================================
