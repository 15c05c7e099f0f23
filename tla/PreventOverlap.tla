--------------------------- MODULE PreventOverlap ---------------------------
(***************************************************************************)
(* shared/decorators/prevent-overlap.decorator.ts.                         *)
(*                                                                         *)
(* The seven @Cron methods of SchedulingService share one module-level     *)
(* pLimit(1).  A decorated call does two things: it hands the method to    *)
(* the limiter, and it starts a 30 second timer whose promise rejects; the *)
(* caller gets whichever settles first (Promise.race).  The timer runs     *)
(* from the call, so it also covers the time spent waiting in the queue,   *)
(* and it is connected to nothing but the race: when it fires the method   *)
(* stays queued, or goes on running.                                       *)
(*                                                                         *)
(* `race` is what the caller (the @nestjs/schedule wrapper, which logs a   *)
(* rejection and goes on) has seen of its latest call.                     *)
(***************************************************************************)
EXTENDS Integers, Sequences

CONSTANT Call   \* identities of pending calls of decorated methods

VARIABLES queue, active,   \* the limiter
          race             \* the outcome of each call's Promise.race

vars == <<queue, active, race>>

Limit == INSTANCE PLimit

RaceOutcome == {"none", "pending", "settled", "timedout"}

Init ==
  /\ Limit!Init
  /\ race = [c \in Call |-> "none"]

-----------------------------------------------------------------------------
(* A cron tick calls the decorated method.                                 *)
Invoke(c) ==
  /\ race[c] # "pending"
  /\ Limit!Enqueue(c)
  /\ race' = [race EXCEPT ![c] = "pending"]

(* A regression: a limiter of its own for every decorated method.          *)
BeginUnlimited(c) ==
  /\ queue # <<>> /\ c = Head(queue)
  /\ queue' = Tail(queue)
  /\ active' = active \cup {c}
  /\ UNCHANGED race

(* The limiter starts the method when nothing else runs.                   *)
Begin(c) ==
  /\ Limit!Start(c)
  /\ UNCHANGED race

(* A regression: the method's own promise left out of the race.            *)
EndUnseen(c) ==
  /\ Limit!Settle(c)
  /\ UNCHANGED race

(* The method's promise settles; the caller sees it unless the timer won.  *)
End(c) ==
  /\ Limit!Settle(c)
  /\ race' = [race EXCEPT ![c] = IF @ = "pending" THEN "settled" ELSE @]

(* A regression: a call that times out in the queue is dropped from it.    *)
TimeoutDroppingCall(c) ==
  /\ race[c] = "pending"
  /\ race' = [race EXCEPT ![c] = "timedout"]
  /\ queue' = SelectSeq(queue, LAMBDA d : d # c)
  /\ UNCHANGED active

(* The timer fires first: the caller's promise rejects, and that is all.   *)
Timeout(c) ==
  /\ race[c] = "pending"
  /\ race' = [race EXCEPT ![c] = "timedout"]
  /\ UNCHANGED <<queue, active>>

Next == \E c \in Call : Invoke(c) \/ Begin(c) \/ End(c) \/ Timeout(c)

Spec == Init /\ [][Next]_vars

(* Microtasks run, and every method settles: each of its awaits is on an   *)
(* RPC, database or Redis client call that resolves or rejects.  Timers    *)
(* and cron ticks need no fairness.                                        *)
FairSpec ==
  /\ Spec
  /\ \A c \in Call : WF_vars(Begin(c)) /\ WF_vars(End(c))

-----------------------------------------------------------------------------
TypeOK ==
  /\ Limit!TypeOK
  /\ race \in [Call -> RaceOutcome]

(* No two decorated methods ever run at the same time, however late their  *)
(* callers' timers fired (lines 4 and 14-16).                              *)
NoOverlap == \A c, d \in active : c = d

(* A caller whose race is open always has a method that is queued or       *)
(* running behind it: it cannot wait for something that no longer exists.  *)
OpenRaceIsBacked == \A c \in Call : race[c] = "pending" => c \in Limit!Pending

(* The comment at line 21: "Set a timeout for the limited function to      *)
(* release the limit".  Once the timeout has fired, the call should no     *)
(* longer hold the limiter.  TLC refutes it: it does.                      *)
TimeoutReleasesLimit == \A c \in Call : race[c] = "timedout" => c \notin active

(* The line of calls behind the limiter: the running one, then the queue.  *)
line == IF active = {} THEN queue ELSE <<CHOOSE c \in active : TRUE>> \o queue

Serial == INSTANCE SerialJobs

(* Every call is served, in call order, one at a time, timed out or not.   *)
ServesInCallOrder == Serial!FairSpec
=============================================================================
