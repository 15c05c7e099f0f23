------------------------------- MODULE PLimit -------------------------------
(***************************************************************************)
(* The p-limit library (3.1.0), as shared/decorators/prevent-overlap       *)
(* .decorator.ts uses it, with a concurrency of 1: `limit(fn)` puts fn on  *)
(* a FIFO queue; a queued function starts when none is active; when the    *)
(* active one settles, resolved or rejected, the next one starts in the    *)
(* same turn of the event loop.  Nothing ever leaves the queue otherwise,  *)
(* and an active function is never interrupted.                            *)
(*                                                                         *)
(* Call is the set of identities a pending `limit(fn)` can have; an        *)
(* identity is free again once its function has settled.                   *)
(***************************************************************************)
EXTENDS Integers, Sequences

CONSTANT Call       \* identities of calls to limit(fn)

VARIABLES queue,    \* calls waiting to start, oldest first
          active    \* calls whose function has started and not settled

Waiting == {queue[i] : i \in DOMAIN queue}
Pending == Waiting \cup active

Init ==
  /\ queue = <<>>
  /\ active = {}

(* limit(fn): enqueue.                                                     *)
Enqueue(c) ==
  /\ c \notin Pending
  /\ queue' = Append(queue, c)
  /\ UNCHANGED active

(* The microtask that limit(fn) leaves behind: start the oldest call when  *)
(* nothing is active.                                                      *)
Start(c) ==
  /\ queue # <<>>
  /\ c = Head(queue)
  /\ active = {}
  /\ queue' = Tail(queue)
  /\ active' = {c}

(* fn's promise settles: the call leaves, and the oldest one takes over.   *)
SettleLast(c) ==
  /\ c \in active
  /\ queue = <<>>
  /\ active' = active \ {c}
  /\ UNCHANGED queue

SettleAndStart(c, d) ==
  /\ c \in active
  /\ queue # <<>>
  /\ d = Head(queue)
  /\ queue' = Tail(queue)
  /\ active' = (active \ {c}) \cup {d}

Settle(c) == SettleLast(c) \/ \E d \in Waiting : SettleAndStart(c, d)

-----------------------------------------------------------------------------
(* The type invariant of the queue, shared by the modules that use it.     *)
TypeOK ==
  /\ queue \in Seq(Call)
  /\ active \in SUBSET Call
=============================================================================
