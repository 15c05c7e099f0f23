----------------------------- MODULE SerialJobs -----------------------------
(***************************************************************************)
(* What @PreventOverlap promises the scheduled jobs: calls stand in one    *)
(* line, are served strictly in the order they were made, one at a time,   *)
(* and none leaves the line except by having been served.                  *)
(***************************************************************************)
EXTENDS Sequences

CONSTANT Call

VARIABLE line   \* calls made and not yet served, oldest first

Init == line = <<>>

Join(c) ==
  /\ \A i \in DOMAIN line : line[i] # c
  /\ line' = Append(line, c)

Serve ==
  /\ line # <<>>
  /\ line' = Tail(line)

Next == Serve \/ \E c \in Call : Join(c)

Spec == Init /\ [][Next]_line

(* Every call is served in the end.                                        *)
FairSpec == Spec /\ WF_line(Serve)
=============================================================================
