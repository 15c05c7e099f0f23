---------------------------- MODULE OncePerEvent ----------------------------
(***************************************************************************)
(* What indexEvent promises of every log: its effects are carried out by   *)
(* at most one call.  A log is claimed once; the call that claimed it      *)
(* applies it or loses it, and nothing is done about a lost one.           *)
(***************************************************************************)
VARIABLE stage   \* stage[l], for every log l

Init == \A l \in DOMAIN stage : stage[l] = "absent"

Claim(l) ==
  /\ stage[l] = "absent"
  /\ stage' = [stage EXCEPT ![l] = "claimed"]

Apply(l) ==
  /\ stage[l] = "claimed"
  /\ stage' = [stage EXCEPT ![l] = "applied"]

(* One call fails, or all of them when the process ends.                   *)
Lose(lost) ==
  /\ \A l \in lost : stage[l] = "claimed"
  /\ stage' = [l \in DOMAIN stage |-> IF l \in lost THEN "lost" ELSE stage[l]]

Next ==
  \/ \E l \in DOMAIN stage : Claim(l) \/ Apply(l)
  \/ \E lost \in SUBSET (DOMAIN stage) : Lose(lost)

Spec == Init /\ [][Next]_stage
=============================================================================
