----------------------------- MODULE MCUpdates -----------------------------
(***************************************************************************)
(* An event and a transaction of one method; an upload of its ABI by the   *)
(* admin process, and another one after it.                                *)
(***************************************************************************)
EXTENDS Updates, TLC

CONSTANTS e, x, m1, m2, u1, u2

MCMethodOf == (e :> m1) @@ (x :> m1)
MCIsEvent == (e :> TRUE) @@ (x :> FALSE)
MCUploads == [u \in Upload |-> IF u = u1 THEN m1 ELSE m2]
MCArity == [m \in Method |-> 1]
=============================================================================
