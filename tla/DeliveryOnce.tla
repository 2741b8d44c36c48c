----------------------------- MODULE DeliveryOnce -----------------------------
(***************************************************************************)
(* What the server promises about the deliveries of one Resume: at most    *)
(* one attempt at a time holds it, one completes, and after that none is   *)
(* admitted any more.                                                      *)
(***************************************************************************)
CONSTANT Attempts

VARIABLES
  holding,      \* the attempts that hold the Resume
  completed     \* the attempts that completed

vars == <<holding, completed>>

Init == holding = {} /\ completed = {}

Grant(a) ==
  /\ holding = {} /\ completed = {}
  /\ holding' = {a} /\ completed' = {}

Fail ==
  /\ holding # {} /\ holding' = {}
  /\ UNCHANGED completed

Complete ==
  /\ holding # {} /\ completed = {}
  /\ completed' = holding /\ holding' = {}

\* The declaration of a turn that was reported completed comes in last.
CompleteLate(a) ==
  /\ holding = {} /\ completed = {}
  /\ completed' = {a} /\ UNCHANGED holding

Next ==
  \/ \E a \in Attempts : Grant(a) \/ CompleteLate(a)
  \/ Fail
  \/ Complete

Spec == Init /\ [][Next]_vars

=============================================================================
