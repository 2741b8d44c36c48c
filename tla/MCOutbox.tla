------------------------------ MODULE MCOutbox ------------------------------
(***************************************************************************)
(* Instances of Outbox with two or three items of one session.  Either all *)
(* are events or the second is a receipt (MCMixed), and none or the first  *)
(* is broken.                                                              *)
(***************************************************************************)
EXTENDS Outbox, TLC

MCItems == 1..3
MCOneLane == [i \in Items |-> "a"]
MCEvents == [i \in Items |-> "event"]
MCMixed == [i \in Items |-> IF i = 2 THEN "receipt" ELSE "event"]
MCTwo == 1..2
MCNone == {}
MCFirst == {1}

MCSymmetry == Permutations(Processes)

=============================================================================
