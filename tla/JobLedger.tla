------------------------------ MODULE JobLedger ------------------------------
(***************************************************************************)
(* What the queue promises about its jobs, whatever becomes of the workers *)
(* that drain it: a job is in one worker's hands at a time and not in more *)
(* hands than allowed together, only those hands confirm its work, each    *)
(* source and segment once, and its output appears once, when all of it is *)
(* confirmed.                                                              *)
(***************************************************************************)
EXTENDS Naturals, FiniteSets

CONSTANTS Jobs, Workers, Sources, Manifest, Segments, Concurrency

VARIABLES
  holder,       \* the workers whose writes each job accepts
  done,         \* the sources of each job that are confirmed
  segs,         \* the confirmed segments of each source
  published     \* the jobs whose output is published

vars == <<holder, done, segs, published>>

Init ==
  /\ holder = [j \in Jobs |-> {}]
  /\ done = [j \in Jobs |-> {}]
  /\ segs = [j \in Jobs |-> [s \in Sources |-> 0]]
  /\ published = {}

Held == {j \in Jobs : holder[j] # {}}

Grant(w, j) ==
  /\ j \notin Held \cup published
  /\ \A i \in Held : w \notin holder[i]
  /\ Cardinality(Held) < Concurrency
  /\ holder' = [holder EXCEPT ![j] = {w}]
  /\ UNCHANGED <<done, segs, published>>

\* Time, an operator, a failure or a crash takes jobs out of every hand.
Withdraw(S) ==
  /\ holder' = [j \in Jobs |-> IF j \in S THEN {} ELSE holder[j]]
  /\ UNCHANGED <<done, segs, published>>

ConfirmSegment(w, j, s) ==
  /\ w \in holder[j]
  /\ s \in Manifest[j] \ done[j]
  /\ segs[j][s] < Segments[s]
  /\ segs' = [segs EXCEPT ![j][s] = @ + 1]
  /\ UNCHANGED <<holder, done, published>>

\* A source that needs one call is confirmed by it, a longer one by its last
\* segment.
Confirm(w, j, S) ==
  /\ w \in holder[j]
  /\ S \subseteq Manifest[j] \ done[j]
  /\ \A s \in S : Segments[s] > 1 => segs[j][s] = Segments[s]
  /\ done' = [done EXCEPT ![j] = @ \cup S]
  /\ UNCHANGED <<holder, segs, published>>

Publish(w, j) ==
  /\ w \in holder[j]
  /\ done[j] = Manifest[j]
  /\ published' = published \cup {j}
  /\ holder' = [holder EXCEPT ![j] = {}]
  /\ UNCHANGED <<done, segs>>

Next ==
  \/ \E S \in SUBSET Jobs : Withdraw(S)
  \/ \E w \in Workers, j \in Jobs :
       \/ Grant(w, j)
       \/ \E s \in Manifest[j] : ConfirmSegment(w, j, s)
       \/ \E S \in SUBSET Manifest[j] : Confirm(w, j, S)
       \/ Publish(w, j)

Spec == Init /\ [][Next]_vars

==============================================================================
