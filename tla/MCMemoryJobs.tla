---------------------------- MODULE MCMemoryJobs ----------------------------
(***************************************************************************)
(* Small instances of MemoryJobs.  All have two workers that write the     *)
(* same default worker id.  One job whose source needs two segments        *)
(* exercises leases, budget and checkpoints; two jobs of one group with    *)
(* overlapping manifests (the second was planned after another memory      *)
(* arrived, which needs two segments) exercise takeovers within the        *)
(* concurrency limit and the order of publication.                         *)
(***************************************************************************)
EXTENDS MemoryJobs, TLC

MCLeaseSources == {"long"}
MCLeaseJobs == 1..1
MCLeaseManifest == [j \in MCLeaseJobs |-> MCLeaseSources]
MCLeaseSegments == [s \in MCLeaseSources |-> 2]
MCOrderSources == {"first", "second"}
MCOrderJobs == 1..2
MCOrderManifest ==
  [j \in MCOrderJobs |-> IF j = 1 THEN {"first"} ELSE MCOrderSources]
MCOrderSegments ==
  [s \in MCOrderSources |-> IF s = "second" THEN 2 ELSE 1]
MCGroup == [j \in Jobs |-> "day"]
MCWorkerId == [w \in Workers |-> "local-memory-worker"]

\* Bound of the two jobs: three claims or interruptions in all, so that one job
\* is taken over and both are published, and one change of the world.
MCFewTurns ==
  /\ job[1].fence + job[2].fence <= 3
  /\ Cardinality(gone) + Cardinality(rescheduled) + (IF projectLive THEN 0 ELSE 1) <= 1

MCSymmetry == Permutations(Workers)

=============================================================================
