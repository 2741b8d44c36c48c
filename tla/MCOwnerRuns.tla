----------------------------- MODULE MCOwnerRuns -----------------------------
(***************************************************************************)
(* A small instance of OwnerRuns: two server processes and one run of two  *)
(* jobs, the second with a source that needs two model calls, under a      *)
(* budget of two calls.                                                    *)
(***************************************************************************)
EXTENDS OwnerRuns

MCJobs == 1..2
MCSources == {"short", "long"}
MCManifest == [j \in MCJobs |-> IF j = 1 THEN {"short"} ELSE {"long"}]
MCGroup == [j \in MCJobs |-> j]
MCSegments == [s \in MCSources |-> IF s = "long" THEN 2 ELSE 1]
MCWorkerId == [w \in Workers |-> w]  \* owner-<process id>
MCRunOf == [j \in MCJobs |-> 1]
=============================================================================
