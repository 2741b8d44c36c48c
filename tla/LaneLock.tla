------------------------------- MODULE LaneLock -------------------------------
(***************************************************************************)
(* The lane lock of the outbox: claimLane of sync-protocol.mjs.  A lane is *)
(* locked by a directory that holds one file named after the pid of its    *)
(* owner.  Every action is one call to the file system; the calls of       *)
(* several processes interleave, and a process may be killed between two   *)
(* of them.                                                                *)
(***************************************************************************)
EXTENDS Naturals, FiniteSets

CONSTANTS
  Processes,    \* the processes that flush one data directory
  MaxCrashes    \* bound: processes that are killed

ASSUME ProcessesAssumption == IsFiniteSet(Processes)
ASSUME CrashAssumption == MaxCrashes \in Nat

VARIABLES
  dir,          \* the lock directory: absent, or modified less or more than
                \* 60 seconds ago
  owners,       \* the owner files in it, by the process that wrote them
  pc,           \* where each process is in claimLane and in its release
  seen,         \* the dead owners a process listed and still has to unlink
  retry,        \* the loop counter of claimLane
  dead,         \* processes that were killed
  stalled       \* has a minute passed while a process was inside a call

vars == <<dir, owners, pc, seen, retry, dead, stalled>>

Steps == {"idle", "mkdir", "list", "stat", "reap", "rmdir", "own", "held", "release"}

TypeOK ==
  /\ dir \in {"absent", "fresh", "old"}
  /\ owners \in SUBSET Processes
  /\ pc \in [Processes -> Steps]
  /\ seen \in [Processes -> SUBSET Processes]
  /\ retry \in [Processes -> 0..1]
  /\ dead \in SUBSET Processes
  /\ stalled \in {"no", "yes"}

Init ==
  /\ dir = "absent"
  /\ owners = {}
  /\ pc = [p \in Processes |-> "idle"]
  /\ seen = [p \in Processes |-> {}]
  /\ retry = [p \in Processes |-> 0]
  /\ dead = {}
  /\ stalled = "no"

-----------------------------------------------------------------------------
Goes(p, step) == pc' = [pc EXCEPT ![p] = step]

\* claimLane is called.
Start(p) ==
  /\ pc[p] = "idle"
  /\ Goes(p, "mkdir")
  /\ retry' = [retry EXCEPT ![p] = 0]
  /\ UNCHANGED <<dir, owners, seen, dead, stalled>>

\* mkdirSync(directory), which fails with EEXIST while the directory exists.
Mkdir(p) ==
  /\ pc[p] = "mkdir"
  /\ \/ dir = "absent" /\ dir' = "fresh" /\ Goes(p, "own")
     \/ dir # "absent" /\ Goes(p, "list") /\ UNCHANGED dir
  /\ UNCHANGED <<owners, seen, retry, dead, stalled>>

\* Fault: live owners are reaped as well.
AnyAliveNever(names) == FALSE
\* Fault: whoever wrote an owner file is taken to be alive.
AnyAliveAlways(names) == names # {}
\* alive(pid) for some owner.
AnyAlive(names) == \E q \in names : q \notin dead

\* readdirSync(directory) and the test of the listed pids.
List(p) ==
  /\ pc[p] = "list"
  /\ \/ dir = "absent" /\ Goes(p, "idle") /\ UNCHANGED seen
     \/ dir # "absent" /\ owners = {} /\ Goes(p, "stat") /\ UNCHANGED seen
     \/ owners # {} /\ AnyAlive(owners) /\ Goes(p, "idle") /\ UNCHANGED seen
     \/ /\ owners # {} /\ ~AnyAlive(owners)
        /\ Goes(p, "reap")
        /\ seen' = [seen EXCEPT ![p] = owners]
  /\ UNCHANGED <<dir, owners, retry, dead, stalled>>

\* Fault: the loop has no end.
NextRoundAlways(p) == Goes(p, "mkdir") /\ retry' = [retry EXCEPT ![p] = @ + 1]
\* The loop's second and last round, or the end of it.
NextRound(p) ==
  IF retry[p] = 0
  THEN Goes(p, "mkdir") /\ retry' = [retry EXCEPT ![p] = 1]
  ELSE Goes(p, "idle") /\ UNCHANGED retry

\* Fault: an empty directory is taken away at once.
StatAtOnce(p) ==
  /\ pc[p] = "stat"
  /\ IF dir = "absent" THEN NextRound(p) ELSE Goes(p, "rmdir") /\ UNCHANGED retry
  /\ UNCHANGED <<dir, owners, seen, dead, stalled>>
\* statSync(directory): an empty directory is given a minute to get its owner.
Stat(p) ==
  /\ pc[p] = "stat"
  /\ \/ dir = "absent" /\ NextRound(p)
     \/ dir = "fresh" /\ Goes(p, "idle") /\ UNCHANGED retry
     \/ dir = "old" /\ Goes(p, "rmdir") /\ UNCHANGED retry
  /\ UNCHANGED <<dir, owners, seen, dead, stalled>>

\* unlinkSync of one listed owner; ENOENT is ignored.
Reap(p) ==
  /\ pc[p] = "reap"
  /\ \E q \in seen[p] :
       /\ owners' = owners \ {q}
       /\ seen' = [seen EXCEPT ![p] = @ \ {q}]
       /\ dir' = IF q \in owners THEN "fresh" ELSE dir
       /\ Goes(p, IF seen[p] = {q} THEN "rmdir" ELSE "reap")
  /\ UNCHANGED <<retry, dead, stalled>>

\* rmdirSync(directory), which fails unless the directory exists and is empty.
Rmdir(p) ==
  /\ pc[p] = "rmdir"
  /\ \/ /\ dir # "absent" /\ owners = {}
        /\ dir' = "absent"
        /\ NextRound(p)
     \/ /\ dir = "absent" \/ owners # {}
        /\ Goes(p, "idle")
        /\ UNCHANGED <<dir, retry>>
  /\ UNCHANGED <<owners, seen, dead, stalled>>

\* writeFileSync(owner), which throws when the directory is gone.
Own(p) ==
  /\ pc[p] = "own"
  /\ \/ /\ dir # "absent"
        /\ owners' = owners \cup {p}
        /\ dir' = "fresh"
        /\ Goes(p, "held")
     \/ dir = "absent" /\ Goes(p, "idle") /\ UNCHANGED <<dir, owners>>
  /\ UNCHANGED <<seen, retry, dead, stalled>>

\* The function claimLane returned: unlinkSync(owner), then rmdirSync.  If the
\* first fails with ENOENT the second is not reached.
ReleaseOwner(p) ==
  /\ pc[p] = "held"
  /\ owners' = owners \ {p}
  /\ dir' = IF p \in owners THEN "fresh" ELSE dir
  /\ Goes(p, IF p \in owners THEN "release" ELSE "idle")
  /\ UNCHANGED <<seen, retry, dead, stalled>>
ReleaseDir(p) ==
  /\ pc[p] = "release"
  /\ dir' = IF owners = {} THEN "absent" ELSE dir
  /\ Goes(p, "idle")
  /\ UNCHANGED <<owners, seen, retry, dead, stalled>>

Kill(p) ==
  /\ Cardinality(dead) < MaxCrashes
  /\ dead' = dead \cup {p}
  /\ UNCHANGED <<dir, owners, pc, seen, retry, stalled>>

\* A minute passes, which is long for a process that is inside a call.
Calling(p) == p \notin dead /\ pc[p] \notin {"idle", "held"}
Age ==
  /\ dir = "fresh"
  /\ dir' = "old"
  /\ stalled' = IF \E p \in Processes : Calling(p) THEN "yes" ELSE stalled
  /\ UNCHANGED <<owners, pc, seen, retry, dead>>

-----------------------------------------------------------------------------
Call(p) ==
  \/ Mkdir(p) \/ List(p) \/ Stat(p) \/ Reap(p) \/ Rmdir(p) \/ Own(p)
  \/ ReleaseOwner(p) \/ ReleaseDir(p)
Next ==
  \/ \E p \in Processes \ dead : Start(p) \/ Call(p) \/ Kill(p)
  \/ Age

Spec == Init /\ [][Next]_vars

\* A process finishes what it began, a flush is tried again and again, and
\* time passes.
FairSpec ==
  /\ Spec
  /\ \A p \in Processes : WF_vars(p \notin dead /\ Start(p))
  /\ \A p \in Processes : WF_vars(p \notin dead /\ Call(p))
  /\ WF_vars(Age)

-----------------------------------------------------------------------------
(* Properties *)

Holds(p) == p \notin dead /\ pc[p] = "held"

\* Two live processes never flush the same lane (flushQueue relies on it, and
\* acceptance test Q-12: a live lock is not stolen).  claimLane only promises
\* it for processes that take less than a minute to write their owner file.
LaneExclusive ==
  stalled = "no" => \A p, q \in Processes : Holds(p) /\ Holds(q) => p = q

\* Unless a process was killed, that is so.
QuietExclusive == dead = {} => LaneExclusive

\* Whatever is killed and however the calls interleave, nobody removes the
\* owner file of a live holder: a process that finds it backs off.
LiveOwnerKept == \A p \in Processes : Holds(p) => p \in owners /\ dir # "absent"

\* A lane whose owner was killed becomes available again: some live process
\* gets it, unless all were killed (Q-12: "dead process ownership recovers").
DeadLaneRecovers ==
  owners \cap dead # {} \/ (dir # "absent" /\ owners = {}) ~>
    \/ \E p \in Processes : Holds(p)
    \/ dead = Processes
    \/ dir = "absent"

-----------------------------------------------------------------------------
(* Inductive strengthenings (LaneLockProofs) *)

\* Only the files of killed processes are marked for removal, and the
\* directory is there while it holds files.
OnlyDeadReaped ==
  /\ \A p \in Processes : seen[p] \subseteq dead
  /\ owners # {} => dir # "absent"

\* Until a process is killed or stalls: the directory exists exactly while one
\* process is between its mkdir and its rmdir, and nobody comes to remove it.
Inside(p) == pc[p] \in {"own", "held", "release"}
NobodyReaps ==
  /\ \A p, q \in Processes : Inside(p) /\ Inside(q) => p = q
  /\ dir # "absent" <=> \E p \in Processes : Inside(p)
  /\ \A p \in Processes : p \in owners <=> pc[p] = "held"
  /\ \A p \in Processes : pc[p] \notin {"reap", "rmdir"}
  /\ dir = "old" => owners # {} /\ \A p \in Processes : pc[p] # "stat"

==============================================================================
