---------------------------- MODULE LaneLockProofs ----------------------------
(***************************************************************************)
(* What the lane lock guarantees for any number of processes: with any     *)
(* crashes and stalls, the owner file of a live holder stays; without      *)
(* them, the lock is exclusive.                                            *)
(***************************************************************************)
EXTENDS LaneLock, TLAPS

LEMMA TypeStep == TypeOK /\ [Next]_vars => TypeOK'
<1> SUFFICES ASSUME TypeOK, [Next]_vars PROVE TypeOK'
  OBVIOUS
<1> USE DEF TypeOK, Steps, Goes
<1>1. ASSUME NEW p \in Processes, Start(p) PROVE TypeOK'
  BY <1>1 DEF Start
<1>2. ASSUME NEW p \in Processes, Mkdir(p) PROVE TypeOK'
  BY <1>2 DEF Mkdir
<1>3. ASSUME NEW p \in Processes, List(p) PROVE TypeOK'
  BY <1>3 DEF List
<1>4. ASSUME NEW p \in Processes, Stat(p) PROVE TypeOK'
  BY <1>4 DEF Stat, NextRound
<1>5. ASSUME NEW p \in Processes, Reap(p) PROVE TypeOK'
  BY <1>5 DEF Reap
<1>6. ASSUME NEW p \in Processes, Rmdir(p) PROVE TypeOK'
  BY <1>6 DEF Rmdir, NextRound
<1>7. ASSUME NEW p \in Processes, Own(p) PROVE TypeOK'
  BY <1>7 DEF Own
<1>8. ASSUME NEW p \in Processes, ReleaseOwner(p) \/ ReleaseDir(p) PROVE TypeOK'
  BY <1>8 DEF ReleaseOwner, ReleaseDir
<1>9. ASSUME NEW p \in Processes, Kill(p) PROVE TypeOK'
  BY <1>9 DEF Kill
<1>10. CASE Age
  BY <1>10 DEF Age
<1>11. CASE UNCHANGED vars
  BY <1>11 DEF vars
<1> QED BY <1>1, <1>2, <1>3, <1>4, <1>5, <1>6, <1>7, <1>8, <1>9, <1>10, <1>11
           DEF Next, Call

\* Every reachable state of the lock is well typed.
THEOREM LockTyped == Spec => []TypeOK
<1>1. Init => TypeOK
  BY DEF Init, TypeOK, Steps
<1> QED BY <1>1, TypeStep, PTL DEF Spec

-----------------------------------------------------------------------------
KeptInv == LiveOwnerKept /\ OnlyDeadReaped

LEMMA KeptStep == TypeOK /\ KeptInv /\ [Next]_vars => KeptInv'
<1> SUFFICES ASSUME TypeOK, KeptInv, [Next]_vars PROVE KeptInv'
  OBVIOUS
<1> USE DEF TypeOK, Steps, Goes, KeptInv, LiveOwnerKept, OnlyDeadReaped, Holds
<1>1. ASSUME NEW p \in Processes, Start(p) PROVE KeptInv'
  BY <1>1 DEF Start
<1>2. ASSUME NEW p \in Processes, Mkdir(p) PROVE KeptInv'
  BY <1>2 DEF Mkdir
<1>3. ASSUME NEW p \in Processes, List(p) PROVE KeptInv'
  BY <1>3 DEF List, AnyAlive
<1>4. ASSUME NEW p \in Processes, Stat(p) PROVE KeptInv'
  BY <1>4 DEF Stat, NextRound
<1>5. ASSUME NEW p \in Processes, Reap(p) PROVE KeptInv'
  BY <1>5 DEF Reap
<1>6. ASSUME NEW p \in Processes, Rmdir(p) PROVE KeptInv'
  BY <1>6 DEF Rmdir, NextRound
<1>7. ASSUME NEW p \in Processes, Own(p) PROVE KeptInv'
  BY <1>7 DEF Own
<1>8. ASSUME NEW p \in Processes, ReleaseOwner(p) PROVE KeptInv'
  BY <1>8 DEF ReleaseOwner
<1>9. ASSUME NEW p \in Processes \ dead, ReleaseDir(p) PROVE KeptInv'
  BY <1>9 DEF ReleaseDir
<1>10. ASSUME NEW p \in Processes, Kill(p) PROVE KeptInv'
  BY <1>10 DEF Kill
<1>11. CASE Age
  BY <1>11 DEF Age
<1>12. CASE UNCHANGED vars
  BY <1>12 DEF vars
<1> QED BY <1>1, <1>2, <1>3, <1>4, <1>5, <1>6, <1>7, <1>8, <1>9, <1>10, <1>11,
           <1>12 DEF Next, Call

\* However many processes crash or stall in claimLane, nobody takes the owner
\* file of a live holder away.
THEOREM OwnerKept == Spec => []LiveOwnerKept
<1>1. Init => KeptInv
  BY DEF Init, KeptInv, LiveOwnerKept, OnlyDeadReaped, Holds
<1>2. KeptInv => LiveOwnerKept
  BY DEF KeptInv
<1> QED BY <1>1, <1>2, KeptStep, LockTyped, PTL DEF Spec

-----------------------------------------------------------------------------
Quiet == dead = {} /\ stalled = "no"

LEMMA QuietStep ==
  TypeOK /\ (Quiet => NobodyReaps) /\ [Next]_vars => (Quiet => NobodyReaps)'
<1> SUFFICES ASSUME TypeOK, Quiet => NobodyReaps, [Next]_vars, Quiet'
             PROVE  NobodyReaps'
  OBVIOUS
<1>0. dead = {} /\ stalled = "no" /\ NobodyReaps
  <2>1. (dead' = dead \/ \E p \in Processes : dead' = dead \cup {p})
        /\ (stalled' = stalled \/ stalled' = "yes")
    BY DEF Next, Call, Start, Mkdir, List, Stat, Reap, Rmdir, Own, ReleaseOwner,
           ReleaseDir, Kill, Age, vars
  <2> QED BY <2>1 DEF Quiet
<1> USE <1>0 DEF TypeOK, Goes, NobodyReaps, Inside
<1>1. ASSUME NEW p \in Processes, Start(p) PROVE NobodyReaps'
  BY <1>1 DEF Start
<1>2. ASSUME NEW p \in Processes, Mkdir(p) PROVE NobodyReaps'
  BY <1>2 DEF Mkdir
<1>3. ASSUME NEW p \in Processes, List(p) PROVE NobodyReaps'
  BY <1>3 DEF List, AnyAlive
<1>4. ASSUME NEW p \in Processes, Stat(p) PROVE NobodyReaps'
  BY <1>4 DEF Stat, NextRound
<1>5. ASSUME NEW p \in Processes, Reap(p) \/ Rmdir(p) PROVE FALSE
  BY <1>5 DEF Reap, Rmdir
<1>6. ASSUME NEW p \in Processes, Own(p) PROVE NobodyReaps'
  BY <1>6 DEF Own
<1>7. ASSUME NEW p \in Processes, ReleaseOwner(p) PROVE NobodyReaps'
  BY <1>7 DEF ReleaseOwner
<1>8. ASSUME NEW p \in Processes, ReleaseDir(p) PROVE NobodyReaps'
  BY <1>8 DEF ReleaseDir
<1>9. ASSUME NEW p \in Processes, Kill(p) PROVE FALSE
  BY <1>9 DEF Kill, Quiet
<1>10. CASE Age
  <2>1. \A p \in Processes : pc[p] \in {"idle", "held"}
    BY <1>10 DEF Age, Calling, Quiet
  <2> QED BY <1>10, <2>1 DEF Age
<1>11. CASE UNCHANGED vars
  BY <1>11 DEF vars
<1> QED BY <1>1, <1>2, <1>3, <1>4, <1>5, <1>6, <1>7, <1>8, <1>9, <1>10, <1>11
           DEF Next, Call

\* Until a process is killed, and while none takes a minute inside claimLane,
\* at most one process holds a lane, whatever the interleaving of the file
\* system calls of any number of processes.
THEOREM QuietLockExclusive == Spec => []QuietExclusive
<1>1. Init => (Quiet => NobodyReaps)
  BY DEF Init, NobodyReaps, Inside
<1>2. (Quiet => NobodyReaps) => QuietExclusive
  BY DEF Quiet, NobodyReaps, QuietExclusive, LaneExclusive, Inside, Holds
<1> QED BY <1>1, <1>2, QuietStep, LockTyped, PTL DEF Spec

==============================================================================
