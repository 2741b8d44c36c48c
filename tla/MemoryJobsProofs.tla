-------------------------- MODULE MemoryJobsProofs --------------------------
(***************************************************************************)
(* Proofs about MemoryJobs, for any number of jobs, workers and sources    *)
(* and any limits: what the fence of a lease guards, what a job may spend, *)
(* and which summary of a group is shown, whatever the interleaving.       *)
(***************************************************************************)
EXTENDS MemoryJobs, FiniteSetTheorems, TLAPS

USE JobsAssumption, ManifestAssumption, SegmentsAssumption, LimitsAssumption

\* Every value the writes give a row is a row.
LEMMA RowTypes ==
  ASSUME NEW row \in JobRow, NEW st \in JobState
  PROVE  /\ Unleased(row) \in JobRow
         /\ [Unleased(row) EXCEPT !.state = st] \in JobRow
         /\ [Unleased(row) EXCEPT !.state = st, !.runAfter = "future"] \in JobRow
         /\ Fenced(row, st) \in JobRow
         /\ Requeued(row) \in JobRow
         /\ [row EXCEPT !.state = "pending", !.runAfter = "past"] \in JobRow
         /\ [row EXCEPT !.expires = "past"] \in JobRow
         /\ [row EXCEPT !.runAfter = "past"] \in JobRow
<1>1. Nobody \in Owners /\ "pending" \in JobState
  BY DEF Owners, JobState, Waiting
<1>2. Unleased(row) \in JobRow
  BY <1>1 DEF Unleased, JobRow
<1>3. ASSUME NEW r \in JobRow, NEW s \in JobState
      PROVE  /\ [r EXCEPT !.state = s] \in JobRow
             /\ [r EXCEPT !.state = s, !.runAfter = "future"] \in JobRow
             /\ [r EXCEPT !.state = s, !.runAfter = "past"] \in JobRow
             /\ [r EXCEPT !.expires = "past"] \in JobRow
             /\ [r EXCEPT !.runAfter = "past"] \in JobRow
  BY <1>3 DEF JobRow
<1>4. ASSUME NEW r \in JobRow, NEW s \in JobState, NEW f \in Nat
      PROVE  [r EXCEPT !.state = s, !.fence = f] \in JobRow
  BY <1>4 DEF JobRow
<1>5. ASSUME NEW r \in JobRow PROVE r.fence + 1 \in Nat
  BY <1>5 DEF JobRow
<1>6. Fenced(row, st) \in JobRow /\ Fenced(row, "pending") \in JobRow
  BY <1>1, <1>2, <1>4, <1>5 DEF Fenced
<1>7. Requeued(row) \in JobRow
  BY <1>3, <1>6 DEF Requeued
<1> QED BY <1>1, <1>2, <1>3, <1>6, <1>7

\* A claimed row is a row.
LEMMA LeasedType ==
  ASSUME NEW row \in JobRow, NEW w \in Workers
  PROVE  Leased(row, w) \in JobRow
<1>1. WorkerId[w] \in Owners /\ "leased" \in JobState
  BY DEF Owners, JobState
<1>2. row.attempts + 1 \in Nat /\ row.fence + 1 \in Nat
  BY DEF JobRow
<1>3. ASSUME NEW o \in Owners, NEW s \in JobState, NEW a \in Nat, NEW f \in Nat
      PROVE  [row EXCEPT !.state = s, !.attempts = a, !.owner = o,
                         !.expires = "future", !.fence = f] \in JobRow
  BY <1>3 DEF JobRow
<1> QED BY <1>1, <1>2, <1>3 DEF Leased

\* Whole tables stay tables.
LEMMA TableTypes ==
  ASSUME TypeOK, NEW S \in SUBSET Jobs, NEW st \in JobState
  PROVE  /\ FenceAll(S, st) \in [Jobs -> JobRow]
         /\ RequeueAll(S) \in [Jobs -> JobRow]
<1>1. \A j \in Jobs : Fenced(job[j], st) \in JobRow /\ Requeued(job[j]) \in JobRow
  BY RowTypes DEF TypeOK
<1> QED BY <1>1 DEF FenceAll, RequeueAll, TypeOK

\* A failure leaves the job in a state of the table.
LEMMA FailureStateType ==
  ASSUME NEW row \in JobRow, NEW code \in Codes
  PROVE  FailureState(row, code) \in Settled \cup {"retry_wait"}
  BY DEF FailureState, Settled, Blocked, JobRow, Codes

\* Every action keeps every table well formed.
LEMMA TypeStep ==
  ASSUME TypeOK, [Next]_vars
  PROVE  TypeOK'
<1> USE DEF TypeOK, rows, items, world
<1>1. ASSUME NEW w \in Workers, NEW pc \in {"fail"} \cup Working,
             NEW c \in Codes, worker[w].pc # "idle"
      PROVE  Fails(w, c) \/ Moves(w, pc) =>
               /\ worker' \in [Workers -> WorkerRow]
               /\ \A v \in Workers : worker'[v].pc # "idle" => worker'[v].job \in Jobs
  <2>1. ASSUME NEW r \in WorkerRow, r.job \in Jobs,
               worker' = [worker EXCEPT ![w] = r]
        PROVE  /\ worker' \in [Workers -> WorkerRow]
               /\ \A v \in Workers : worker'[v].pc # "idle" => worker'[v].job \in Jobs
    BY <2>1
  <2>2. worker[w] \in WorkerRow /\ worker[w].job \in Jobs
    BY <1>1
  <2>3. /\ [worker[w] EXCEPT !.pc = "fail", !.code = c] \in WorkerRow
        /\ [worker[w] EXCEPT !.pc = "fail", !.code = c].job = worker[w].job
        /\ [worker[w] EXCEPT !.pc = pc] \in WorkerRow
        /\ [worker[w] EXCEPT !.pc = pc].job = worker[w].job
    BY <2>2 DEF WorkerRow
  <2>4. ASSUME Fails(w, c)
        PROVE  worker' = [worker EXCEPT ![w] = [worker[w] EXCEPT !.pc = "fail", !.code = c]]
    BY <2>4 DEF Fails
  <2>5. ASSUME Moves(w, pc)
        PROVE  worker' = [worker EXCEPT ![w] = [worker[w] EXCEPT !.pc = pc]]
    BY <2>5 DEF Moves
  <2> QED BY <2>1, <2>2, <2>3, <2>4, <2>5
<1>2. ASSUME NEW w \in Workers, worker' = [worker EXCEPT ![w] = Idle]
      PROVE  /\ worker' \in [Workers -> WorkerRow]
             /\ \A v \in Workers : worker'[v].pc # "idle" => worker'[v].job \in Jobs
  BY <1>2 DEF Idle, WorkerRow, NoJob, Codes
<1>3. ASSUME NEW w \in Workers, Claim(w) PROVE TypeOK'
  <2>1. PICK dead \in SUBSET Exhausted : 
          \/ \E j \in Claimable :
               /\ job' = [FenceAll(dead, "dead_letter") EXCEPT ![j] = Leased(job[j], w)]
               /\ worker' = [worker EXCEPT ![w] =
                    [Idle EXCEPT !.pc = "loop", !.job = j,
                                 !.fence = Leased(job[j], w).fence]]
          \/ /\ job' = FenceAll(dead, "dead_letter")
             /\ UNCHANGED worker
    BY <1>3 DEF Claim
  <2>2. FenceAll(dead, "dead_letter") \in [Jobs -> JobRow]
    BY TableTypes DEF Exhausted, Abandoned, JobState, Settled
  <2>3. \A j \in Claimable : j \in Jobs /\ Leased(job[j], w) \in JobRow
    BY LeasedType DEF Claimable, Abandoned, Exhausted
  <2>4. job' \in [Jobs -> JobRow]
    <3>1. CASE job' = FenceAll(dead, "dead_letter")
      BY <2>2, <3>1
    <3>2. CASE \E j \in Claimable :
                 job' = [FenceAll(dead, "dead_letter") EXCEPT ![j] = Leased(job[j], w)]
      <4>1. PICK j \in Claimable :
                 job' = [FenceAll(dead, "dead_letter") EXCEPT ![j] = Leased(job[j], w)]
        BY <3>2
      <4> DEFINE F == FenceAll(dead, "dead_letter")
                 L == Leased(job[j], w)
      <4>2. F \in [Jobs -> JobRow] /\ L \in JobRow /\ j \in Jobs
        BY <2>2, <2>3
      <4>3. job' = [F EXCEPT ![j] = L]
        BY <4>1
      <4> HIDE DEF F, L
      <4> QED BY <4>2, <4>3
    <3> QED BY <2>1, <3>1, <3>2
  <2>5. /\ worker' \in [Workers -> WorkerRow]
        /\ \A v \in Workers : worker'[v].pc # "idle" => worker'[v].job \in Jobs
    <3>1. \A j \in Claimable : Leased(job[j], w).fence \in Nat
      BY <2>3 DEF JobRow
    <3>2. CASE UNCHANGED worker
      BY <3>2
    <3>3. CASE ~UNCHANGED worker
      <4>1. PICK j \in Claimable : worker' = [worker EXCEPT ![w] =
                    [Idle EXCEPT !.pc = "loop", !.job = j,
                                 !.fence = Leased(job[j], w).fence]]
        BY <2>1, <3>3
      <4>2. j \in Jobs /\ Leased(job[j], w).fence \in Nat
        BY <2>3, <3>1
      <4> DEFINE f == Leased(job[j], w).fence
                 r == [Idle EXCEPT !.pc = "loop", !.job = j, !.fence = f]
      <4> HIDE DEF f
      <4>3. Idle \in WorkerRow
        BY DEF Idle, WorkerRow, NoJob, Codes
      <4>4. r \in WorkerRow /\ r.job = j
        BY <4>2, <4>3 DEF WorkerRow, Working, f
      <4>5. worker' = [worker EXCEPT ![w] = r]
        BY <4>1 DEF f
      <4> HIDE DEF r
      <4> QED BY <4>2, <4>4, <4>5
    <3> QED BY <3>2, <3>3
  <2> QED BY <1>3, <2>4, <2>5 DEF Claim
<1>4. ASSUME NEW w \in Workers, Select(w) PROVE TypeOK'
  <2>1. CASE \E c \in Codes : Fails(w, c)
    BY <1>4, <2>1, <1>1 DEF Select
  <2>2. CASE ~\E c \in Codes : Fails(w, c)
    <3>1. PICK B \in SUBSET Sources, pc \in {"ready", "merge"} :
            worker' = [worker EXCEPT ![w].batch = B, ![w].pc = pc]
      <4>1. worker[w].job \in Jobs
        BY <1>4 DEF Select
      <4>2. \A B \in Batches(worker[w].job) : B \in SUBSET Sources
        BY <4>1 DEF Batches, Todo
      <4>3. PICK B \in Batches(worker[w].job) :
              worker' = [worker EXCEPT
                  ![w].batch = B,
                  ![w].pc = IF NeedsCall(worker[w].job, B) THEN "ready" ELSE "merge"]
        BY <1>4, <2>2 DEF Select, Codes
      <4> QED BY <4>2, <4>3
    <3>2. /\ worker' \in [Workers -> WorkerRow]
          /\ \A v \in Workers : worker'[v].pc # "idle" => worker'[v].job \in Jobs
      <4> DEFINE r == [worker[w] EXCEPT !.batch = B, !.pc = pc]
      <4>1. r \in WorkerRow /\ r.job = worker[w].job
        <5>1. worker[w] \in WorkerRow /\ pc \in Working
          BY DEF Working
        <5> QED BY ONLY <5>1, B \in SUBSET Sources DEF WorkerRow
      <4>2. worker' = [worker EXCEPT ![w] = r]
        BY <3>1
      <4>3. worker[w].job \in Jobs
        BY <1>4 DEF Select
      <4> HIDE DEF r
      <4> QED BY <4>1, <4>2, <4>3
    <3> QED BY <1>4, <3>2 DEF Select
  <2> QED BY <2>1, <2>2
<1>5. ASSUME NEW w \in Workers, Reserve(w) PROVE TypeOK'
  <2>1. /\ worker' \in [Workers -> WorkerRow]
        /\ \A v \in Workers : worker'[v].pc # "idle" => worker'[v].job \in Jobs
    BY <1>5, <1>1 DEF Reserve, Codes, Working
  <2> QED BY <1>5, <2>1 DEF Reserve
<1>6. ASSUME NEW w \in Workers, Save(w) PROVE TypeOK'
  <2>1. /\ worker' \in [Workers -> WorkerRow]
        /\ \A v \in Workers : worker'[v].pc # "idle" => worker'[v].job \in Jobs
    BY <1>6, <1>1 DEF Save, Codes, Working
  <2>2. worker[w].job \in Jobs /\ worker[w].batch \in SUBSET Sources
    BY <1>6 DEF Save, WorkerRow
  <2>3. done' \in [Jobs -> SUBSET Sources]
    BY <1>6, <2>2 DEF Save
  <2>4. segs' \in [Jobs -> [Sources -> Nat]]
    <3>1. CASE UNCHANGED segs
      BY <3>1
    <3>2. CASE \E s \in worker[w].batch : segs' = [segs EXCEPT ![worker[w].job][s] = @ + 1]
      <4>1. PICK s \in worker[w].batch : segs' = [segs EXCEPT ![worker[w].job][s] = @ + 1]
        BY <3>2
      <4> DEFINE j == worker[w].job
                 g == [segs[j] EXCEPT ![s] = segs[j][s] + 1]
      <4>2. g \in [Sources -> Nat]
        BY <2>2
      <4>3. segs' = [segs EXCEPT ![j] = g]
        BY <4>1
      <4> HIDE DEF g
      <4> QED BY <2>2, <4>2, <4>3
    <3> QED BY <1>6, <3>1, <3>2 DEF Save
  <2> QED BY <1>6, <2>1, <2>3, <2>4 DEF Save
<1>7. ASSUME NEW w \in Workers, Merge(w) PROVE TypeOK'
  <2>1. /\ worker' \in [Workers -> WorkerRow]
        /\ \A v \in Workers : worker'[v].pc # "idle" => worker'[v].job \in Jobs
    BY <1>7, <1>1 DEF Merge, Codes, Working
  <2>2. done' \in [Jobs -> SUBSET Sources]
    BY <1>7 DEF Merge, WorkerRow
  <2> QED BY <1>7, <2>1, <2>2 DEF Merge
<1>8. ASSUME NEW w \in Workers, Publish(w) PROVE TypeOK'
  <2>1. /\ worker' \in [Workers -> WorkerRow]
        /\ \A v \in Workers : worker'[v].pc # "idle" => worker'[v].job \in Jobs
    BY <1>8, <1>1, <1>2 DEF Publish, Codes, Working
  <2>2. job' \in [Jobs -> JobRow]
    <3>1. worker[w].job \in Jobs
      BY <1>8 DEF Publish
    <3>2. [Unleased(job[worker[w].job]) EXCEPT !.state = "succeeded"] \in JobRow
      BY <3>1, RowTypes DEF JobState, Settled
    <3> QED BY <1>8, <3>2 DEF Publish
  <2>3. summary' \in [Jobs -> {"none", "current", "superseded", "stale"}]
    BY <1>8 DEF Publish, Published
  <2> QED BY <1>8, <2>1, <2>2, <2>3 DEF Publish
<1>9. ASSUME NEW w \in Workers, WorkerError(w) PROVE TypeOK'
  BY <1>9, <1>1 DEF WorkerError, Codes
<1>10. ASSUME NEW w \in Workers, Failure(w) PROVE TypeOK'
  <2>1. worker[w].job \in Jobs /\ worker[w].code \in Codes
    BY <1>10 DEF Failure, WorkerRow
  <2> DEFINE st == FailureState(job[worker[w].job], worker[w].code)
  <2>2. st \in JobState
    BY <2>1, FailureStateType DEF JobState, Waiting
  <2>3. [Unleased(job[worker[w].job]) EXCEPT !.state = st, !.runAfter = "future"] \in JobRow
    BY <2>1, <2>2, RowTypes
  <2> HIDE DEF st
  <2>4. job' \in [Jobs -> JobRow] /\ profileReady' \in BOOLEAN
    <3> DEFINE row == [Unleased(job[worker[w].job]) EXCEPT !.state = st, !.runAfter = "future"]
    <3>1. \/ job' = [job EXCEPT ![worker[w].job] = row] /\ profileReady' \in BOOLEAN
          \/ job' = job /\ profileReady' = profileReady
      BY <1>10 DEF Failure, st
    <3>2. row \in JobRow
      BY <2>3
    <3> HIDE DEF row
    <3> QED BY <2>1, <3>1, <3>2
  <2> QED BY <1>10, <1>2, <2>4 DEF Failure
<1>11. ASSUME NEW w \in Workers, Crash(w) PROVE TypeOK'
  BY <1>11, <1>2 DEF Crash
<1>12. ASSUME Operator PROVE TypeOK'
  <2>1. ASSUME NEW j \in Jobs, Enqueue(j) PROVE TypeOK'
    BY <2>1, RowTypes DEF Enqueue, JobState
  <2>2. ASSUME NEW j \in Jobs, Cancel(j) PROVE TypeOK'
    BY <2>2, TableTypes DEF Cancel, JobState, Settled
  <2>3. ASSUME NEW j \in Jobs, Retry(j) PROVE TypeOK'
    BY <2>3, TableTypes DEF Retry, JobState
  <2>4. ASSUME NEW n \in Jobs, Reschedule(n) PROVE TypeOK'
    <3> DEFINE old == {j \in Jobs : /\ j < n /\ j \notin rescheduled
                                    /\ job[j].state \in Retryable \cup {"pending"}}
    <3>1. FenceAll(old, "cancelled") \in [Jobs -> JobRow]
      BY TableTypes DEF JobState, Settled
    <3>2. job' = FenceAll(old, "cancelled") \/
          job' = [FenceAll(old, "cancelled") EXCEPT ![n] =
                    [@ EXCEPT !.state = "pending", !.runAfter = "past"]]
      BY <2>4, <3>1 DEF Reschedule
    <3>3. rescheduled' \in SUBSET Jobs
      BY <2>4 DEF Reschedule
    <3> HIDE DEF old
    <3>4. job' \in [Jobs -> JobRow]
      <4> DEFINE F == FenceAll(old, "cancelled")
      <4>1. F \in [Jobs -> JobRow]
        BY <3>1
      <4>2. job' = F \/ job' = [F EXCEPT ![n] = [F[n] EXCEPT !.state = "pending", !.runAfter = "past"]]
        BY <3>2
      <4> HIDE DEF F
      <4>3. ASSUME NEW r \in JobRow
            PROVE  [r EXCEPT !.state = "pending", !.runAfter = "past"] \in JobRow
        BY <4>3 DEF JobRow, JobState, Waiting
      <4>4. F[n] \in JobRow
        BY <4>1
      <4> DEFINE r == [F[n] EXCEPT !.state = "pending", !.runAfter = "past"]
      <4>5. r \in JobRow /\ (job' = F \/ job' = [F EXCEPT ![n] = r])
        BY <4>2, <4>3, <4>4
      <4> HIDE DEF r
      <4> QED BY <4>1, <4>5
    <3> QED BY <2>4, <3>3, <3>4 DEF Reschedule
  <2>5. ASSUME ResumeProfile PROVE TypeOK'
    <3>1. \A r \in JobRow : [r EXCEPT !.state = "pending", !.runAfter = "past"] \in JobRow
      BY DEF JobRow, JobState, Waiting
    <3>2. job' \in [Jobs -> JobRow]
      BY <2>5, <3>1 DEF ResumeProfile
    <3>3. profileReady' = TRUE /\ requeues' = requeues + 1
      BY <2>5 DEF ResumeProfile
    <3>4. UNCHANGED <<rescheduled, done, segs, worker, reserved, projectLive, gone, summary>>
      BY <2>5 DEF ResumeProfile
    <3> QED BY <3>2, <3>3, <3>4
  <2>6. ASSUME SaveModel PROVE TypeOK'
    BY <2>6, TableTypes DEF SaveModel, JobState, Settled, Blocked
  <2> QED BY <1>12, <2>1, <2>2, <2>3, <2>4, <2>5, <2>6 DEF Operator
<1>13. ASSUME World PROVE TypeOK'
  <2>1. ASSUME DeleteProject PROVE TypeOK'
    BY <2>1 DEF DeleteProject
  <2>2. ASSUME RestoreProject PROVE TypeOK'
    <3>1. job' \in [Jobs -> JobRow]
      <4> DEFINE S == {j \in Jobs : job[j].state = "stale" /\ Manifest[j] \cap gone = {}}
      <4>1. RequeueAll(S) \in [Jobs -> JobRow]
        BY TableTypes DEF JobState
      <4> QED BY <2>2, <4>1 DEF RestoreProject
    <3> QED BY <2>2, <3>1 DEF RestoreProject
  <2>3. ASSUME NewDay PROVE TypeOK'
    BY <2>3 DEF NewDay
  <2>4. ASSUME NEW s \in Sources, Revise(s) \/ Recategorize(s) \/ Expire(s)
        PROVE TypeOK'
    <3>1. gone' \in SUBSET Sources
      BY <2>4 DEF Revise, Recategorize, Expire
    <3>2. summary' \in [Jobs -> {"none", "current", "superseded", "stale"}]
      BY <2>4 DEF Revise, Recategorize, Expire
    <3>3. UNCHANGED <<rows, items, worker, profileReady, reserved, projectLive, requeues>>
      BY <2>4 DEF Revise, Recategorize, Expire
    <3> QED BY <3>1, <3>2, <3>3
  <2>5. ASSUME NEW j \in Jobs, LeaseExpires(j) \/ BecomesDue(j) PROVE TypeOK'
    <3>1. [job[j] EXCEPT !.expires = "past"] \in JobRow /\ [job[j] EXCEPT !.runAfter = "past"] \in JobRow
      BY RowTypes DEF JobState
    <3>2. \E r \in JobRow : job' = [job EXCEPT ![j] = r]
      BY <2>5, <3>1 DEF LeaseExpires, BecomesDue
    <3>3. job' \in [Jobs -> JobRow]
      BY <3>2
    <3> QED BY <2>5, <3>3 DEF LeaseExpires, BecomesDue
  <2> QED BY <1>13, <2>1, <2>2, <2>3, <2>4, <2>5 DEF World
<1>14. CASE UNCHANGED vars
  BY <1>14 DEF vars
<1> QED BY <1>3, <1>4, <1>5, <1>6, <1>7, <1>8, <1>9, <1>10, <1>11, <1>12,
           <1>13, <1>14 DEF Next, WorkerStep

\* The queue and its workers keep every table well formed.
THEOREM TypeCorrect == Spec => []TypeOK
<1>1. Init => TypeOK
  BY DEF Init, TypeOK, NewRow, Idle, JobRow, WorkerRow, Owners, JobState,
         Waiting, Settled, Codes, NoJob
<1>2. TypeOK /\ [Next]_vars => TypeOK'
  BY TypeStep
<1> QED BY <1>1, <1>2, PTL DEF Spec

-----------------------------------------------------------------------------
(* What a step does to one row. *)

\* The columns of a row after each kind of write.
LEMMA RowFields ==
  ASSUME NEW row \in JobRow, NEW st \in JobState
  PROVE  /\ Fenced(row, st).state = st
         /\ Fenced(row, st).attempts = row.attempts
         /\ Fenced(row, st).fence = row.fence + 1
         /\ Requeued(row).state = "pending"
         /\ Requeued(row).attempts = row.attempts
         /\ Requeued(row).fence = row.fence + 1
         /\ \A w \in Workers : /\ Leased(row, w).state = "leased"
                              /\ Leased(row, w).attempts = row.attempts + 1
                              /\ Leased(row, w).fence = row.fence + 1
  BY DEF JobRow, Unleased, Fenced, Requeued, Leased

\* A write to a set of rows, row by row.
LEMMA AllFields ==
  ASSUME NEW S, NEW st, NEW j \in Jobs
  PROVE  /\ FenceAll(S, st)[j] = IF j \in S THEN Fenced(job[j], st) ELSE job[j]
         /\ RequeueAll(S)[j] = IF j \in S THEN Requeued(job[j]) ELSE job[j]
  BY DEF FenceAll, RequeueAll

Fresh == Waiting \cup {"none"}

\* The fence never goes back; an attempt is only counted by a claim, of a
\* waiting job or of an abandoned one with attempts left; a job only comes to
\* wait again with attempts left or by an operator's hand; and a summary
\* appears together with the state 'succeeded'.
RowStep(j) ==
  /\ job'[j].fence >= job[j].fence
  /\ requeues' \in {requeues, requeues + 1}
  /\ \/ /\ job'[j].attempts = job[j].attempts
        /\ job'[j].state \in Fresh =>
             \/ job[j].state \in Fresh
             \/ job[j].attempts < MaxAttempts
             \/ requeues' = requeues + 1
     \/ /\ job'[j].attempts = job[j].attempts + 1
        /\ job'[j].state = "leased"
        /\ job[j].state \in Fresh \/ job[j].attempts < MaxAttempts
  /\ summary'[j] # "none" <=> job'[j].state = "succeeded"

LEMMA RowSteps ==
  ASSUME TypeOK, PublishedMeansSucceeded, [Next]_vars, NEW j \in Jobs
  PROVE  RowStep(j)
<1> USE DEF rows, items, world
<1> DEFINE Same == job'[j] = job[j] /\ summary'[j] = summary[j]
<1>0. /\ job[j] \in JobRow /\ job[j].fence \in Nat /\ job[j].attempts \in Nat
      /\ job[j].state \in JobState /\ requeues \in Nat
      /\ summary[j] # "none" <=> job[j].state = "succeeded"
  BY DEF TypeOK, JobRow, PublishedMeansSucceeded
<1>1. ASSUME Same, requeues' = requeues PROVE RowStep(j)
  BY <1>0, <1>1 DEF RowStep
\* A row that is fenced off keeps its attempts and does not wait.
<1>2. ASSUME NEW st \in JobState \ (Fresh \cup {"succeeded"}),
             job'[j] = Fenced(job[j], st), job[j].state # "succeeded",
             summary'[j] = summary[j], requeues' = requeues
      PROVE  RowStep(j)
  BY <1>0, <1>2, RowFields DEF RowStep
\* A row that is requeued by an operator.
<1>3. ASSUME job'[j] = Requeued(job[j]), job[j].state # "succeeded",
             summary'[j] = summary[j], requeues' = requeues + 1
      PROVE  RowStep(j)
  BY <1>0, <1>3, RowFields DEF RowStep, Fresh, Waiting
<1>4. ASSUME NEW w \in Workers, Claim(w) PROVE RowStep(j)
  <2>1. requeues' = requeues /\ summary' = summary
    BY <1>4 DEF Claim
  <2>2. PICK dead \in SUBSET Exhausted :
          \/ \E c \in Claimable :
               job' = [FenceAll(dead, "dead_letter") EXCEPT ![c] = Leased(job[c], w)]
          \/ job' = FenceAll(dead, "dead_letter")
    BY <1>4 DEF Claim
  <2>3. \A i \in Jobs : FenceAll(dead, "dead_letter")[i] =
                          IF i \in dead THEN Fenced(job[i], "dead_letter") ELSE job[i]
    BY DEF FenceAll
  <2>4. DOMAIN FenceAll(dead, "dead_letter") = Jobs
    BY DEF FenceAll
  <2>5. \/ job'[j] = job[j]
        \/ j \in dead /\ job'[j] = Fenced(job[j], "dead_letter")
        \/ j \in Claimable /\ job'[j] = Leased(job[j], w)
    BY <2>2, <2>3, <2>4
  <2>6. CASE j \in dead /\ job'[j] = Fenced(job[j], "dead_letter")
    <3>1. job[j].state = "leased"
      BY <2>6 DEF Exhausted, Abandoned
    <3>2. "dead_letter" \in JobState \ (Fresh \cup {"succeeded"})
      BY DEF JobState, Settled, Fresh, Waiting
    <3> QED BY <1>2, <2>1, <2>6, <3>1, <3>2
  <2>7. CASE j \in Claimable /\ job'[j] = Leased(job[j], w)
    <3>1. \/ job[j].state \in Waiting
          \/ job[j].state = "leased" /\ job[j].attempts < MaxAttempts
      BY <1>0, <2>7 DEF Claimable, Exhausted, Abandoned
    <3>2. /\ job'[j].state = "leased" /\ job'[j].attempts = job[j].attempts + 1
          /\ job'[j].fence = job[j].fence + 1
      BY <1>0, <2>7, RowFields
    <3> QED BY <1>0, <2>1, <3>1, <3>2 DEF RowStep, Fresh, Waiting
  <2> QED BY <1>1, <2>1, <2>5, <2>6, <2>7
<1>5. ASSUME NEW w \in Workers, Publish(w) PROVE RowStep(j)
  <2> DEFINE p == worker[w].job
  <2>1. requeues' = requeues /\ p \in Jobs
    BY <1>5 DEF Publish, TypeOK
  <2>2. CASE UNCHANGED <<job, summary>>
    BY <1>1, <2>1, <2>2
  <2>3. CASE ~UNCHANGED <<job, summary>>
    <3>1. /\ SameLease(w) /\ summary' = Published(p)
          /\ job' = [job EXCEPT ![p] = [Unleased(job[p]) EXCEPT !.state = "succeeded"]]
      BY <1>5, <2>3 DEF Publish, Owns
    <3>2. job[p].state = "leased"
      BY <3>1 DEF SameLease
    <3>3. CASE j = p
      <4>1. job'[j] = [Unleased(job[j]) EXCEPT !.state = "succeeded"]
        BY <3>1, <3>3 DEF TypeOK
      <4>2. /\ job'[j].state = "succeeded" /\ job'[j].attempts = job[j].attempts
            /\ job'[j].fence = job[j].fence
        BY <1>0, <4>1 DEF Unleased, JobRow
      <4>3. summary'[j] # "none"
        BY <3>1, <3>3 DEF Published
      <4> QED BY <1>0, <2>1, <4>2, <4>3 DEF RowStep, Fresh, Waiting
    <3>4. CASE j # p
      <4>1. job'[j] = job[j]
        BY <3>1, <3>4 DEF TypeOK
      <4>2. summary'[j] # "none" <=> summary[j] # "none"
        BY <3>1, <3>4 DEF Published
      <4> QED BY <1>0, <2>1, <4>1, <4>2 DEF RowStep
    <3> QED BY <3>3, <3>4
  <2> QED BY <2>2, <2>3
<1>6. ASSUME NEW w \in Workers, Failure(w) PROVE RowStep(j)
  <2> DEFINE p == worker[w].job
             st == FailureState(job[p], worker[w].code)
  <2>1. requeues' = requeues /\ summary' = summary /\ p \in Jobs /\ worker[w].code \in Codes
    BY <1>6 DEF Failure, TypeOK, WorkerRow
  <2>2. CASE job'[j] = job[j]
    BY <1>1, <2>1, <2>2
  <2>3. CASE job'[j] # job[j]
    <3>1. SameLease(w) /\ job' = [job EXCEPT ![p] =
            [Unleased(job[p]) EXCEPT !.state = st, !.runAfter = "future"]]
      BY <1>6, <2>3 DEF Failure
    <3>2. j = p /\ job[p].state = "leased"
      BY <2>3, <3>1 DEF SameLease, TypeOK
    <3>3. /\ st \notin {"pending", "none", "succeeded"}
          /\ st = "retry_wait" => job[p].attempts < MaxAttempts
      <4>1. job[p].attempts \in Nat /\ MaxAttempts \in Nat
        BY <1>0, <3>2
      <4> QED BY <4>1 DEF FailureState
    <3> HIDE DEF st
    <3>4. job'[j] = [Unleased(job[j]) EXCEPT !.state = st, !.runAfter = "future"]
      BY <3>1, <3>2 DEF TypeOK
    <3>5. /\ job'[j].state = st /\ job'[j].attempts = job[j].attempts
          /\ job'[j].fence = job[j].fence
      BY <1>0, <3>4 DEF Unleased, JobRow
    <3> QED BY <1>0, <2>1, <3>2, <3>3, <3>5 DEF RowStep, Fresh, Waiting
  <2> QED BY <2>2, <2>3
<1>7. ASSUME NEW w \in Workers,
             Select(w) \/ Reserve(w) \/ Save(w) \/ Merge(w) \/ WorkerError(w) \/ Crash(w)
      PROVE  RowStep(j)
  <2>1. Same /\ requeues' = requeues
    BY <1>7 DEF Select, Reserve, Save, Merge, WorkerError, Crash
  <2> QED BY <1>1, <2>1
<1>8. ASSUME Operator PROVE RowStep(j)
  <2>1. ASSUME NEW i \in Jobs, Enqueue(i) PROVE RowStep(j)
    <3>1. \/ Same
          \/ /\ job[j].state = "none"
             /\ job'[j] = [job[j] EXCEPT !.state = "pending", !.runAfter = "past"]
      BY <2>1 DEF Enqueue, TypeOK
    <3>2. requeues' = requeues /\ summary' = summary
      BY <2>1 DEF Enqueue
    <3>3. CASE job'[j] = [job[j] EXCEPT !.state = "pending", !.runAfter = "past"]
      <4>1. /\ job'[j].state = "pending" /\ job'[j].attempts = job[j].attempts
            /\ job'[j].fence = job[j].fence
        BY <1>0, <3>3 DEF JobRow
      <4> QED BY <1>0, <1>1, <3>1, <3>2, <4>1 DEF RowStep, Fresh
    <3> QED BY <1>1, <3>1, <3>2, <3>3
  <2>2. ASSUME NEW i \in Jobs, Cancel(i) PROVE RowStep(j)
    <3>1. requeues' = requeues /\ summary' = summary
      BY <2>2 DEF Cancel
    <3>2. \/ job'[j] = job[j]
          \/ job[j].state # "succeeded" /\ job'[j] = Fenced(job[j], "cancelled")
      <4> DEFINE S == {i}
      <4>1. FenceAll(S, "cancelled")[j] = IF j \in S THEN Fenced(job[j], "cancelled") ELSE job[j]
        BY AllFields
      <4>2. job'[j] = FenceAll(S, "cancelled")[j] /\ (j \in S => job[j].state # "succeeded")
        BY <2>2 DEF Cancel
      <4> HIDE DEF S
      <4> QED BY <4>1, <4>2
    <3>3. "cancelled" \in JobState \ (Fresh \cup {"succeeded"})
      BY DEF JobState, Settled, Fresh, Waiting
    <3> QED BY <1>1, <1>2, <3>1, <3>2, <3>3
  <2>3. ASSUME NEW i \in Jobs, Retry(i) PROVE RowStep(j)
    <3>1. requeues' = requeues + 1 /\ summary' = summary
      BY <2>3 DEF Retry
    <3>2. \/ job'[j] = job[j]
          \/ job[j].state # "succeeded" /\ job'[j] = Requeued(job[j])
      <4> DEFINE S == {i}
      <4>1. RequeueAll(S)[j] = IF j \in S THEN Requeued(job[j]) ELSE job[j]
        BY AllFields
      <4>2. job'[j] = RequeueAll(S)[j] /\ (j \in S => job[j].state # "succeeded")
        BY <2>3 DEF Retry, Retryable, Blocked
      <4> HIDE DEF S
      <4> QED BY <4>1, <4>2
    <3> QED BY <1>0, <1>3, <3>1, <3>2 DEF RowStep
  <2>4. ASSUME NEW n \in Jobs, Reschedule(n) PROVE RowStep(j)
    <3> DEFINE old == {i \in Jobs : /\ i < n /\ i \notin rescheduled
                                    /\ job[i].state \in Retryable \cup {"pending"}}
    <3>1. requeues' = requeues /\ summary' = summary
      BY <2>4 DEF Reschedule
    <3>2. \/ job'[j] = job[j]
          \/ job[j].state # "succeeded" /\ job'[j] = Fenced(job[j], "cancelled")
          \/ /\ job[j].state = "none"
             /\ job'[j] = [job[j] EXCEPT !.state = "pending", !.runAfter = "past"]
      <4>1. \A i \in Jobs : FenceAll(old, "cancelled")[i] =
                             IF i \in old THEN Fenced(job[i], "cancelled") ELSE job[i]
        BY DEF FenceAll
      <4>2. DOMAIN FenceAll(old, "cancelled") = Jobs
        BY DEF FenceAll
      <4>3. j \in old => job[j].state # "succeeded"
        BY DEF Retryable, Blocked
      <4>4. n \notin old /\ job[n].state = "none"
        BY <2>4 DEF Reschedule
      <4>5. job' = FenceAll(old, "cancelled") \/
            job' = [FenceAll(old, "cancelled") EXCEPT ![n] =
                      [@ EXCEPT !.state = "pending", !.runAfter = "past"]]
        BY <2>4, <4>2 DEF Reschedule
      <4> HIDE DEF old
      <4> QED BY <4>1, <4>2, <4>3, <4>4, <4>5
    <3>3. CASE /\ job[j].state = "none"
               /\ job'[j] = [job[j] EXCEPT !.state = "pending", !.runAfter = "past"]
      <4>1. /\ job'[j].state = "pending" /\ job'[j].attempts = job[j].attempts
            /\ job'[j].fence = job[j].fence
        BY <1>0, <3>3 DEF JobRow
      <4> QED BY <1>0, <3>1, <3>3, <4>1 DEF RowStep, Fresh
    <3>4. "cancelled" \in JobState \ (Fresh \cup {"succeeded"})
      BY DEF JobState, Settled, Fresh, Waiting
    <3> QED BY <1>1, <1>2, <3>1, <3>2, <3>3, <3>4
  <2>5. ASSUME ResumeProfile PROVE RowStep(j)
    <3>1. requeues' = requeues + 1 /\ summary' = summary
      BY <2>5 DEF ResumeProfile
    <3>2. \/ job'[j] = job[j]
          \/ /\ job[j].state # "succeeded"
             /\ job'[j] = [job[j] EXCEPT !.state = "pending", !.runAfter = "past"]
      BY <2>5 DEF ResumeProfile, Blocked
    <3>3. CASE job'[j] = [job[j] EXCEPT !.state = "pending", !.runAfter = "past"]
      <4>1. /\ job'[j].state = "pending" /\ job'[j].attempts = job[j].attempts
            /\ job'[j].fence = job[j].fence
        BY <1>0, <3>3 DEF JobRow
      <4> QED BY <1>0, <3>1, <3>2, <4>1 DEF RowStep, Fresh
    <3> QED BY <1>0, <3>1, <3>2, <3>3 DEF RowStep
  <2>6. ASSUME SaveModel PROVE RowStep(j)
    <3>1. requeues' = requeues /\ summary' = summary
      BY <2>6 DEF SaveModel
    <3>2. \/ job'[j] = job[j]
          \/ job[j].state # "succeeded" /\ job'[j] = Fenced(job[j], "blocked_config")
      <4> DEFINE S == {i \in Jobs : job[i].state \in Waiting \cup {"leased"}}
      <4>1. FenceAll(S, "blocked_config")[j] = IF j \in S THEN Fenced(job[j], "blocked_config") ELSE job[j]
        BY AllFields
      <4>2. job'[j] = FenceAll(S, "blocked_config")[j] /\ (j \in S => job[j].state # "succeeded")
        BY <2>6 DEF SaveModel, Waiting
      <4> HIDE DEF S
      <4> QED BY <4>1, <4>2
    <3>3. "blocked_config" \in JobState \ (Fresh \cup {"succeeded"})
      BY DEF JobState, Settled, Blocked, Fresh, Waiting
    <3> QED BY <1>1, <1>2, <3>1, <3>2, <3>3
  <2> QED BY <1>8, <2>1, <2>2, <2>3, <2>4, <2>5, <2>6 DEF Operator
<1>9. ASSUME World PROVE RowStep(j)
  <2>1. ASSUME DeleteProject \/ NewDay PROVE RowStep(j)
    BY <1>1, <2>1 DEF DeleteProject, NewDay
  <2>2. ASSUME RestoreProject PROVE RowStep(j)
    <3>1. requeues' = requeues + 1 /\ summary' = summary
      BY <2>2 DEF RestoreProject
    <3>2. \/ job'[j] = job[j]
          \/ job[j].state # "succeeded" /\ job'[j] = Requeued(job[j])
      <4> DEFINE S == {i \in Jobs : job[i].state = "stale" /\ Manifest[i] \cap gone = {}}
      <4>1. RequeueAll(S)[j] = IF j \in S THEN Requeued(job[j]) ELSE job[j]
        BY AllFields
      <4>2. job'[j] = RequeueAll(S)[j] /\ (j \in S => job[j].state # "succeeded")
        BY <2>2 DEF RestoreProject
      <4> HIDE DEF S
      <4> QED BY <4>1, <4>2
    <3> QED BY <1>0, <1>3, <3>1, <3>2 DEF RowStep
  <2>3. ASSUME NEW s \in Sources, Revise(s) \/ Recategorize(s) \/ Expire(s)
        PROVE  RowStep(j)
    <3>1. requeues' = requeues /\ job' = job
      BY <2>3 DEF Revise, Recategorize, Expire
    <3>2. summary'[j] # "none" <=> summary[j] # "none"
      BY <2>3 DEF Revise, Recategorize, Expire, Depends
    <3> QED BY <1>0, <3>1, <3>2 DEF RowStep
  <2>4. ASSUME NEW i \in Jobs, LeaseExpires(i) \/ BecomesDue(i) PROVE RowStep(j)
    <3>1. requeues' = requeues /\ summary' = summary
      BY <2>4 DEF LeaseExpires, BecomesDue
    <3>2. \/ job'[j] = job[j]
          \/ job'[j] = [job[j] EXCEPT !.expires = "past"]
          \/ job'[j] = [job[j] EXCEPT !.runAfter = "past"]
      BY <2>4 DEF LeaseExpires, BecomesDue, TypeOK
    <3>3. /\ job'[j].state = job[j].state /\ job'[j].attempts = job[j].attempts
          /\ job'[j].fence = job[j].fence
      BY <1>0, <3>2 DEF JobRow
    <3> QED BY <1>0, <3>1, <3>3 DEF RowStep
  <2> QED BY <1>9, <2>1, <2>2, <2>3, <2>4 DEF World
<1>10. CASE UNCHANGED vars
  BY <1>1, <1>10 DEF vars
<1> QED BY <1>4, <1>5, <1>6, <1>7, <1>8, <1>9, <1>10 DEF Next, WorkerStep

-----------------------------------------------------------------------------
(* What a step does to the workers' memories. *)

Keeps(w) ==
  worker'[w].pc # "idle" => /\ worker[w].pc # "idle"
                            /\ worker'[w].job = worker[w].job
                            /\ worker'[w].fence = worker[w].fence
Claims(w) ==
  /\ \A v \in Workers \ {w} : worker'[v] = worker[v]
  /\ worker'[w].job \in Jobs
  /\ worker'[w].fence = job[worker'[w].job].fence + 1
  /\ job'[worker'[w].job].fence = worker'[w].fence

\* A worker only learns a fence by a claim, which makes a new one.
LEMMA WorkerSteps ==
  ASSUME TypeOK, [Next]_vars
  PROVE  (\A w \in Workers : Keeps(w)) \/ (\E w \in Workers : Claim(w) /\ Claims(w))
<1> USE DEF rows, items, world
<1>0. worker \in [Workers -> WorkerRow] /\ job \in [Jobs -> JobRow]
  BY DEF TypeOK
<1>1. ASSUME UNCHANGED worker PROVE \A w \in Workers : Keeps(w)
  BY <1>1 DEF Keeps
<1>2. ASSUME NEW w \in Workers, NEW r, worker' = [worker EXCEPT ![w] = r],
             \/ r.pc = "idle"
             \/ /\ worker[w].pc # "idle" /\ r.job = worker[w].job
                /\ r.fence = worker[w].fence
      PROVE  \A v \in Workers : Keeps(v)
  BY <1>0, <1>2 DEF Keeps
<1>3. ASSUME NEW w \in Workers, NEW c, Fails(w, c), worker[w].pc # "idle"
      PROVE  \A v \in Workers : Keeps(v)
  <2> DEFINE r == [worker[w] EXCEPT !.pc = "fail", !.code = c]
  <2>1. r.job = worker[w].job /\ r.fence = worker[w].fence
    BY <1>0 DEF WorkerRow
  <2>2. worker' = [worker EXCEPT ![w] = r]
    BY <1>3 DEF Fails
  <2> HIDE DEF r
  <2> QED BY <1>2, <1>3, <2>1, <2>2
<1>4. ASSUME NEW w \in Workers, NEW pc, Moves(w, pc), worker[w].pc # "idle"
      PROVE  \A v \in Workers : Keeps(v)
  <2> DEFINE r == [worker[w] EXCEPT !.pc = pc]
  <2>1. r.job = worker[w].job /\ r.fence = worker[w].fence
    BY <1>0 DEF WorkerRow
  <2>2. worker' = [worker EXCEPT ![w] = r]
    BY <1>4 DEF Moves
  <2> HIDE DEF r
  <2> QED BY <1>2, <1>4, <2>1, <2>2
<1>5. ASSUME NEW w \in Workers, worker' = [worker EXCEPT ![w] = Idle]
      PROVE  \A v \in Workers : Keeps(v)
  <2>1. Idle.pc = "idle"
    BY DEF Idle
  <2> QED BY <1>2, <1>5, <2>1
<1>6. ASSUME NEW w \in Workers, Claim(w)
      PROVE  (\A v \in Workers : Keeps(v)) \/ Claims(w)
  <2>1. PICK dead \in SUBSET Exhausted :
          \/ \E j \in Claimable :
               /\ job' = [FenceAll(dead, "dead_letter") EXCEPT ![j] = Leased(job[j], w)]
               /\ worker' = [worker EXCEPT ![w] =
                    [Idle EXCEPT !.pc = "loop", !.job = j,
                                 !.fence = Leased(job[j], w).fence]]
          \/ UNCHANGED worker
    BY <1>6 DEF Claim
  <2>2. CASE UNCHANGED worker
    BY <1>1, <2>2
  <2>3. CASE ~UNCHANGED worker
    <3>1. PICK j \in Claimable :
               /\ job' = [FenceAll(dead, "dead_letter") EXCEPT ![j] = Leased(job[j], w)]
               /\ worker' = [worker EXCEPT ![w] =
                    [Idle EXCEPT !.pc = "loop", !.job = j,
                                 !.fence = Leased(job[j], w).fence]]
      BY <2>1, <2>3
    <3>2. j \in Jobs
      BY DEF Claimable, Abandoned
    <3>3. Leased(job[j], w).fence = job[j].fence + 1
      BY <1>0, <3>2 DEF JobRow, Leased
    <3>4. j \in DOMAIN FenceAll(dead, "dead_letter")
      BY <3>2 DEF FenceAll
    <3>5. job'[j] = Leased(job[j], w)
      BY <3>1, <3>4
    <3> DEFINE f == Leased(job[j], w).fence
               r == [Idle EXCEPT !.pc = "loop", !.job = j, !.fence = f]
    <3> HIDE DEF f
    <3>6. r.job = j /\ r.fence = f
      BY DEF Idle
    <3>7. worker' = [worker EXCEPT ![w] = r]
      BY <3>1 DEF f
    <3> HIDE DEF r
    <3>8. worker'[w] = r /\ \A v \in Workers \ {w} : worker'[v] = worker[v]
      BY <1>0, <3>7
    <3> QED BY <3>2, <3>3, <3>5, <3>6, <3>8 DEF Claims, f
  <2> QED BY <2>2, <2>3
<1>7. ASSUME NEW w \in Workers, Select(w) PROVE \A v \in Workers : Keeps(v)
  <2>1. CASE \E c \in Codes : Fails(w, c)
    BY <1>3, <1>7, <2>1 DEF Select
  <2>2. CASE ~\E c \in Codes : Fails(w, c)
    <3>1. PICK B, pc : worker' = [worker EXCEPT ![w].batch = B, ![w].pc = pc]
      BY <1>7, <2>2 DEF Select, Codes
    <3> DEFINE r == [worker[w] EXCEPT !.batch = B, !.pc = pc]
    <3>2. r.job = worker[w].job /\ r.fence = worker[w].fence
      BY <1>0 DEF WorkerRow
    <3>3. worker' = [worker EXCEPT ![w] = r]
      BY <3>1
    <3>4. worker[w].pc # "idle"
      BY <1>7 DEF Select
    <3> HIDE DEF r
    <3> QED BY <1>2, <3>2, <3>3, <3>4
  <2> QED BY <2>1, <2>2
<1>8. ASSUME NEW w \in Workers, Reserve(w) \/ Save(w) \/ Merge(w) \/ WorkerError(w)
      PROVE  \A v \in Workers : Keeps(v)
  <2>1. /\ worker[w].pc # "idle"
        /\ (\E c \in Codes : Fails(w, c)) \/ (\E pc \in Working : Moves(w, pc))
    BY <1>8 DEF Reserve, Save, Merge, WorkerError, Codes, Working
  <2> QED BY <1>3, <1>4, <2>1
<1>9. ASSUME NEW w \in Workers, Publish(w) \/ Failure(w) \/ Crash(w)
      PROVE  \A v \in Workers : Keeps(v)
  <2>1. \/ worker' = [worker EXCEPT ![w] = Idle]
        \/ worker[w].pc # "idle" /\ \E c \in Codes : Fails(w, c)
    BY <1>9 DEF Publish, Failure, Crash, Codes
  <2> QED BY <1>3, <1>5, <2>1
<1>10. ASSUME Operator \/ World PROVE UNCHANGED worker
  BY <1>10 DEF Operator, World, Enqueue, Cancel, Retry, Reschedule, ResumeProfile,
       SaveModel, DeleteProject, RestoreProject, NewDay, Revise, Recategorize,
       Expire, LeaseExpires, BecomesDue
<1>11. CASE UNCHANGED vars
  BY <1>1, <1>11 DEF vars
<1> QED BY <1>1, <1>6, <1>7, <1>8, <1>9, <1>10, <1>11 DEF Next, WorkerStep

-----------------------------------------------------------------------------
(* The theorems *)

\* No job's output is published twice: a summary exists exactly for the jobs
\* that succeeded, whatever is retried, requeued or taken over.
THEOREM PublishedOnce == Spec => []PublishedMeansSucceeded
<1>1. Init => PublishedMeansSucceeded
  BY DEF Init, PublishedMeansSucceeded, NewRow
<1>2. TypeOK /\ PublishedMeansSucceeded /\ [Next]_vars => PublishedMeansSucceeded'
  <2> SUFFICES ASSUME TypeOK, PublishedMeansSucceeded, [Next]_vars, NEW j \in Jobs
               PROVE  summary'[j] # "none" <=> job'[j].state = "succeeded"
    BY DEF PublishedMeansSucceeded
  <2> QED BY RowSteps DEF RowStep
<1> QED BY <1>1, <1>2, TypeCorrect, PTL DEF Spec

\* The attempt limit holds across crashes, takeovers and failures; only an
\* operator who requeues jobs raises it.
THEOREM AttemptsBounded == Spec => []AttemptBound
<1>1. Init => AttemptsLeft
  BY DEF Init, AttemptsLeft, NewRow
<1>2. TypeOK /\ PublishedMeansSucceeded /\ AttemptsLeft /\ [Next]_vars => AttemptsLeft'
  <2> SUFFICES ASSUME TypeOK, PublishedMeansSucceeded, AttemptsLeft, [Next]_vars,
                      NEW j \in Jobs
               PROVE  /\ job'[j].attempts <= MaxAttempts + requeues'
                      /\ job'[j].state \in Fresh =>
                           job'[j].attempts < MaxAttempts + requeues'
    BY DEF AttemptsLeft, Fresh
  <2>1. /\ job[j].attempts \in Nat /\ requeues \in Nat /\ MaxAttempts \in Nat
        /\ job[j].attempts <= MaxAttempts + requeues
        /\ job[j].state \in Fresh => job[j].attempts < MaxAttempts + requeues
    BY DEF TypeOK, JobRow, AttemptsLeft, Fresh
  <2>2. RowStep(j)
    BY RowSteps
  <2>3. "leased" \notin Fresh
    BY DEF Fresh, Waiting
  <2> QED BY <2>1, <2>2, <2>3 DEF RowStep
<1>3. AttemptsLeft => AttemptBound
  BY DEF AttemptsLeft, AttemptBound
<1> QED BY <1>1, <1>2, <1>3, TypeCorrect, PublishedOnce, PTL DEF Spec

\* The fences workers remember are distinct in every reachable state.
THEOREM Fencing == Spec => []FencesDistinct
<1>1. Init => FencesDistinct
  BY DEF Init, FencesDistinct, Busy, Idle
<1>2. TypeOK /\ PublishedMeansSucceeded /\ FencesDistinct /\ [Next]_vars => FencesDistinct'
  <2> SUFFICES ASSUME TypeOK, PublishedMeansSucceeded, FencesDistinct, [Next]_vars
               PROVE  FencesDistinct'
    OBVIOUS
  <2>1. \A j \in Jobs : /\ job[j].fence \in Nat /\ job'[j].fence \in Nat
                        /\ job'[j].fence >= job[j].fence
    <3>1. TypeOK'
      BY TypeStep
    <3>2. \A j \in Jobs : job'[j].fence >= job[j].fence
      BY RowSteps DEF RowStep
    <3> QED BY <3>1, <3>2 DEF TypeOK, JobRow
  <2>2. \A w \in Workers : /\ worker[w].fence \in Nat
                           /\ worker[w].pc # "idle" => worker[w].job \in Jobs
    BY DEF TypeOK, WorkerRow
  <2>5. ASSUME NEW w \in Workers, worker[w].pc # "idle"
        PROVE  worker[w].fence <= job'[worker[w].job].fence
    <3> DEFINE j == worker[w].job
    <3>1. j \in Jobs /\ worker[w].fence \in Nat /\ worker[w].fence <= job[j].fence
      BY <2>2, <2>5 DEF FencesDistinct, Busy
    <3>2. job[j].fence \in Nat /\ job'[j].fence \in Nat /\ job'[j].fence >= job[j].fence
      BY <2>1, <3>1
    <3> HIDE DEF j
    <3>3. worker[w].fence <= job'[j].fence
      BY <3>1, <3>2
    <3> QED BY <3>3 DEF j
  <2>3. CASE \A w \in Workers : Keeps(w)
    <3>1. ASSUME NEW w \in Workers, worker'[w].pc # "idle"
          PROVE  worker'[w].fence <= job'[worker'[w].job].fence
      <4> DEFINE j == worker[w].job
      <4>1. /\ worker[w].pc # "idle" /\ worker'[w].job = j
            /\ worker'[w].fence = worker[w].fence
        BY <2>3, <3>1 DEF Keeps
      <4> HIDE DEF j
      <4> QED BY <2>5, <4>1 DEF j
    <3>2. ASSUME NEW v \in Workers, NEW w \in Workers, v # w,
                 worker'[v].pc # "idle", worker'[w].pc # "idle",
                 worker'[v].job = worker'[w].job
          PROVE  worker'[v].fence # worker'[w].fence
      BY <2>3, <3>2 DEF FencesDistinct, Busy, Keeps
    <3> QED BY <3>1, <3>2 DEF FencesDistinct, Busy
  <2>4. CASE \E w \in Workers : Claims(w)
    <3>1. PICK c \in Workers : Claims(c)
      BY <2>4
    <3>2. ASSUME NEW w \in Workers, worker'[w].pc # "idle"
          PROVE  worker'[w].fence <= job'[worker'[w].job].fence
      <4>1. CASE w = c
        <5>1. /\ worker'[c].job \in Jobs
              /\ worker'[c].fence = job'[worker'[c].job].fence
          BY <3>1, <4>1 DEF Claims
        <5>2. job'[worker'[c].job].fence \in Nat
          BY <2>1, <5>1
        <5> QED BY <4>1, <5>1, <5>2
      <4>2. CASE w # c
        <5>1. worker'[w] = worker[w]
          BY <3>1, <4>2 DEF Claims
        <5> QED BY <2>5, <3>2, <5>1
      <4> QED BY <4>1, <4>2
    <3>3. ASSUME NEW w \in Workers, w # c, worker'[w].pc # "idle",
                 worker'[w].job = worker'[c].job
          PROVE  worker'[w].fence < worker'[c].fence
      <4> DEFINE j == worker[w].job
      <4>1. worker'[w] = worker[w]
        BY <3>1, <3>3 DEF Claims
      <4>2. /\ j \in Jobs /\ worker'[c].job = j
            /\ worker[w].fence \in Nat /\ worker[w].fence <= job[j].fence
        BY <2>2, <3>3, <4>1 DEF FencesDistinct, Busy
      <4>3. worker'[c].fence = job[j].fence + 1 /\ job[j].fence \in Nat
        BY <2>1, <3>1, <4>2 DEF Claims
      <4> HIDE DEF j
      <4> QED BY <4>1, <4>2, <4>3
    <3>4. ASSUME NEW v \in Workers, NEW w \in Workers, v # w,
                 worker'[v].pc # "idle", worker'[w].pc # "idle",
                 worker'[v].job = worker'[w].job
          PROVE  worker'[v].fence # worker'[w].fence
      <4>1. CASE v # c /\ w # c
        BY <3>1, <3>4, <4>1 DEF Claims, FencesDistinct, Busy
      <4>2. \A u \in Workers : u # c => worker'[u].fence \in Nat
        BY <2>2, <3>1 DEF Claims
      <4>3. worker'[c].fence \in Nat
        BY <2>1, <3>1 DEF Claims
      <4> QED BY <3>3, <3>4, <4>1, <4>2, <4>3
    <3> QED BY <3>2, <3>4 DEF FencesDistinct, Busy
  <2> QED BY <2>3, <2>4, WorkerSteps
<1> QED BY <1>1, <1>2, TypeCorrect, PublishedOnce, PTL DEF Spec

\* Two workers never hold the same job, even when all workers write the same
\* lease_owner.
THEOREM LeasesExclude == Spec => []LeaseExclusive
<1>1. FencesDistinct => LeaseExclusive
  BY DEF FencesDistinct, LeaseExclusive, SameLease
<1> QED BY <1>1, Fencing, PTL

\* The day's reserved calls never pass the limit, however workers interleave.
THEOREM BudgetKept == Spec => []BudgetBound
<1>1. Init => BudgetBound
  BY DEF Init, BudgetBound
<1>2. TypeOK /\ BudgetBound /\ [Next]_vars => BudgetBound'
  <2> SUFFICES ASSUME TypeOK, BudgetBound, [Next]_vars PROVE BudgetBound'
    OBVIOUS
  <2>1. \/ reserved' = reserved \/ reserved' = 0
        \/ reserved < DailyLimit /\ reserved' = reserved + 1
    <3>1. ASSUME NEW w \in Workers, Reserve(w)
          PROVE  \/ reserved' = reserved
                 \/ reserved < DailyLimit /\ reserved' = reserved + 1
      BY <3>1 DEF Reserve, BudgetLeft
    <3>2. ASSUME NEW w \in Workers, WorkerStep(w) \/ Crash(w), ~Reserve(w)
          PROVE  reserved' = reserved
      BY <3>2 DEF WorkerStep, Crash, Claim, Select, Save, Merge, Publish,
                  WorkerError, Failure
    <3>3. ASSUME Operator \/ World PROVE reserved' = reserved \/ reserved' = 0
      BY <3>3 DEF Operator, World, Enqueue, Cancel, Retry, Reschedule,
           ResumeProfile, SaveModel, DeleteProject, RestoreProject, NewDay,
           Revise, Recategorize, Expire, LeaseExpires, BecomesDue
    <3>4. CASE UNCHANGED vars
      BY <3>4 DEF vars
    <3> QED BY <3>1, <3>2, <3>3, <3>4 DEF Next
  <2> QED BY <2>1 DEF BudgetBound, TypeOK
<1> QED BY <1>1, <1>2, TypeCorrect, PTL DEF Spec

-----------------------------------------------------------------------------
(* What is published *)

\* Only a publication shows a summary: every other step leaves the status of
\* each as it is, or withdraws it.
LEMMA OnlyPublishShows ==
  ASSUME TypeOK, [Next]_vars, NEW j \in Jobs
  PROVE  \/ \E w \in Workers : Publish(w) /\ summary' = Published(worker[w].job)
         \/ summary'[j] = summary[j]
         \/ summary[j] # "none" /\ summary'[j] = "stale"
<1> USE DEF rows, items, world
<1>1. CASE \E w \in Workers : Publish(w)
  <2>1. PICK w \in Workers : Publish(w)
    BY <1>1
  <2>2. summary' = Published(worker[w].job) \/ summary' = summary
    BY <2>1 DEF Publish
  <2> QED BY <2>1, <2>2
<1>2. ASSUME NEW w \in Workers, WorkerStep(w) \/ Crash(w), ~Publish(w)
      PROVE  summary' = summary
  BY <1>2 DEF WorkerStep, Claim, Select, Reserve, Save, Merge, WorkerError,
              Failure, Crash
<1>3. CASE Operator
  BY <1>3 DEF Operator, ResumeProfile, SaveModel, Enqueue, Cancel, Retry, Reschedule
<1>4. ASSUME NEW s \in Sources, Revise(s) \/ Recategorize(s)
      PROVE  \/ summary'[j] = summary[j]
             \/ summary[j] # "none" /\ summary'[j] = "stale"
  BY <1>4 DEF Revise, Recategorize, Depends
<1>5. ASSUME World, ~\E s \in Sources : Revise(s) \/ Recategorize(s)
      PROVE  summary' = summary
  BY <1>5 DEF World, DeleteProject, RestoreProject, NewDay, Expire, LeaseExpires,
              BecomesDue
<1>6. CASE UNCHANGED vars
  BY <1>6 DEF vars
<1> QED BY <1>1, <1>2, <1>3, <1>4, <1>5, <1>6 DEF Next

\* A job that publishes has a row.
LEMMA PublisherTyped ==
  ASSUME TypeOK, NEW w \in Workers, Publish(w)
  PROVE  worker[w].job \in Jobs
  BY DEF TypeOK, Publish

\* A group never shows two summaries, whatever the order in which its jobs
\* finish and whatever is withdrawn in between.
THEOREM OneShown == Spec => []OneCurrent
<1>1. Init => OneCurrent
  BY DEF Init, OneCurrent
<1>2. TypeOK /\ OneCurrent /\ [Next]_vars => OneCurrent'
  <2> SUFFICES ASSUME TypeOK, OneCurrent, [Next]_vars,
                      NEW i \in Jobs, NEW k \in Jobs, Group[i] = Group[k],
                      summary'[i] = "current", summary'[k] = "current"
               PROVE  i = k
    BY DEF OneCurrent
  <2>1. CASE \E w \in Workers : Publish(w) /\ summary' = Published(worker[w].job)
    <3>1. PICK w \in Workers : Publish(w) /\ summary' = Published(worker[w].job)
      BY <2>1
    <3> DEFINE j == worker[w].job
    <3>2. j \in Jobs
      BY <3>1, PublisherTyped
    <3>3. \A n \in Jobs : n # j /\ summary'[n] = "current" =>
            summary[n] = "current" /\ (Newer(j) \/ Group[n] # Group[j])
      BY <3>1 DEF Published
    <3>4. summary'[j] = "current" => ~Newer(j)
      BY <3>1, <3>2 DEF Published
    <3> HIDE DEF j
    <3> QED BY <3>2, <3>3, <3>4 DEF OneCurrent
  <2>2. CASE ~\E w \in Workers : Publish(w) /\ summary' = Published(worker[w].job)
    <3>1. summary[i] = "current" /\ summary[k] = "current"
      BY <2>2, OnlyPublishShows
    <3> QED BY <3>1 DEF OneCurrent
  <2> QED BY <2>1, <2>2
<1> QED BY <1>1, <1>2, TypeCorrect, PTL DEF Spec

-----------------------------------------------------------------------------
\* A job has a row only if it was planned with sources (enqueue()).
Planned == \A j \in Jobs : job[j].state # "none" => Manifest[j] # {}

\* No step gives an unplanned row a state.
LEMMA PlannedStep ==
  ASSUME TypeOK, [Next]_vars, NEW j \in Jobs, job[j].state = "none",
         job'[j].state # "none"
  PROVE  Manifest[j] # {}
<1> USE DEF rows, items, world
<1>0. job \in [Jobs -> JobRow]
  BY DEF TypeOK
<1> DEFINE Kept == job'[j] = job[j]
<1>1. ASSUME NEW w \in Workers, Claim(w) PROVE Kept
  <2>1. PICK dead \in SUBSET Exhausted :
          \/ \E c \in Claimable :
               job' = [FenceAll(dead, "dead_letter") EXCEPT ![c] = Leased(job[c], w)]
          \/ job' = FenceAll(dead, "dead_letter")
    BY <1>1 DEF Claim
  <2>2. j \notin Exhausted /\ j \notin Claimable
    BY DEF Exhausted, Claimable, Abandoned, Waiting
  <2>3. FenceAll(dead, "dead_letter")[j] = job[j]
    BY <2>2 DEF FenceAll
  <2>4. DOMAIN FenceAll(dead, "dead_letter") = Jobs
    BY DEF FenceAll
  <2> HIDE DEF Kept
  <2>5. CASE job' = FenceAll(dead, "dead_letter")
    BY <2>3, <2>5 DEF Kept
  <2>6. CASE ~(job' = FenceAll(dead, "dead_letter"))
    <3>1. PICK c \in Claimable :
            job' = [FenceAll(dead, "dead_letter") EXCEPT ![c] = Leased(job[c], w)]
      BY <2>1, <2>6
    <3>2. c # j
      BY <2>2
    <3> QED BY <2>3, <2>4, <3>1, <3>2 DEF Kept
  <2> QED BY <2>5, <2>6
<1>2. ASSUME NEW w \in Workers, Publish(w) \/ Failure(w) PROVE Kept
  <2>1. worker[w].pc # "idle" /\ worker[w].job \in Jobs
    BY <1>2 DEF Publish, Failure, TypeOK
  <2>2. CASE worker[w].job = j
    BY <1>0, <1>2, <2>2 DEF Publish, Failure, Owns, SameLease
  <2>3. CASE worker[w].job # j
    BY <1>0, <1>2, <2>3 DEF Publish, Failure
  <2> QED BY <2>2, <2>3
<1>3. ASSUME NEW w \in Workers,
             \/ Select(w) \/ Reserve(w) \/ Save(w) \/ Merge(w) \/ WorkerError(w)
             \/ Crash(w)
      PROVE  Kept
  BY <1>3 DEF Select, Reserve, Save, Merge, WorkerError, Crash
<1>4. ASSUME NEW i \in Jobs, Enqueue(i) PROVE Manifest[j] # {}
  <2>1. CASE i = j
    BY <1>4, <2>1 DEF Enqueue
  <2>2. CASE i # j
    BY <1>0, <1>4, <2>2 DEF Enqueue
  <2> QED BY <2>1, <2>2
<1>5. ASSUME NEW i \in Jobs, Cancel(i) \/ Retry(i) PROVE Kept
  <2>1. i # j
    BY <1>5 DEF Cancel, Retry, Retryable, Blocked
  <2> QED BY <1>5, <2>1, AllFields DEF Cancel, Retry
<1>6. ASSUME ResumeProfile \/ SaveModel PROVE Kept
  <2>1. job[j].state \notin Blocked \cup Waiting \cup {"leased"}
    BY DEF Blocked, Waiting
  <2>2. CASE ResumeProfile
    BY <2>1, <2>2 DEF ResumeProfile
  <2>3. CASE SaveModel
    BY <2>1, <2>3 DEF SaveModel, FenceAll
  <2> QED BY <1>6, <2>2, <2>3
<1>7. ASSUME NEW n \in Jobs, Reschedule(n) PROVE Manifest[j] # {}
  <2> DEFINE old == {i \in Jobs : /\ i < n /\ i \notin rescheduled
                                  /\ job[i].state \in Retryable \cup {"pending"}}
             F == FenceAll(old, "cancelled")
  <2>1. j \notin old
    BY DEF Retryable, Blocked
  <2>2. F[j] = job[j] /\ F \in [Jobs -> JobRow]
    BY <2>1, TableTypes, AllFields DEF JobState, Settled
  <2>3. \/ job' = F
        \/ Manifest[n] # {} /\ job' = [F EXCEPT ![n].state = "pending", ![n].runAfter = "past"]
    BY <1>7 DEF Reschedule
  <2> HIDE DEF F
  <2>4. CASE n = j
    BY <2>2, <2>3, <2>4
  <2>5. CASE n # j
    BY <2>2, <2>3, <2>5
  <2> QED BY <2>4, <2>5
<1>8. CASE DeleteProject \/ NewDay \/ \E s \in Sources : Revise(s) \/ Recategorize(s) \/ Expire(s)
  BY <1>8 DEF DeleteProject, NewDay, Revise, Recategorize, Expire
<1>9. CASE RestoreProject
  <2> DEFINE S == {i \in Jobs : job[i].state = "stale" /\ Manifest[i] \cap gone = {}}
  <2>1. RequeueAll(S)[j] = IF j \in S THEN Requeued(job[j]) ELSE job[j]
    BY AllFields
  <2>2. job'[j] = RequeueAll(S)[j] /\ j \notin S
    BY <1>9 DEF RestoreProject
  <2> HIDE DEF S
  <2> QED BY <2>1, <2>2
<1>10. ASSUME NEW i \in Jobs, LeaseExpires(i) \/ BecomesDue(i) PROVE Kept
  <2>1. i # j
    BY <1>10 DEF LeaseExpires, BecomesDue, Waiting
  <2> QED BY <1>0, <1>10, <2>1 DEF LeaseExpires, BecomesDue
<1>11. CASE UNCHANGED vars
  BY <1>11 DEF vars
<1> QED
  BY <1>1, <1>2, <1>3, <1>4, <1>5, <1>6, <1>7, <1>8, <1>9, <1>10, <1>11
     DEF Next, WorkerStep, Operator, World

\* Every row was planned with sources.
THEOREM AllPlanned == Spec => []Planned
<1>1. Init => Planned
  BY DEF Init, Planned, NewRow
<1>2. TypeOK /\ Planned /\ [Next]_vars => Planned'
  BY PlannedStep DEF Planned
<1> QED BY <1>1, <1>2, TypeCorrect, PTL DEF Spec

\* A delayed job that publishes never displaces the summary of a later planned
\* one whose sources are all current.
THEOREM NewerKept == Spec => NewerNotDisplaced
<1> DEFINE Kept == \A i, j \in Jobs :
             /\ i > j /\ Group[i] = Group[j]
             /\ summary[i] = "current" /\ \A s \in Manifest[i] : Live(s)
             /\ summary[j] = "none" /\ summary'[j] # "none"
             => summary'[i] = "current" /\ summary'[j] # "current"
<1>1. TypeOK /\ PublishedMeansSucceeded /\ Planned /\ [Next]_vars => Kept
  <2> SUFFICES ASSUME TypeOK, PublishedMeansSucceeded, Planned, [Next]_vars,
                      NEW i \in Jobs, NEW j \in Jobs, i > j, Group[i] = Group[j],
                      summary[i] = "current", \A s \in Manifest[i] : Live(s),
                      summary[j] = "none", summary'[j] # "none"
               PROVE  summary'[i] = "current" /\ summary'[j] # "current"
    OBVIOUS
  <2>1. PICK w \in Workers : Publish(w) /\ summary' = Published(worker[w].job)
    BY OnlyPublishShows
  <2>2. worker[w].job = j
    BY <2>1, PublisherTyped DEF Published
  <2>3. Manifest[i] # {}
    BY DEF PublishedMeansSucceeded, Planned
  <2>4. Newer(j)
    BY <2>3 DEF Newer
  <2>5. i # j
    BY JobsAssumption
  <2> QED BY <2>1, <2>2, <2>4, <2>5 DEF Published
<1>2. TypeOK /\ PublishedMeansSucceeded /\ Planned /\ [Next]_vars => [Kept]_vars
  BY <1>1
<1> HIDE DEF Kept
<1>3. Spec => [][Kept]_vars
  BY <1>2, TypeCorrect, PublishedOnce, AllPlanned, PTL DEF Spec
<1> QED BY <1>3 DEF NewerNotDisplaced, Kept

-----------------------------------------------------------------------------
(* A lease is held undisturbed *)

\* A step of a worker changes nobody else's memory, and only the row of its own
\* job while it holds the lease, or rows without a live lease.
LEMMA ElsewhereKept ==
  ASSUME TypeOK, NEW v \in Workers, WorkerStep(v) \/ Crash(v),
         NEW w \in Workers, v # w
  PROVE  /\ worker'[w] = worker[w]
         /\ \A j \in Jobs :
              \/ job'[j] = job[j]
              \/ Busy(v) /\ SameLease(v) /\ worker[v].job = j
              \/ job[j].state # "leased" \/ job[j].expires # "future"
<1> USE DEF rows
<1>1. worker'[w] = worker[w]
  <2>1. \/ UNCHANGED worker
        \/ \E r : worker' = [worker EXCEPT ![v] = r]
    <3>1. CASE Claim(v)
      BY <3>1 DEF Claim
    <3>2. CASE Select(v)
      <4>1. \/ \E c : Fails(v, c)
            \/ \E B, pc : worker' = [worker EXCEPT ![v].batch = B, ![v].pc = pc]
        BY <3>2 DEF Select
      <4> QED BY <4>1 DEF Fails
    <3>3. CASE Reserve(v) \/ Save(v) \/ Merge(v) \/ WorkerError(v) \/ Publish(v)
      <4>1. \/ \E c : Fails(v, c)
            \/ \E pc : Moves(v, pc)
            \/ worker' = [worker EXCEPT ![v] = Idle]
        BY <3>3 DEF Reserve, Save, Merge, WorkerError, Publish
      <4> QED BY <4>1 DEF Fails, Moves
    <3>4. CASE Failure(v) \/ Crash(v)
      BY <3>4 DEF Failure, Crash
    <3> QED BY <3>1, <3>2, <3>3, <3>4 DEF WorkerStep
  <2> QED BY <2>1 DEF TypeOK
<1>2. ASSUME NEW j \in Jobs
      PROVE  \/ job'[j] = job[j]
             \/ Busy(v) /\ SameLease(v) /\ worker[v].job = j
             \/ job[j].state # "leased" \/ job[j].expires # "future"
  <2>1. CASE Claim(v)
    <3>1. PICK dead \in SUBSET Exhausted :
            \/ \E c \in Claimable :
                 job' = [FenceAll(dead, "dead_letter") EXCEPT ![c] = Leased(job[c], v)]
            \/ job' = FenceAll(dead, "dead_letter")
      BY <2>1 DEF Claim
    <3>2. \A i \in Jobs : i \notin dead => FenceAll(dead, "dead_letter")[i] = job[i]
      BY DEF FenceAll
    <3>3. job'[j] = job[j] \/ j \in dead \/ j \in Claimable
      BY <3>1, <3>2 DEF FenceAll
    <3>4. j \in Exhausted \cup Claimable =>
            job[j].state # "leased" \/ job[j].expires = "past"
      BY DEF Exhausted, Claimable, Abandoned, Waiting
    <3> QED BY <3>3, <3>4
  <2>2. CASE Publish(v)
    <3>1. \/ job' = job
          \/ /\ Busy(v) /\ SameLease(v)
             /\ \E r : job' = [job EXCEPT ![worker[v].job] = r]
      BY <2>2 DEF Publish, Owns, Busy
    <3> QED BY <3>1 DEF TypeOK
  <2>3. CASE Failure(v)
    <3>1. \/ job' = job
          \/ /\ Busy(v) /\ SameLease(v)
             /\ \E r : job' = [job EXCEPT ![worker[v].job] = r]
      BY <2>3 DEF Failure, Busy
    <3> QED BY <3>1 DEF TypeOK
  <2>4. CASE \/ Select(v) \/ Reserve(v) \/ Save(v) \/ Merge(v) \/ WorkerError(v)
             \/ Crash(v)
    BY <2>4 DEF Select, Reserve, Save, Merge, WorkerError, Crash
  <2> QED BY <2>1, <2>2, <2>3, <2>4 DEF WorkerStep
<1> QED BY <1>1, <1>2

\* A worker's memory changes only by a step of its own.
LEMMA OwnMemory ==
  ASSUME TypeOK, [Next]_vars, NEW v \in Workers, worker'[v] # worker[v]
  PROVE  WorkerStep(v) \/ Crash(v)
<1>1. ASSUME Operator \/ World \/ UNCHANGED vars PROVE worker' = worker
  BY <1>1 DEF vars, Operator, World, Enqueue, Cancel, Retry, Reschedule, ResumeProfile,
       SaveModel, DeleteProject, RestoreProject, NewDay, Revise, Recategorize,
       Expire, LeaseExpires, BecomesDue
<1>2. PICK u \in Workers : WorkerStep(u) \/ Crash(u)
  BY <1>1 DEF Next
<1> QED BY <1>2, ElsewhereKept

\* A live lease is only ended by its holder, by an operator or by time: no
\* step of another worker, however late, takes it away.
THEOREM LeaseUndisturbed == Spec => HolderUndisturbed
<1>1. ASSUME TypeOK, LeaseExclusive, [Next]_vars, NEW v \in Workers, NEW w \in Workers,
             v # w, worker'[v] # worker[v], Busy(w), Owns(w)
      PROVE  Owns(w)'
  <2> DEFINE j == worker[w].job
  <2>1. j \in Jobs
    BY <1>1 DEF TypeOK, Busy
  <2>2. WorkerStep(v) \/ Crash(v)
    BY <1>1, OwnMemory
  <2>3. worker'[w] = worker[w]
    BY <1>1, <2>2, ElsewhereKept
  <2>4. job[j].state = "leased" /\ job[j].expires = "future"
    BY <1>1 DEF Owns, SameLease
  <2>5. ~(Busy(v) /\ SameLease(v) /\ worker[v].job = j)
    BY <1>1 DEF LeaseExclusive, Owns
  <2>6. job'[j] = job[j]
    BY <1>1, <2>1, <2>2, <2>4, <2>5, ElsewhereKept
  <2> QED BY <1>1, <2>3, <2>6 DEF Owns, SameLease
<1>2. TypeOK /\ LeaseExclusive /\ [Next]_vars =>
        [\A v, w \in Workers :
           /\ v # w /\ worker'[v] # worker[v]
           /\ Busy(w) /\ Owns(w)
           => Owns(w)']_vars
  BY <1>1
<1> QED BY <1>2, TypeCorrect, LeasesExclude, PTL DEF Spec, HolderUndisturbed

-----------------------------------------------------------------------------
(* What is confirmed is not paid for again *)

\* Only a save or a merge by the holder of the lease confirms anything, and
\* only of that job.
LEMMA OnlyHolderConfirms ==
  ASSUME TypeOK, [Next]_vars, NEW j \in Jobs
  PROVE  \/ done'[j] = done[j] /\ segs'[j] = segs[j]
         \/ \E u \in Workers : /\ Save(u) \/ Merge(u)
                               /\ Busy(u) /\ SameLease(u) /\ worker[u].job = j
<1> USE DEF items, rows, world
<1>1. ASSUME NEW u \in Workers, Save(u) \/ Merge(u)
      PROVE  \/ done'[j] = done[j] /\ segs'[j] = segs[j]
             \/ Busy(u) /\ SameLease(u) /\ worker[u].job = j
  <2>1. \/ UNCHANGED items
        \/ /\ Busy(u) /\ SameLease(u)
           /\ \/ \E d : done' = [done EXCEPT ![worker[u].job] = d] /\ UNCHANGED segs
              \/ \E d : segs' = [segs EXCEPT ![worker[u].job] = d] /\ UNCHANGED done
    BY <1>1 DEF Save, Merge, Owns, Busy
  <2> QED BY <2>1 DEF TypeOK
<1>2. ASSUME NEW u \in Workers, WorkerStep(u) \/ Crash(u), ~Save(u), ~Merge(u)
      PROVE  UNCHANGED items
  BY <1>2 DEF WorkerStep, Claim, Select, Reserve, WorkerError, Failure, Publish, Crash
<1>3. ASSUME Operator \/ World PROVE UNCHANGED items
  BY <1>3 DEF Operator, World, Enqueue, Cancel, Retry, Reschedule, ResumeProfile,
       SaveModel, DeleteProject, RestoreProject, NewDay, Revise, Recategorize,
       Expire, LeaseExpires, BecomesDue
<1>4. CASE UNCHANGED vars
  BY <1>4 DEF vars
<1> QED BY <1>1, <1>2, <1>3, <1>4 DEF Next

\* As long as its fence is the job's, what is confirmed does not change behind
\* a worker's back.
LEMMA ConfirmedKept ==
  ASSUME TypeOK, PublishedMeansSucceeded, FencesDistinct, [Next]_vars,
         NEW w \in Workers, Busy(w), ~Save(w), ~Merge(w),
         worker[w].fence = job'[worker[w].job].fence
  PROVE  /\ worker[w].fence = job[worker[w].job].fence
         /\ done'[worker[w].job] = done[worker[w].job]
         /\ segs'[worker[w].job] = segs[worker[w].job]
<1> DEFINE j == worker[w].job
<1>1. j \in Jobs
  BY DEF TypeOK, Busy
<1>2. job[j].fence \in Nat /\ job'[j].fence \in Nat /\ worker[w].fence \in Nat
  <2>1. TypeOK'
    BY TypeStep
  <2> QED BY <1>1, <2>1 DEF TypeOK, JobRow, WorkerRow
<1>3. worker[w].fence <= job[j].fence /\ job[j].fence <= job'[j].fence
  <2>1. RowStep(j)
    BY <1>1, RowSteps
  <2> QED BY <1>1, <1>2, <2>1 DEF FencesDistinct, RowStep
<1>4. worker[w].fence = job[j].fence
  BY <1>2, <1>3
<1>5. ~\E u \in Workers : /\ Save(u) \/ Merge(u)
                          /\ Busy(u) /\ SameLease(u) /\ worker[u].job = j
  BY <1>1, <1>4 DEF FencesDistinct, SameLease
<1> HIDE DEF j
<1>6. done'[j] = done[j] /\ segs'[j] = segs[j]
  BY <1>1, <1>5, OnlyHolderConfirms
<1> QED BY <1>4, <1>6 DEF j

\* A step of others leaves what a worker has selected unconfirmed.
LEMMA UnpaidByOthers ==
  ASSUME TypeOK, PublishedMeansSucceeded, FencesDistinct, [Next]_vars,
         NEW w \in Workers, worker'[w] = worker[w], UnpaidBy(w),
         ~Save(w), ~Merge(w)
  PROVE  UnpaidBy(w)'
<1> SUFFICES ASSUME worker[w].pc \in {"ready", "sent", "resent"},
                    worker[w].fence = job'[worker[w].job].fence
             PROVE  /\ worker[w].fence = job[worker[w].job].fence
                    /\ done'[worker[w].job] = done[worker[w].job]
                    /\ segs'[worker[w].job] = segs[worker[w].job]
  BY DEF UnpaidBy
<1>1. Busy(w)
  BY DEF Busy
<1> QED BY <1>1, ConfirmedKept

\* A worker selects what is unconfirmed, and sends it before it is confirmed.
LEMMA UnpaidBySelf ==
  ASSUME TypeOK, NEW w \in Workers, WorkerStep(w) \/ Crash(w), UnpaidBy(w)
  PROVE  UnpaidBy(w)'
<1> USE DEF items, rows, world
<1> DEFINE j == worker[w].job
<1>0. /\ worker \in [Workers -> WorkerRow] /\ worker[w] \in WorkerRow
      /\ worker[w].pc # "idle" => j \in Jobs
      /\ done \in [Jobs -> SUBSET Sources] /\ segs \in [Jobs -> [Sources -> Nat]]
  BY DEF TypeOK
<1>1. ASSUME worker'[w].pc \notin {"ready", "sent", "resent"} PROVE UnpaidBy(w)'
  BY <1>1 DEF UnpaidBy
<1>2. ASSUME NEW c, Fails(w, c) PROVE UnpaidBy(w)'
  <2>1. worker'[w].pc = "fail"
    BY <1>0, <1>2 DEF Fails, WorkerRow
  <2> QED BY <1>1, <2>1
<1>3. ASSUME NEW pc, Moves(w, pc)
      PROVE  /\ worker'[w].pc = pc /\ worker'[w].job = j
             /\ worker'[w].batch = worker[w].batch /\ worker'[w].fence = worker[w].fence
  BY <1>0, <1>3 DEF Moves, WorkerRow
<1>4. ASSUME worker' = [worker EXCEPT ![w] = Idle] PROVE UnpaidBy(w)'
  <2>1. worker'[w].pc = "idle"
    BY <1>0, <1>4 DEF Idle
  <2> QED BY <1>1, <2>1
<1>5. CASE Claim(w)
  <2>1. worker'[w].pc \in {"idle", "loop"}
    <3>1. PICK dead \in SUBSET Exhausted :
            \/ \E i \in Claimable : worker' = [worker EXCEPT ![w] =
                 [Idle EXCEPT !.pc = "loop", !.job = i,
                              !.fence = Leased(job[i], w).fence]]
            \/ UNCHANGED worker
      BY <1>5 DEF Claim
    <3>2. \A i, f : [Idle EXCEPT !.pc = "loop", !.job = i, !.fence = f].pc = "loop"
      BY DEF Idle
    <3>3. worker[w].pc = "idle"
      BY <1>5 DEF Claim
    <3>4. ASSUME NEW i \in Claimable,
                 worker' = [worker EXCEPT ![w] =
                   [Idle EXCEPT !.pc = "loop", !.job = i,
                                !.fence = Leased(job[i], w).fence]]
          PROVE  worker'[w].pc = "loop"
      <4> DEFINE r == [Idle EXCEPT !.pc = "loop", !.job = i,
                                   !.fence = Leased(job[i], w).fence]
      <4>1. r.pc = "loop"
        BY <3>2
      <4>2. worker' = [worker EXCEPT ![w] = r]
        BY <3>4
      <4> HIDE DEF r
      <4> QED BY <1>0, <4>1, <4>2
    <3> QED BY <3>1, <3>3, <3>4
  <2> QED BY <1>1, <2>1
<1>6. CASE Select(w)
  <2>1. CASE \E c : Fails(w, c)
    BY <1>2, <2>1
  <2>2. CASE ~\E c : Fails(w, c)
    <3>1. PICK B \in Batches(j) :
            worker' = [worker EXCEPT
              ![w].batch = B, ![w].pc = IF NeedsCall(j, B) THEN "ready" ELSE "merge"]
      BY <1>6, <2>2 DEF Select
    <3> DEFINE pc == IF NeedsCall(j, B) THEN "ready" ELSE "merge"
    <3>2. /\ worker'[w].pc = pc /\ worker'[w].batch = B
          /\ worker'[w].job = j /\ worker'[w].fence = worker[w].fence
      <4> HIDE DEF pc
      <4>1. worker' = [worker EXCEPT ![w].batch = B, ![w].pc = pc]
        BY <3>1 DEF pc
      <4> QED BY <1>0, <4>1 DEF WorkerRow
    <3>3. done' = done /\ segs' = segs
      BY <1>6 DEF Select
    <3>4. /\ B \subseteq Todo(j)
          /\ \A s, t \in B : Segments[s] > 1 => s = t
      <4>1. j \in Jobs
        BY <1>0, <1>6 DEF Select
      <4>2. \A s \in Todo(j) : Segments[s] \in Nat /\ ~(Segments[s] = 1 /\ Segments[s] > 1)
        <5>1. Todo(j) \subseteq Sources
          BY <4>1 DEF Todo
        <5>2. \A s \in Sources : Segments[s] \in Nat
          OBVIOUS
        <5>3. \A n \in Nat : ~(n = 1 /\ n > 1)
          OBVIOUS
        <5> QED BY <5>1, <5>2, <5>3
      <4>3. CASE B \subseteq Todo(j) /\ \A s \in B : Segments[s] = 1
        BY <4>2, <4>3
      <4>4. CASE \E s \in Todo(j) : B = {s}
        BY <4>4
      <4> QED BY <3>1, <4>3, <4>4 DEF Batches
    <3>5. CASE NeedsCall(j, B)
      <4>1. B \cap done[j] = {}
        BY <3>4 DEF Todo
      <4>2. \A s \in B : segs[j][s] < Segments[s]
        BY <3>5 DEF NeedsCall
      <4> QED BY <3>2, <3>3, <3>4, <4>1, <4>2 DEF UnpaidBy
    <3>6. CASE ~NeedsCall(j, B)
      BY <1>1, <3>2, <3>6
    <3> QED BY <3>5, <3>6
  <2> QED BY <2>1, <2>2
<1>7. CASE Reserve(w)
  <2>1. CASE \E c : Fails(w, c)
    BY <1>2, <2>1
  <2>2. CASE ~\E c : Fails(w, c)
    <3>1. PICK pc : Moves(w, pc)
      BY <1>7, <2>2 DEF Reserve
    <3>2. done' = done /\ segs' = segs /\ job' = job
      BY <1>7 DEF Reserve
    <3>3. worker[w].pc \in {"ready", "sent", "resent"}
      BY <1>7 DEF Reserve
    <3> QED BY <1>3, <3>1, <3>2, <3>3 DEF UnpaidBy
  <2> QED BY <2>1, <2>2
<1>8. CASE Save(w)
  <2>1. CASE \E pc \in {"loop", "merge"} : Moves(w, pc)
    BY <1>1, <1>3, <2>1
  <2>2. CASE \E c : Fails(w, c)
    BY <1>2, <2>2
  <2>3. CASE ~(\E c : Fails(w, c)) /\ ~(\E pc \in {"loop", "merge"} : Moves(w, pc))
    <3>1. PICK s \in worker[w].batch :
            /\ Segments[s] > 1 /\ segs[j][s] + 1 < Segments[s]
            /\ segs' = [segs EXCEPT ![j][s] = @ + 1]
            /\ Moves(w, "ready")
            /\ Owns(w) /\ UNCHANGED done
      BY <1>8, <2>3 DEF Save
    <3>2. j \in Jobs /\ worker[w].batch \subseteq Sources
      BY <1>0, <1>8 DEF Save, WorkerRow
    <3>3. /\ worker[w].batch \cap done[j] = {}
          /\ \A x, t \in worker[w].batch : Segments[x] > 1 => x = t
      <4>1. worker[w].pc \in {"ready", "sent", "resent"} /\ worker[w].fence = job[j].fence
        BY <1>8, <3>1 DEF Save, Owns, SameLease
      <4> QED BY <4>1 DEF UnpaidBy
    <3>4. segs'[j][s] = segs[j][s] + 1
      BY <1>0, <3>1, <3>2
    <3>5. \A x \in worker[w].batch : segs'[j][x] < Segments[x]
      BY <3>1, <3>3, <3>4
    <3> QED BY <1>3, <3>1, <3>3, <3>5 DEF UnpaidBy
  <2> QED BY <2>1, <2>2, <2>3
<1>9. CASE Merge(w)
  <2>1. (\E c : Fails(w, c)) \/ Moves(w, "loop")
    BY <1>9 DEF Merge
  <2> QED BY <1>1, <1>2, <1>3, <2>1
<1>10. CASE Publish(w) \/ WorkerError(w) \/ Failure(w) \/ Crash(w)
  <2>1. (\E c : Fails(w, c)) \/ worker' = [worker EXCEPT ![w] = Idle]
    BY <1>10 DEF Publish, WorkerError, Failure, Crash
  <2> QED BY <1>2, <1>4, <2>1
<1> QED BY <1>5, <1>6, <1>7, <1>8, <1>9, <1>10 DEF WorkerStep

\* In every reachable state, what the holder of a fence has selected is unconfirmed.
THEOREM SelectedUnpaid == Spec => []Unpaid
<1>1. Init => Unpaid
  BY DEF Init, Unpaid, UnpaidBy, Idle
<1>2. TypeOK /\ PublishedMeansSucceeded /\ FencesDistinct /\ Unpaid /\ [Next]_vars
      => Unpaid'
  <2> SUFFICES ASSUME TypeOK, PublishedMeansSucceeded, FencesDistinct, [Next]_vars,
                      NEW w \in Workers, UnpaidBy(w)
               PROVE  UnpaidBy(w)'
    BY DEF Unpaid
  <2>1. CASE WorkerStep(w) \/ Crash(w)
    BY <2>1, UnpaidBySelf
  <2>2. CASE ~(WorkerStep(w) \/ Crash(w))
    BY <2>2, OwnMemory, UnpaidByOthers DEF WorkerStep
  <2> QED BY <2>1, <2>2
<1> QED BY <1>1, <1>2, TypeCorrect, PublishedOnce, Fencing, PTL DEF Spec

\* No model call is made for an item or a segment that is already confirmed,
\* whatever crashes and takeovers came before.
THEOREM NeverBilledTwice == Spec => ConfirmedNotBilledAgain
<1>1. ASSUME TypeOK, Unpaid, [Next]_vars, NEW w \in Workers,
             worker[w].pc = "ready", worker'[w].pc = "sent"
      PROVE  /\ worker[w].batch \cap done[worker[w].job] = {}
             /\ \A s \in worker[w].batch : segs[worker[w].job][s] < Segments[s]
  <2>1. WorkerStep(w) \/ Crash(w)
    BY <1>1, OwnMemory
  <2>2. Owns(w)
    <3>1. ASSUME NEW c, Fails(w, c) PROVE FALSE
      BY <1>1, <3>1 DEF Fails, TypeOK, WorkerRow
    <3>2. ~Crash(w)
      BY <1>1 DEF Crash, TypeOK, Idle
    <3>3. Reserve(w)
      BY <1>1, <2>1, <3>1, <3>2 DEF WorkerStep, Claim, Select, Save, Merge, Publish,
         WorkerError, Failure
    <3> QED BY <3>1, <3>3 DEF Reserve
  <2> QED BY <1>1, <2>2 DEF Unpaid, UnpaidBy, Owns, SameLease
<1>2. TypeOK /\ Unpaid /\ [Next]_vars =>
        [\A w \in Workers :
           worker[w].pc = "ready" /\ worker'[w].pc = "sent" =>
             /\ worker[w].batch \cap done[worker[w].job] = {}
             /\ \A s \in worker[w].batch : segs[worker[w].job][s] < Segments[s]]_vars
  BY <1>1
<1> QED BY <1>2, TypeCorrect, SelectedUnpaid, PTL DEF Spec, ConfirmedNotBilledAgain

-----------------------------------------------------------------------------
(* The queue implements its ledger *)

\* How a worker comes to select, send or merge something: it selects a batch,
\* it reserves a call for it, or it saves an answer about it.
LEMMA OwnStep ==
  ASSUME TypeOK, NEW w \in Workers, WorkerStep(w) \/ Crash(w),
         worker'[w].pc \in Working \ {"loop"}
  PROVE  /\ worker'[w].job = worker[w].job /\ worker'[w].fence = worker[w].fence
         /\ \/ /\ Select(w) /\ worker'[w].batch \in Batches(worker[w].job)
               /\ worker'[w].pc = "merge" => ~NeedsCall(worker[w].job, worker'[w].batch)
            \/ /\ Reserve(w) \/ (Save(w) /\ Owns(w))
               /\ worker'[w].batch = worker[w].batch
<1> USE DEF Working
<1>0. worker \in [Workers -> WorkerRow]
  BY DEF TypeOK
<1>1. ASSUME NEW c, Fails(w, c) PROVE FALSE
  <2>1. worker'[w].pc = "fail"
    BY <1>0, <1>1 DEF Fails, WorkerRow
  <2> QED BY <2>1
<1>2. worker' # [worker EXCEPT ![w] = Idle]
  BY <1>0 DEF Idle
<1>3. ASSUME NEW pc, Moves(w, pc)
      PROVE  /\ worker'[w].pc = pc /\ worker'[w].job = worker[w].job
             /\ worker'[w].batch = worker[w].batch /\ worker'[w].fence = worker[w].fence
  BY <1>0, <1>3 DEF Moves, WorkerRow
<1>4. ~Claim(w)
  <2> SUFFICES ASSUME Claim(w) PROVE FALSE
    OBVIOUS
  <2>1. PICK dead \in SUBSET Exhausted :
          \/ \E i \in Claimable : worker' = [worker EXCEPT ![w] =
               [Idle EXCEPT !.pc = "loop", !.job = i,
                            !.fence = Leased(job[i], w).fence]]
          \/ UNCHANGED worker
    BY DEF Claim
  <2>2. worker[w].pc = "idle"
    BY DEF Claim
  <2>3. PICK i \in Claimable : worker' = [worker EXCEPT ![w] =
               [Idle EXCEPT !.pc = "loop", !.job = i,
                            !.fence = Leased(job[i], w).fence]]
    BY <2>1, <2>2
  <2> DEFINE f == Leased(job[i], w).fence
             r == [Idle EXCEPT !.pc = "loop", !.job = i, !.fence = f]
  <2> HIDE DEF f
  <2>4. r.pc = "loop"
    BY DEF Idle
  <2>5. worker' = [worker EXCEPT ![w] = r]
    BY <2>3 DEF f
  <2> HIDE DEF r
  <2> QED BY <1>0, <2>4, <2>5
<1>5. CASE Select(w)
  <2>1. PICK B \in Batches(worker[w].job) :
          worker' = [worker EXCEPT ![w].batch = B,
                      ![w].pc = IF NeedsCall(worker[w].job, B) THEN "ready" ELSE "merge"]
    BY <1>1, <1>5 DEF Select
  <2> DEFINE pc == IF NeedsCall(worker[w].job, B) THEN "ready" ELSE "merge"
  <2>2. pc = "merge" => ~NeedsCall(worker[w].job, B)
    OBVIOUS
  <2> HIDE DEF pc
  <2>3. worker' = [worker EXCEPT ![w].batch = B, ![w].pc = pc]
    BY <2>1 DEF pc
  <2>4. /\ worker'[w].pc = pc /\ worker'[w].batch = B
        /\ worker'[w].job = worker[w].job /\ worker'[w].fence = worker[w].fence
    BY <1>0, <2>3 DEF WorkerRow
  <2> QED BY <1>5, <2>2, <2>4
<1>6. CASE Reserve(w)
  <2>1. PICK pc : Moves(w, pc)
    BY <1>1, <1>6 DEF Reserve
  <2> QED BY <1>3, <1>6, <2>1
<1>7. CASE Save(w)
  <2>1. Owns(w) /\ \E pc : Moves(w, pc)
    BY <1>1, <1>7 DEF Save
  <2> QED BY <1>3, <1>7, <2>1
<1>8. ~Merge(w)
  BY <1>1, <1>3 DEF Merge
<1>9. ~(Publish(w) \/ WorkerError(w) \/ Failure(w) \/ Crash(w))
  BY <1>1, <1>2 DEF Publish, WorkerError, Failure, Crash
<1> QED BY <1>4, <1>5, <1>6, <1>7, <1>8, <1>9 DEF WorkerStep

\* Whoever confirms has selected planned and unconfirmed work.
LEMMA ConfirmedStep ==
  ASSUME TypeOK, Unpaid, ConfirmedPlanned, Mergeable, [Next]_vars
  PROVE  ConfirmedPlanned'
<1> USE DEF items
<1> SUFFICES ASSUME NEW j \in Jobs
             PROVE  /\ done'[j] \subseteq Manifest[j]
                    /\ \A s \in Sources :
                         segs'[j][s] <= IF Segments[s] > 1 THEN Segments[s] ELSE 0
  BY DEF ConfirmedPlanned
<1>0. /\ done[j] \subseteq Manifest[j]
      /\ \A s \in Sources : segs[j][s] <= IF Segments[s] > 1 THEN Segments[s] ELSE 0
      /\ done \in [Jobs -> SUBSET Sources] /\ segs \in [Jobs -> [Sources -> Nat]]
  BY DEF ConfirmedPlanned, TypeOK
<1>1. CASE done'[j] = done[j] /\ segs'[j] = segs[j]
  BY <1>0, <1>1
<1>2. ASSUME NEW u \in Workers, Save(u) \/ Merge(u), SameLease(u), worker[u].job = j
      PROVE  /\ done'[j] \subseteq Manifest[j]
             /\ \A s \in Sources :
                  segs'[j][s] <= IF Segments[s] > 1 THEN Segments[s] ELSE 0
  <2>1. worker[u].batch \subseteq Manifest[j]
    BY <1>2 DEF Mergeable, MergeableBy, Working, Save, Merge
  <2>2. done'[j] \subseteq done[j] \cup worker[u].batch
    BY <1>0, <1>2 DEF Save, Merge
  <2>3. CASE segs'[j] = segs[j]
    BY <1>0, <2>1, <2>2, <2>3
  <2>4. CASE segs'[j] # segs[j]
    <3>1. PICK s \in worker[u].batch :
            Segments[s] > 1 /\ segs' = [segs EXCEPT ![j][s] = @ + 1]
      BY <1>2, <2>4 DEF Save, Merge
    <3>2. Save(u) /\ worker[u].pc \in {"sent", "resent"}
      BY <1>2, <2>4 DEF Save, Merge
    <3>3. segs[j][s] < Segments[s]
      BY <1>2, <3>2 DEF Unpaid, UnpaidBy, SameLease
    <3>4. s \in Sources /\ Segments[s] \in Nat /\ segs[j][s] \in Nat
      <4>1. s \in Sources
        BY <2>1
      <4> QED BY <1>0, <4>1
    <3>5. \A x \in Sources : segs'[j][x] = IF x = s THEN segs[j][s] + 1 ELSE segs[j][x]
      BY <1>0, <3>1
    <3>6. segs'[j][s] <= Segments[s]
      BY <3>3, <3>4, <3>5
    <3> QED BY <1>0, <2>1, <2>2, <3>1, <3>5, <3>6
  <2> QED BY <2>3, <2>4
<1> QED BY <1>1, <1>2, OnlyHolderConfirms

\* What a batch holds: sources the job still has to confirm, and more than one
\* only if each is sent whole.
LEMMA BatchFacts ==
  ASSUME NEW j \in Jobs, NEW B \in Batches(j)
  PROVE  /\ B \subseteq Manifest[j] /\ B \cap done[j] = {}
         /\ \A s, t \in B : Segments[s] > 1 => s = t
<1>1. \A s \in Todo(j) : Segments[s] \in Nat /\ ~(Segments[s] = 1 /\ Segments[s] > 1)
  <2>1. Todo(j) \subseteq Sources
    BY DEF Todo
  <2>2. \A s \in Sources : Segments[s] \in Nat
    OBVIOUS
  <2>3. \A n \in Nat : ~(n = 1 /\ n > 1)
    OBVIOUS
  <2> QED BY <2>1, <2>2, <2>3
<1>2. CASE B \subseteq Todo(j) /\ \A s \in B : Segments[s] = 1
  BY <1>1, <1>2 DEF Todo
<1>3. CASE \E s \in Todo(j) : B = {s}
  BY <1>3 DEF Todo
<1> QED BY <1>2, <1>3 DEF Batches

\* What others do leaves the mergeable mergeable.
LEMMA MergeableByOthers ==
  ASSUME TypeOK, PublishedMeansSucceeded, FencesDistinct, [Next]_vars,
         NEW w \in Workers, worker'[w] = worker[w], MergeableBy(w),
         ~Save(w), ~Merge(w)
  PROVE  MergeableBy(w)'
<1>1. worker[w].pc = "merge" => Busy(w)
  BY DEF Busy
<1> QED BY <1>1, ConfirmedKept DEF MergeableBy

\* A worker goes on to merge what it has found, or made, entirely confirmed.
LEMMA MergeableBySelf ==
  ASSUME TypeOK, ConfirmedPlanned, NEW w \in Workers, WorkerStep(w) \/ Crash(w),
         MergeableBy(w), UnpaidBy(w)
  PROVE  MergeableBy(w)'
<1> USE DEF items
<1> DEFINE j == worker[w].job
<1>1. CASE worker'[w].pc \notin Working \ {"loop"}
  BY <1>1 DEF MergeableBy, Working
<1>2. ASSUME worker'[w].pc \in Working \ {"loop"}, Select(w)
      PROVE  MergeableBy(w)'
  <2> DEFINE B == worker'[w].batch
  <2>1. j \in Jobs /\ done' = done /\ segs' = segs
    BY <1>2 DEF Select, TypeOK
  <2>2. /\ worker'[w].job = j /\ B \in Batches(j)
        /\ worker'[w].pc = "merge" => ~NeedsCall(j, B)
    <3>1. worker[w].pc = "loop"
      BY <1>2 DEF Select
    <3> QED BY <1>2, <3>1, OwnStep DEF Reserve, Save
  <2>3. /\ B \subseteq Manifest[j] /\ B \cap done[j] = {}
        /\ \A s, t \in B : Segments[s] > 1 => s = t
    <3>1. \A k \in Jobs : \A C \in Batches(k) :
            /\ C \subseteq Manifest[k] /\ C \cap done[k] = {}
            /\ \A s, t \in C : Segments[s] > 1 => s = t
      BY BatchFacts
    <3> HIDE DEF B, j
    <3> QED BY <2>1, <2>2, <3>1
  <2>4. ASSUME ~NeedsCall(j, B), NEW s \in B, Segments[s] > 1
        PROVE  segs[j][s] = Segments[s]
    <3>1. PICK t \in B : ~(segs[j][t] < Segments[t])
      BY <2>4 DEF NeedsCall
    <3>2. s = t
      BY <2>3, <2>4
    <3>3. s \in Sources
      BY <2>1, <2>3
    <3>4. segs[j][s] \in Nat /\ Segments[s] \in Nat
      <4>1. segs \in [Jobs -> [Sources -> Nat]]
        BY DEF TypeOK
      <4> HIDE DEF j
      <4> QED BY <2>1, <3>3, <4>1
    <3>5. segs[j][s] <= Segments[s]
      <4> HIDE DEF j
      <4> QED BY <2>1, <2>4, <3>3 DEF ConfirmedPlanned
    <3> QED BY <3>1, <3>2, <3>4, <3>5
  <2> HIDE DEF B, j
  <2>5. /\ worker'[w].pc = "merge" => ~NeedsCall(j, B)
        /\ worker'[w].job = j /\ worker'[w].batch = B
    BY <2>2 DEF B
  <2> QED BY <2>1, <2>3, <2>4, <2>5 DEF MergeableBy
<1>3. ASSUME worker'[w].pc \in Working \ {"loop"}, ~Select(w)
      PROVE  MergeableBy(w)'
  <2> DEFINE B == worker[w].batch
  <2>1. /\ worker'[w].job = j /\ worker'[w].batch = B
        /\ Reserve(w) \/ (Save(w) /\ Owns(w))
    BY <1>3, OwnStep
  <2>2. j \in Jobs /\ B \subseteq Manifest[j] /\ worker[w] \in WorkerRow
    BY <2>1 DEF MergeableBy, Working, Reserve, Save, TypeOK
  <2>3. CASE worker'[w].pc # "merge"
    BY <2>1, <2>2, <2>3 DEF MergeableBy
  <2>4. CASE worker'[w].pc = "merge"
    <3>1. /\ Save(w) /\ SameLease(w)
          /\ worker[w].pc \in {"sent", "resent"}
          /\ \E c \in {"merge"} : Moves(w, c)
      <4>1. worker[w].pc \in {"ready", "sent", "resent"} /\ worker \in [Workers -> WorkerRow]
        BY <2>1 DEF Reserve, Save, TypeOK
      <4>2. ASSUME NEW c, Fails(w, c) PROVE FALSE
        BY <2>4, <4>1, <4>2 DEF Fails, WorkerRow
      <4>3. ASSUME NEW pc, Moves(w, pc) PROVE pc = "merge"
        BY <2>4, <4>1, <4>3 DEF Moves, WorkerRow
      <4>4. ~Reserve(w)
        BY <4>2, <4>3 DEF Reserve
      <4> QED BY <2>1, <4>2, <4>3, <4>4 DEF Save, Owns
    <3>2. PICK s \in B :
            /\ Segments[s] > 1 /\ ~(segs[j][s] + 1 < Segments[s])
            /\ segs' = [segs EXCEPT ![j][s] = @ + 1] /\ done' = done
      <4>1. ASSUME Moves(w, "loop") \/ Moves(w, "ready") PROVE FALSE
        BY <2>4, <4>1 DEF Moves, WorkerRow, TypeOK
      <4>2. ASSUME NEW c, Fails(w, c) PROVE FALSE
        BY <2>4, <4>2 DEF Fails, WorkerRow, TypeOK
      <4> QED BY <3>1, <4>1, <4>2 DEF Save
    <3>3. /\ B \cap done[j] = {} /\ segs[j][s] < Segments[s]
          /\ \A x, t \in B : Segments[x] > 1 => x = t
      BY <3>1 DEF UnpaidBy, SameLease
    <3>4. s \in Sources
      BY <2>2
    <3>5. segs[j][s] \in Nat /\ Segments[s] \in Nat /\ segs'[j][s] = segs[j][s] + 1
      <4>1. segs \in [Jobs -> [Sources -> Nat]]
        BY DEF TypeOK
      <4> HIDE DEF j, B
      <4> QED BY <2>2, <3>2, <3>4, <4>1
    <3>6. segs'[j][s] = Segments[s]
      BY <3>2, <3>3, <3>5
    <3> QED BY <2>1, <2>2, <3>2, <3>3, <3>6 DEF MergeableBy
  <2> QED BY <2>3, <2>4
<1> QED BY <1>1, <1>2, <1>3

\* In every reachable state only planned work is confirmed or selected, and what
\* is about to be merged has all its segments.
THEOREM ConfirmedWork == Spec => [](ConfirmedPlanned /\ Mergeable)
<1>1. Init => ConfirmedPlanned /\ Mergeable
  BY DEF Init, ConfirmedPlanned, Mergeable, MergeableBy, Idle, Working
<1>2. TypeOK /\ PublishedMeansSucceeded /\ FencesDistinct /\ Unpaid
      /\ (ConfirmedPlanned /\ Mergeable) /\ [Next]_vars
      => (ConfirmedPlanned /\ Mergeable)'
  <2> SUFFICES ASSUME TypeOK, PublishedMeansSucceeded, FencesDistinct, Unpaid,
                      ConfirmedPlanned, Mergeable, [Next]_vars
               PROVE  ConfirmedPlanned' /\ Mergeable'
    OBVIOUS
  <2>1. ConfirmedPlanned'
    BY ConfirmedStep
  <2>2. ASSUME NEW w \in Workers PROVE MergeableBy(w)'
    <3>1. MergeableBy(w) /\ UnpaidBy(w)
      BY DEF Mergeable, Unpaid
    <3>2. CASE WorkerStep(w) \/ Crash(w)
      BY <3>1, <3>2, MergeableBySelf
    <3>3. CASE ~(WorkerStep(w) \/ Crash(w))
      BY <3>1, <3>3, OwnMemory, MergeableByOthers DEF WorkerStep
    <3> QED BY <3>2, <3>3
  <2> QED BY <2>1, <2>2 DEF Mergeable
<1> QED BY <1>1, <1>2, TypeCorrect, PublishedOnce, Fencing, SelectedUnpaid, PTL DEF Spec

\* What a claim does: it gives one claimable job to the worker, or none, and
\* gives up exhausted ones.
LEMMA ClaimMoves ==
  ASSUME TypeOK, NEW w \in Workers, Claim(w)
  PROVE  /\ \A v \in Workers : v # w => worker'[v] = worker[v]
         /\ \/ /\ worker' = worker
               /\ \A i \in Jobs : job'[i] = job[i] \/ job'[i].state = "dead_letter"
            \/ \E j \in Claimable :
                 /\ job'[j] = Leased(job[j], w)
                 /\ \A i \in Jobs : i # j =>
                      \/ job'[i] = job[i]
                      \/ i \in Exhausted /\ job'[i].state = "dead_letter"
                 /\ worker'[w].pc = "loop" /\ worker'[w].job = j
                 /\ worker'[w].fence = job[j].fence + 1
<1>0. worker \in [Workers -> WorkerRow] /\ job \in [Jobs -> JobRow]
  BY DEF TypeOK
<1>1. PICK dead \in SUBSET Exhausted :
        \/ \E j \in Claimable :
             /\ job' = [FenceAll(dead, "dead_letter") EXCEPT ![j] = Leased(job[j], w)]
             /\ worker' = [worker EXCEPT ![w] =
                  [Idle EXCEPT !.pc = "loop", !.job = j,
                               !.fence = Leased(job[j], w).fence]]
        \/ /\ job' = FenceAll(dead, "dead_letter")
           /\ UNCHANGED worker
  BY DEF Claim
<1> DEFINE F == FenceAll(dead, "dead_letter")
<1>2. ASSUME NEW i \in Jobs
      PROVE  F[i] = job[i] \/ (i \in Exhausted /\ F[i].state = "dead_letter")
  <2>1. job[i] \in JobRow /\ "dead_letter" \in JobState
    BY <1>0 DEF JobState, Settled
  <2>2. Fenced(job[i], "dead_letter").state = "dead_letter"
    BY <2>1, RowFields
  <2> QED BY <2>2, AllFields
<1>3. DOMAIN F = Jobs
  BY DEF FenceAll
<1> HIDE DEF F
<1>4. CASE job' = F /\ worker' = worker
  BY <1>2, <1>4
<1>5. CASE ~(job' = F /\ worker' = worker)
  <2>1. PICK j \in Claimable :
             /\ job' = [F EXCEPT ![j] = Leased(job[j], w)]
             /\ worker' = [worker EXCEPT ![w] =
                  [Idle EXCEPT !.pc = "loop", !.job = j,
                               !.fence = Leased(job[j], w).fence]]
    BY <1>1, <1>5 DEF F
  <2>2. j \in Jobs
    BY DEF Claimable, Abandoned
  <2>3. Leased(job[j], w).fence = job[j].fence + 1
    BY <1>0, <2>2 DEF JobRow, Leased
  <2>4. /\ job'[j] = Leased(job[j], w)
        /\ \A i \in Jobs : i # j => job'[i] = F[i]
    BY <1>3, <2>1, <2>2
  <2> DEFINE f == Leased(job[j], w).fence
             r == [Idle EXCEPT !.pc = "loop", !.job = j, !.fence = f]
  <2> HIDE DEF f
  <2>5. r.pc = "loop" /\ r.job = j /\ r.fence = f
    BY DEF Idle
  <2>6. worker' = [worker EXCEPT ![w] = r]
    BY <2>1 DEF f
  <2> HIDE DEF r
  <2>7. worker'[w] = r /\ \A v \in Workers : v # w => worker'[v] = worker[v]
    BY <1>0, <2>6
  <2>8. /\ \A i \in Jobs : i # j =>
             \/ job'[i] = job[i]
             \/ i \in Exhausted /\ job'[i].state = "dead_letter"
        /\ worker'[w].pc = "loop" /\ worker'[w].job = j
        /\ worker'[w].fence = job[j].fence + 1
    BY <1>2, <2>3, <2>4, <2>5, <2>7 DEF f
  <2> QED BY <2>4, <2>7, <2>8
<1> QED BY <1>4, <1>5

\* Only a claim gives a job a live lease: every other step leaves its row as it
\* is or without one.
LEMMA OnlyClaimLeases ==
  ASSUME TypeOK, [Next]_vars, ~\E w \in Workers : Claim(w), NEW j \in Jobs
  PROVE  \/ job'[j] = job[j]
         \/ job'[j].state # "leased"
         \/ job'[j].expires # "future"
<1> USE DEF rows, items, world
<1>0. job \in [Jobs -> JobRow] /\ job[j] \in JobRow
  BY DEF TypeOK
<1> DEFINE Ends == \/ job'[j] = job[j]
                   \/ job'[j].state # "leased"
                   \/ job'[j].expires # "future"
<1>1. ASSUME NEW st \in JobState, st # "leased", NEW S,
             job' = FenceAll(S, st)
      PROVE  Ends
  <2>1. Fenced(job[j], st).state = st
    BY <1>0, RowFields
  <2> QED BY <1>1, <2>1, AllFields
<1>2. ASSUME NEW S, job' = RequeueAll(S) PROVE Ends
  <2>1. Requeued(job[j]).state = "pending"
    BY <1>0, RowFields DEF JobState
  <2> QED BY <1>2, <2>1, AllFields
<1>3. ASSUME job'[j] = [job[j] EXCEPT !.state = "pending", !.runAfter = "past"]
      PROVE  Ends
  BY <1>0, <1>3 DEF JobRow
<1>4. ASSUME NEW w \in Workers, Publish(w) \/ Failure(w) PROVE Ends
  <2> DEFINE p == worker[w].job
             st == FailureState(job[p], worker[w].code)
  <2>1. p \in Jobs /\ worker[w].code \in Codes /\ job[p] \in JobRow
    BY <1>4 DEF Publish, Failure, TypeOK, WorkerRow
  <2>2. st # "leased"
    BY <2>1, FailureStateType DEF Settled, Blocked
  <2> HIDE DEF st
  <2>3. \/ job' = job
        \/ job' = [job EXCEPT ![p] = [Unleased(job[p]) EXCEPT !.state = "succeeded"]]
        \/ job' = [job EXCEPT ![p] =
                     [Unleased(job[p]) EXCEPT !.state = st, !.runAfter = "future"]]
    BY <1>4 DEF Publish, Failure, st
  <2>4. /\ [Unleased(job[p]) EXCEPT !.state = "succeeded"].state = "succeeded"
        /\ [Unleased(job[p]) EXCEPT !.state = st, !.runAfter = "future"].state = st
    BY <2>1 DEF Unleased, JobRow
  <2> HIDE DEF p
  <2> QED BY <1>0, <2>1, <2>2, <2>3, <2>4
<1>5. ASSUME NEW w \in Workers,
             \/ Select(w) \/ Reserve(w) \/ Save(w) \/ Merge(w) \/ WorkerError(w)
             \/ Crash(w)
      PROVE  Ends
  BY <1>5 DEF Select, Reserve, Save, Merge, WorkerError, Crash
<1>6. ASSUME NEW i \in Jobs, Enqueue(i) PROVE Ends
  <2>1. \/ job'[j] = job[j]
        \/ job'[j] = [job[j] EXCEPT !.state = "pending", !.runAfter = "past"]
    BY <1>0, <1>6 DEF Enqueue
  <2> QED BY <1>3, <2>1
<1>7. ASSUME NEW i \in Jobs, Cancel(i) \/ Retry(i) PROVE Ends
  <2>1. "cancelled" \in JobState
    BY DEF JobState, Settled
  <2>2. job' = FenceAll({i}, "cancelled") \/ job' = RequeueAll({i})
    BY <1>7 DEF Cancel, Retry
  <2> QED BY <1>1, <1>2, <2>1, <2>2
<1>8. CASE ResumeProfile
  <2>1. \/ job'[j] = job[j]
        \/ job'[j] = [job[j] EXCEPT !.state = "pending", !.runAfter = "past"]
    BY <1>8 DEF ResumeProfile
  <2> QED BY <1>3, <2>1
<1>9. CASE SaveModel
  <2>1. "blocked_config" \in JobState
    BY DEF JobState, Settled, Blocked
  <2> QED BY <1>1, <1>9, <2>1 DEF SaveModel
<1>10. ASSUME NEW n \in Jobs, Reschedule(n) PROVE Ends
  <2> DEFINE old == {i \in Jobs : /\ i < n /\ i \notin rescheduled
                                  /\ job[i].state \in Retryable \cup {"pending"}}
             F == FenceAll(old, "cancelled")
  <2>1. "cancelled" \in JobState
    BY DEF JobState, Settled
  <2>2. \/ job' = F
        \/ job' = [F EXCEPT ![n].state = "pending", ![n].runAfter = "past"]
    BY <1>10 DEF Reschedule
  <2>3. CASE job' = F
    BY <1>1, <2>1, <2>3
  <2>4. CASE job' = [F EXCEPT ![n].state = "pending", ![n].runAfter = "past"]
    <3>1. F \in [Jobs -> JobRow] /\ F[j] \in JobRow
      BY <2>1, TableTypes
    <3>2. F[j] = job[j] \/ F[j].state = "cancelled"
      BY <1>0, <2>1, RowFields, AllFields
    <3> HIDE DEF F
    <3>3. CASE n = j
      <4>1. job'[j] = [F[j] EXCEPT !.state = "pending", !.runAfter = "past"]
        BY <2>4, <3>1, <3>3
      <4> QED BY <3>1, <4>1 DEF JobRow
    <3>4. CASE n # j
      <4>1. job'[j] = F[j]
        BY <2>4, <3>1, <3>4
      <4> QED BY <3>2, <4>1
    <3> QED BY <3>3, <3>4
  <2> QED BY <2>2, <2>3, <2>4
<1>11. CASE RestoreProject
  BY <1>2, <1>11 DEF RestoreProject
<1>12. CASE DeleteProject \/ NewDay \/ \E s \in Sources : Revise(s) \/ Recategorize(s) \/ Expire(s)
  BY <1>12 DEF DeleteProject, NewDay, Revise, Recategorize, Expire
<1>13. ASSUME NEW i \in Jobs, LeaseExpires(i) PROVE Ends
  <2>1. job'[j] = job[j] \/ job'[j] = [job[j] EXCEPT !.expires = "past"]
    BY <1>0, <1>13 DEF LeaseExpires
  <2>2. [job[j] EXCEPT !.expires = "past"].expires = "past"
    BY <1>0 DEF JobRow
  <2> QED BY <2>1, <2>2
<1>14. ASSUME NEW i \in Jobs, BecomesDue(i) PROVE Ends
  <2>1. \/ job'[j] = job[j]
        \/ job[j].state # "leased" /\ job'[j] = [job[j] EXCEPT !.runAfter = "past"]
    BY <1>0, <1>14 DEF BecomesDue, Waiting
  <2>2. [job[j] EXCEPT !.runAfter = "past"].state = job[j].state
    BY <1>0 DEF JobRow
  <2> QED BY <2>1, <2>2
<1>15. CASE UNCHANGED vars
  BY <1>15 DEF vars
<1>16. CASE \E w \in Workers : WorkerStep(w) \/ Crash(w)
  BY <1>4, <1>5, <1>16 DEF WorkerStep
<1>17. CASE Operator
  BY <1>6, <1>7, <1>8, <1>9, <1>10, <1>17 DEF Operator
<1>18. CASE World
  BY <1>11, <1>12, <1>13, <1>14, <1>18 DEF World
<1> QED BY <1>15, <1>16, <1>17, <1>18 DEF Next

\* A job is in one worker's hands at most.
LEMMA HoldersUnique ==
  ASSUME FencesDistinct, NEW j \in Jobs, NEW v \in Holders(j), NEW w \in Holders(j)
  PROVE  v = w
  BY DEF FencesDistinct, Holders, Owns, SameLease

\* A step that gives no job away leaves each where it is, or in nobody's hands.
LEMMA HoldersThin ==
  ASSUME TypeOK, FencesDistinct, \A w \in Workers : Keeps(w), NEW j \in Jobs,
         \/ job'[j] = job[j]
         \/ job'[j].state # "leased"
         \/ job'[j].expires # "future"
  PROVE  Holders(j)' \in {Holders(j), {}}
<1>1. CASE job'[j] = job[j]
  <2>1. Holders(j)' \subseteq Holders(j)
    BY <1>1 DEF Holders, Busy, Owns, SameLease, Keeps
  <2> QED BY <2>1, HoldersUnique
<1>2. CASE job'[j].state # "leased" \/ job'[j].expires # "future"
  BY <1>2 DEF Holders, Owns, SameLease
<1> QED BY <1>1, <1>2

\* A step that leaves the rows and every worker's job and fence alone leaves
\* each job where it is.
LEMMA HoldersRest ==
  ASSUME job' = job,
         \A w \in Workers : /\ worker'[w].pc = "idle" <=> worker[w].pc = "idle"
                            /\ worker'[w].job = worker[w].job
                            /\ worker'[w].fence = worker[w].fence,
         NEW j \in Jobs
  PROVE  Holders(j)' = Holders(j)
  BY DEF Holders, Busy, Owns, SameLease

\* The steps of the ledger, as the queue makes them.
Thinned ==
  /\ \A j \in Jobs : Holders(j)' \in {Holders(j), {}}
  /\ UNCHANGED <<done, segs>> /\ Shown' = Shown
HandedOut(w, j) ==
  /\ Holders(j) = {} /\ j \notin Shown
  /\ \A i \in Jobs : w \notin Holders(i)
  /\ Cardinality({i \in Jobs : Holders(i) # {}}) < Concurrency
  /\ \A i \in Jobs : Holders(i)' = IF i = j THEN {w} ELSE Holders(i)
  /\ UNCHANGED <<done, segs>> /\ Shown' = Shown
SegmentConfirmed(w, j) ==
  /\ w \in Holders(j)
  /\ \E s \in Manifest[j] \ done[j] :
       /\ segs[j][s] < Segments[s]
       /\ segs' = [segs EXCEPT ![j][s] = @ + 1]
  /\ \A i \in Jobs : Holders(i)' = Holders(i)
  /\ done' = done /\ Shown' = Shown
BatchConfirmed(w, j) ==
  /\ w \in Holders(j)
  /\ \E S \in SUBSET (Manifest[j] \ done[j]) :
       /\ \A s \in S : Segments[s] > 1 => segs[j][s] = Segments[s]
       /\ done' = [done EXCEPT ![j] = @ \cup S]
  /\ \A i \in Jobs : Holders(i)' = Holders(i)
  /\ segs' = segs /\ Shown' = Shown
OutputPublished(w, j) ==
  /\ w \in Holders(j) /\ j \notin Shown
  /\ done[j] = Manifest[j]
  /\ Shown' = Shown \cup {j}
  /\ \A i \in Jobs : Holders(i)' = IF i = j THEN {} ELSE Holders(i)
  /\ UNCHANGED <<done, segs>>

\* A claim grants a job nobody holds, within the limit.
LEMMA ClaimGrants ==
  ASSUME TypeOK, FencesDistinct, PublishedMeansSucceeded, NEW w \in Workers, Claim(w)
  PROVE  Thinned \/ \E j \in Jobs : HandedOut(w, j)
<1> USE DEF items
<1>0. /\ job \in [Jobs -> JobRow] /\ worker \in [Workers -> WorkerRow]
      /\ done' = done /\ segs' = segs /\ summary' = summary /\ worker[w].pc = "idle"
  BY DEF TypeOK, Claim
<1>1. Shown' = Shown
  BY <1>0 DEF Shown
<1>2. \A i \in Jobs : w \notin Holders(i)
  BY <1>0 DEF Holders, Busy
<1>3. CASE /\ worker' = worker
           /\ \A i \in Jobs : job'[i] = job[i] \/ job'[i].state = "dead_letter"
  <2>1. \A v \in Workers : Keeps(v)
    BY <1>3 DEF Keeps
  <2>2. \A i \in Jobs : Holders(i)' \in {Holders(i), {}}
    BY <1>3, <2>1, HoldersThin
  <2> QED BY <1>0, <1>1, <2>2 DEF Thinned
<1>4. ASSUME NEW j \in Claimable,
             job'[j] = Leased(job[j], w),
             \A i \in Jobs : i # j =>
               \/ job'[i] = job[i]
               \/ i \in Exhausted /\ job'[i].state = "dead_letter",
             worker'[w].pc = "loop", worker'[w].job = j,
             worker'[w].fence = job[j].fence + 1
      PROVE  j \in Jobs /\ HandedOut(w, j)
  <2>1. j \in Jobs /\ (job[j].state \in Waiting \/ (job[j].state = "leased" /\ job[j].expires = "past"))
    BY DEF Claimable, Abandoned
  <2>2. Holders(j) = {} /\ j \notin Shown
    BY <2>1 DEF Holders, Owns, SameLease, Waiting, Shown, PublishedMeansSucceeded
  <2>3. Cardinality({i \in Jobs : Holders(i) # {}}) < Concurrency
    <3> DEFINE H == {i \in Jobs : Holders(i) # {}}
    <3>1. H \subseteq LiveLeases
      BY DEF Holders, Owns, SameLease, LiveLeases
    <3>2. IsFiniteSet(LiveLeases)
      BY FS_Subset, JobsAssumption DEF LiveLeases
    <3> HIDE DEF H
    <3>3. IsFiniteSet(H) /\ Cardinality(H) <= Cardinality(LiveLeases)
      BY <3>1, <3>2, FS_Subset
    <3>4. Cardinality(H) \in Nat /\ Cardinality(LiveLeases) \in Nat
      BY <3>2, <3>3, FS_CardinalityType
    <3>5. Cardinality(LiveLeases) < Concurrency
      BY DEF Claim
    <3>6. Cardinality(H) < Concurrency
      BY <3>3, <3>4, <3>5
    <3> QED BY <3>6 DEF H
  <2>4. \A v \in Workers : v # w => worker'[v] = worker[v]
    BY ClaimMoves
  <2>5. Holders(j)' = {w}
    <3>1. /\ job'[j].state = "leased" /\ job'[j].owner = WorkerId[w]
          /\ job'[j].expires = "future" /\ job'[j].fence = job[j].fence + 1
          /\ job[j].fence \in Nat
      BY <1>0, <1>4, <2>1 DEF Leased, JobRow
    <3>2. w \in Holders(j)'
      BY <1>4, <3>1 DEF Holders, Busy, Owns, SameLease
    <3>3. ASSUME NEW v \in Holders(j)', v # w PROVE FALSE
      <4>1. /\ v \in Workers /\ worker[v].pc # "idle" /\ worker[v].job = j
            /\ worker[v].fence = job[j].fence + 1
        BY <2>4, <3>1, <3>3 DEF Holders, Busy, Owns, SameLease
      <4>2. worker[v].fence <= job[j].fence
        BY <4>1 DEF FencesDistinct, Busy
      <4> QED BY <3>1, <4>1, <4>2
    <3> QED BY <3>2, <3>3
  <2>6. ASSUME NEW i \in Jobs, i # j PROVE Holders(i)' = Holders(i)
    <3>1. CASE job'[i] = job[i]
      BY <1>0, <1>4, <2>4, <2>6, <3>1 DEF Holders, Busy, Owns, SameLease
    <3>2. CASE i \in Exhausted /\ job'[i].state = "dead_letter"
      <4>1. Holders(i) = {}
        BY <3>2 DEF Holders, Owns, SameLease, Exhausted, Abandoned
      <4>2. Holders(i)' = {}
        BY <3>2 DEF Holders, Owns, SameLease
      <4> QED BY <4>1, <4>2
    <3> QED BY <1>4, <2>6, <3>1, <3>2
  <2> QED BY <1>0, <1>1, <1>2, <2>1, <2>2, <2>3, <2>5, <2>6 DEF HandedOut
<1> QED BY <1>3, <1>4, ClaimMoves

\* Only the holder of a job confirms anything of it, what it confirms is
\* planned and new, and a source is confirmed with all its segments.
LEMMA SaveConfirms ==
  ASSUME TypeOK, FencesDistinct, Unpaid, Mergeable, [Next]_vars,
         NEW w \in Workers, Save(w) \/ Merge(w), \A v \in Workers : Keeps(v)
  PROVE  Thinned \/ \E j \in Jobs : SegmentConfirmed(w, j) \/ BatchConfirmed(w, j)
<1> USE DEF items
<1> DEFINE j == worker[w].job
           B == worker[w].batch
<1>0. /\ worker \in [Workers -> WorkerRow] /\ worker[w] \in WorkerRow
      /\ done \in [Jobs -> SUBSET Sources] /\ segs \in [Jobs -> [Sources -> Nat]]
      /\ worker[w].pc # "idle" /\ j \in Jobs
      /\ job' = job /\ summary' = summary
  BY DEF TypeOK, Save, Merge, rows
<1>1. Shown' = Shown
  BY <1>0 DEF Shown
<1>2. CASE done' = done /\ segs' = segs
  BY <1>0, <1>1, <1>2, HoldersThin DEF Thinned
<1>3. ASSUME ~(done' = done /\ segs' = segs)
      PROVE  SegmentConfirmed(w, j) \/ BatchConfirmed(w, j)
  <2>1. /\ Owns(w)
        /\ \E pc \in Working : Moves(w, pc)
        /\ \/ Save(w) /\ (\A s \in B : Segments[s] = 1)
              /\ done' = [done EXCEPT ![j] = @ \cup B] /\ segs' = segs
           \/ Save(w) /\ done' = done
              /\ \E s \in B : Segments[s] > 1 /\ segs' = [segs EXCEPT ![j][s] = @ + 1]
           \/ Merge(w)
              /\ done' = [done EXCEPT ![j] = @ \cup B] /\ segs' = segs
    BY <1>3 DEF Save, Merge, Working
  <2>2. w \in Holders(j)
    BY <1>0, <2>1 DEF Holders, Busy
  <2>3. \A i \in Jobs : Holders(i)' = Holders(i)
    <3>1. PICK pc \in Working : Moves(w, pc)
      BY <2>1
    <3>2. \A v \in Workers : /\ worker'[v].pc = "idle" <=> worker[v].pc = "idle"
                             /\ worker'[v].job = worker[v].job
                             /\ worker'[v].fence = worker[v].fence
      <4>1. worker'[w].pc = pc /\ worker'[w].job = j /\ worker'[w].fence = worker[w].fence
        BY <1>0, <3>1 DEF Moves, WorkerRow
      <4>2. \A v \in Workers : v # w => worker'[v] = worker[v]
        BY <1>0, <3>1 DEF Moves
      <4> QED BY <1>0, <4>1, <4>2 DEF Working
    <3> QED BY <1>0, <3>2, HoldersRest
  <2>4. /\ worker[w].fence = job[j].fence /\ B \subseteq Manifest[j]
    BY <2>1 DEF Owns, SameLease, Mergeable, MergeableBy, Working, Save, Merge
  <2>5. B \cap done[j] = {}
    BY <2>1, <2>4 DEF Unpaid, UnpaidBy, Mergeable, MergeableBy, Save, Merge
  <2>6. CASE Save(w) /\ (\A s \in B : Segments[s] = 1)
              /\ done' = [done EXCEPT ![j] = @ \cup B] /\ segs' = segs
    <3>1. \A s \in B : ~(Segments[s] > 1)
      BY <2>6
    <3>2. B \in SUBSET (Manifest[j] \ done[j])
      BY <2>4, <2>5
    <3> HIDE DEF B, j
    <3> QED BY <1>1, <2>2, <2>3, <2>6, <3>1, <3>2 DEF BatchConfirmed
  <2>7. CASE Save(w) /\ done' = done
              /\ \E s \in B : Segments[s] > 1 /\ segs' = [segs EXCEPT ![j][s] = @ + 1]
    <3>1. \A s \in B : segs[j][s] < Segments[s]
      BY <2>4, <2>7 DEF Unpaid, UnpaidBy, Save
    <3>2. B \subseteq Manifest[j] \ done[j]
      BY <2>4, <2>5
    <3> HIDE DEF B, j
    <3> QED BY <1>1, <2>2, <2>3, <2>7, <3>1, <3>2 DEF SegmentConfirmed
  <2>8. CASE Merge(w) /\ done' = [done EXCEPT ![j] = @ \cup B] /\ segs' = segs
    <3>1. \A s \in B : Segments[s] > 1 => segs[j][s] = Segments[s]
      BY <2>4, <2>8 DEF Mergeable, MergeableBy, Merge
    <3>2. B \in SUBSET (Manifest[j] \ done[j])
      BY <2>4, <2>5
    <3> HIDE DEF B, j
    <3> QED BY <1>1, <2>2, <2>3, <2>8, <3>1, <3>2 DEF BatchConfirmed
  <2> QED BY <2>1, <2>6, <2>7, <2>8
<1> QED BY <1>0, <1>2, <1>3

\* Only the holder of a job publishes it, once, and only when everything
\* planned is confirmed.
LEMMA PublishPublishes ==
  ASSUME TypeOK, FencesDistinct, ConfirmedPlanned, PublishedMeansSucceeded,
         NEW w \in Workers, Publish(w), \A v \in Workers : Keeps(v)
  PROVE  Thinned \/ \E j \in Jobs : OutputPublished(w, j)
<1> USE DEF items
<1>0. /\ worker \in [Workers -> WorkerRow] /\ job \in [Jobs -> JobRow]
      /\ done' = done /\ segs' = segs
      /\ worker[w].pc # "idle" /\ worker[w].job \in Jobs
  BY DEF TypeOK, Publish
<1>1. CASE job' = job /\ summary' = summary
  BY <1>0, <1>1, HoldersThin DEF Thinned, Shown
<1>2. ASSUME NEW j \in Jobs, worker[w].job = j, ~(job' = job /\ summary' = summary)
      PROVE  OutputPublished(w, j)
  <2>1. /\ Owns(w) /\ Manifest[j] \subseteq done[j]
        /\ summary' = Published(j)
        /\ job' = [job EXCEPT ![j] = [Unleased(job[j]) EXCEPT !.state = "succeeded"]]
        /\ worker' = [worker EXCEPT ![w] = Idle]
    BY <1>2 DEF Publish, Todo
  <2>0. job[j] \in JobRow
    BY <1>0
  <2>2. done[j] = Manifest[j]
    BY <1>2, <2>1 DEF ConfirmedPlanned
  <2>3. w \in Holders(j) /\ j \notin Shown
    BY <1>0, <1>2, <2>1 DEF Holders, Busy, Shown, PublishedMeansSucceeded, Owns, SameLease
  <2>4. Shown' = Shown \cup {j}
    BY <1>0, <2>1 DEF Shown, Published
  <2>5. Holders(j)' = {}
    <3>1. job'[j].state = "succeeded"
      BY <1>0, <2>0, <2>1 DEF Unleased, JobRow
    <3> QED BY <3>1 DEF Holders, Owns, SameLease
  <2>6. ASSUME NEW i \in Jobs, i # j PROVE Holders(i)' = Holders(i)
    <3>1. job'[i] = job[i] /\ worker'[w] = Idle /\ \A v \in Workers : v # w => worker'[v] = worker[v]
      BY <1>0, <2>1, <2>6
    <3>2. w \notin Holders(i) /\ w \notin Holders(i)'
      BY <1>2, <2>6, <3>1 DEF Holders, Busy, Idle
    <3>3. ASSUME NEW v \in Workers, v # w PROVE v \in Holders(i)' <=> v \in Holders(i)
      BY <3>1, <3>3 DEF Holders, Busy, Owns, SameLease
    <3>4. Holders(i) \subseteq Workers /\ Holders(i)' \subseteq Workers
      BY DEF Holders
    <3> QED BY <3>2, <3>3, <3>4
  <2> QED BY <1>0, <2>2, <2>3, <2>4, <2>5, <2>6 DEF OutputPublished
<1> QED BY <1>0, <1>1, <1>2

\* Every step of the queue is a step of the ledger.
LEMMA LedgerMoves ==
  ASSUME TypeOK, PublishedMeansSucceeded, FencesDistinct, Unpaid, ConfirmedPlanned,
         Mergeable, [Next]_vars
  PROVE  \/ Thinned
         \/ \E w \in Workers, j \in Jobs :
              \/ HandedOut(w, j) \/ SegmentConfirmed(w, j) \/ BatchConfirmed(w, j)
              \/ OutputPublished(w, j)
<1>1. CASE \E w \in Workers : Claim(w)
  BY <1>1, ClaimGrants
<1>2. ASSUME ~\E w \in Workers : Claim(w) PROVE \A w \in Workers : Keeps(w)
  BY <1>2, WorkerSteps
<1>3. CASE \E w \in Workers : Save(w) \/ Merge(w)
  <2>1. CASE \E w \in Workers : Claim(w)
    BY <1>1, <2>1
  <2> QED BY <1>2, <1>3, <2>1, SaveConfirms
<1>4. CASE \E w \in Workers : Publish(w)
  <2>1. CASE \E w \in Workers : Claim(w)
    BY <1>1, <2>1
  <2> QED BY <1>2, <1>4, <2>1, PublishPublishes
<1>5. CASE ~\E w \in Workers : Claim(w) \/ Save(w) \/ Merge(w) \/ Publish(w)
  <2>1. \A j \in Jobs : Holders(j)' \in {Holders(j), {}}
    BY <1>2, <1>5, OnlyClaimLeases, HoldersThin
  <2>2. done' = done /\ segs' = segs
    <3>1. ASSUME NEW w \in Workers, WorkerStep(w) \/ Crash(w) PROVE UNCHANGED items
      BY <1>5, <3>1 DEF WorkerStep, Select, Reserve, WorkerError, Failure, Crash
    <3>2. ASSUME Operator \/ World PROVE UNCHANGED items
      BY <3>2 DEF Operator, World, Enqueue, Cancel, Retry, Reschedule, ResumeProfile,
           SaveModel, DeleteProject, RestoreProject, NewDay, Revise, Recategorize,
           Expire, LeaseExpires, BecomesDue
    <3>3. CASE UNCHANGED vars
      BY <3>3 DEF vars, items
    <3> QED BY <3>1, <3>2, <3>3 DEF Next, items
  <2>3. \A j \in Jobs : summary'[j] # "none" <=> summary[j] # "none"
    BY <1>5, OnlyPublishShows
  <2>4. Shown' = Shown
    BY <2>3 DEF Shown
  <2> QED BY <2>1, <2>2, <2>4 DEF Thinned
<1> QED BY <1>1, <1>3, <1>4, <1>5

\* The queue implements the ledger of its jobs, for any jobs, workers, sources
\* and limits: whatever crashes, comes late or is taken over, one worker at a
\* time confirms a job's work, each source and segment once, and only what is
\* confirmed entirely is published, once.
THEOREM Implements == Spec => WorkOnce
<1> DEFINE H == [j \in Jobs |-> Holders(j)]
<1>1. Init => Ledger!Init
  <2> SUFFICES ASSUME Init PROVE Ledger!Init
    OBVIOUS
  <2>1. \A j \in Jobs : Holders(j) = {}
    BY DEF Init, Holders, Busy, Idle
  <2>2. Shown = {}
    BY DEF Init, Shown
  <2> QED BY <2>1, <2>2 DEF Init, Ledger!Init
<1>2. ASSUME TypeOK, PublishedMeansSucceeded, FencesDistinct, Unpaid,
             ConfirmedPlanned, Mergeable, [Next]_vars
      PROVE  [Ledger!Next]_(Ledger!vars)
  <2>1. CASE Thinned
    <3> DEFINE S == {j \in Jobs : Holders(j)' = {}}
    <3>1. H' = [j \in Jobs |-> IF j \in S THEN {} ELSE H[j]]
      BY <2>1 DEF Thinned
    <3>2. Ledger!Withdraw(S)
      BY <2>1, <3>1 DEF Thinned, Ledger!Withdraw
    <3>3. S \in SUBSET Jobs
      OBVIOUS
    <3> HIDE DEF S
    <3> QED BY <3>2, <3>3 DEF Ledger!Next
  <2>2. ASSUME NEW w \in Workers, NEW j \in Jobs, HandedOut(w, j)
        PROVE  Ledger!Next
    <3>1. H' = [H EXCEPT ![j] = {w}]
      BY <2>2 DEF HandedOut
    <3>2. Ledger!Held = {i \in Jobs : Holders(i) # {}}
      BY DEF Ledger!Held
    <3>3. \A S : Ledger!Cardinality(S) = Cardinality(S)
      BY DEF Ledger!Cardinality, Cardinality
    <3>4. Ledger!Grant(w, j)
      BY <2>2, <3>1, <3>2, <3>3 DEF HandedOut, Ledger!Grant
    <3> QED BY <3>4 DEF Ledger!Next
  <2>3. ASSUME NEW w \in Workers, NEW j \in Jobs, SegmentConfirmed(w, j)
        PROVE  Ledger!Next
    <3>1. H' = H
      BY <2>3 DEF SegmentConfirmed
    <3>2. \E s \in Manifest[j] : Ledger!ConfirmSegment(w, j, s)
      BY <2>3, <3>1 DEF SegmentConfirmed, Ledger!ConfirmSegment
    <3> QED BY <3>2 DEF Ledger!Next
  <2>4. ASSUME NEW w \in Workers, NEW j \in Jobs, BatchConfirmed(w, j)
        PROVE  Ledger!Next
    <3>1. H' = H
      BY <2>4 DEF BatchConfirmed
    <3>2. \E S \in SUBSET Manifest[j] : Ledger!Confirm(w, j, S)
      BY <2>4, <3>1 DEF BatchConfirmed, Ledger!Confirm
    <3> QED BY <3>2 DEF Ledger!Next
  <2>5. ASSUME NEW w \in Workers, NEW j \in Jobs, OutputPublished(w, j)
        PROVE  Ledger!Next
    <3>1. H' = [H EXCEPT ![j] = {}]
      BY <2>5 DEF OutputPublished
    <3>2. Ledger!Publish(w, j)
      BY <2>5, <3>1 DEF OutputPublished, Ledger!Publish
    <3> QED BY <3>2 DEF Ledger!Next
  <2> QED BY <1>2, <2>1, <2>2, <2>3, <2>4, <2>5, LedgerMoves
<1>3. TypeOK /\ PublishedMeansSucceeded /\ FencesDistinct /\ Unpaid
      /\ (ConfirmedPlanned /\ Mergeable) /\ [Next]_vars
      => [Ledger!Next]_(Ledger!vars)
  BY <1>2
<1> QED BY <1>1, <1>3, TypeCorrect, PublishedOnce, Fencing, SelectedUnpaid, ConfirmedWork,
           PTL DEF Spec, WorkOnce, Ledger!Spec

=============================================================================
