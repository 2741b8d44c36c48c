------------------------------ MODULE MemoryJobs ------------------------------
(***************************************************************************)
(* The durable model-job queue of the memory server                        *)
(* (server/lib/memory-jobs/store.mjs), the workers that drain it           *)
(* (memory-jobs/worker.mjs), the operator actions on it (console/service,  *)
(* console/models, lifecycle/mutations) and the publication of summaries   *)
(* (memory-derived/store.mjs).                                             *)
(*                                                                         *)
(* Every method of the queue is one SQLite transaction, so it is one       *)
(* action here; between two actions of a worker anything may happen in     *)
(* another process.  The clock is abstracted to what the code asks of it:  *)
(* whether lease_expires and run_after lie in the past or in the future.   *)
(* Time may pass at any moment (LeaseExpires, BecomesDue, NewDay), so      *)
(* renewing a lease, which only delays its expiry, is the guard "the lease *)
(* is still held".                                                         *)
(***************************************************************************)
EXTENDS Naturals, FiniteSets

CONSTANTS
  Jobs,         \* rows of memory_jobs, numbered by rowid (the order of enqueue)
  Workers,      \* MemoryWorker objects, in one process or in several
  Sources,      \* one revision of a memory each: what a job item freezes
  Manifest,     \* memory_job_items: the sources each job was planned with
  Group,        \* group_key: the scope and period a job summarises
  Segments,     \* model calls a source needs (more than one: segmentSummary)
  WorkerId,     \* lease_owner a worker writes; by default all write the same
  MaxAttempts,  \* profile.retry.max_attempts
  Concurrency,  \* live leases allowed at the same time
  DailyLimit,   \* profile.limits.daily_requests
  MaxRequeues   \* bound: operator actions that requeue jobs

ASSUME JobsAssumption == Jobs \subseteq Nat \ {0} /\ IsFiniteSet(Jobs)
ASSUME ManifestAssumption == Manifest \in [Jobs -> SUBSET Sources]
ASSUME SegmentsAssumption == Segments \in [Sources -> Nat \ {0}]
ASSUME LimitsAssumption ==
  /\ MaxAttempts \in Nat \ {0}
  /\ Concurrency \in Nat \ {0}
  /\ DailyLimit \in Nat
  /\ MaxRequeues \in Nat

VARIABLES
  job,          \* memory_jobs: state, attempts, lease, fence, run_after
  rescheduled,  \* jobs whose last_error_code is RESCHEDULED
  done,         \* items in state 'done' of each job
  segs,         \* completed segments in each item's saved checkpoint
  worker,       \* what each worker remembers of its claimed job
  profileReady, \* memory_profile_state of the organizer profile
  reserved,     \* memory_model_budget: calls reserved today
  projectLive,  \* the project of the sources is not deleted
  gone,         \* sources revised, recategorised, retracted or expired
  summary,      \* status of the summary a job published
  requeues      \* operator actions so far that made jobs pending again

rows == <<job, rescheduled>>
items == <<done, segs>>
world == <<projectLive, gone>>
vars == <<rows, items, worker, profileReady, reserved, world, summary, requeues>>

-----------------------------------------------------------------------------
(* State spaces *)

Waiting == {"pending", "retry_wait"}
Blocked == {"blocked_config", "blocked_auth", "blocked_budget"}
Settled == Blocked \cup
  {"succeeded", "cancelled", "dead_letter", "review_required", "stale"}
JobState == {"none", "leased"} \cup Waiting \cup Settled

Nobody == "nobody"    \* lease_owner IS NULL
NoJob == 0            \* the job of an idle worker
Owners == {WorkerId[w] : w \in Workers} \cup {Nobody}
JobRow == [state : JobState, attempts : Nat, owner : Owners,
           expires : {"null", "future", "past"}, fence : Nat,
           runAfter : {"future", "past"}]

\* The errors a worker meets, by the state failure() gives the job.
Codes == {"none", "config", "auth", "budget", "stale", "invalid", "transient"}
Working == {"loop", "ready", "sent", "resent", "merge"}
WorkerRow == [pc : {"idle", "fail"} \cup Working, job : Jobs \cup {NoJob},
              fence : Nat, batch : SUBSET Sources, code : Codes]

TypeOK ==
  /\ job \in [Jobs -> JobRow]
  /\ rescheduled \in SUBSET Jobs
  /\ done \in [Jobs -> SUBSET Sources]
  /\ segs \in [Jobs -> [Sources -> Nat]]
  /\ worker \in [Workers -> WorkerRow]
  /\ \A w \in Workers : worker[w].pc # "idle" => worker[w].job \in Jobs
  /\ profileReady \in BOOLEAN
  /\ reserved \in Nat
  /\ projectLive \in BOOLEAN
  /\ gone \in SUBSET Sources
  /\ summary \in [Jobs -> {"none", "current", "superseded", "stale"}]
  /\ requeues \in Nat

NewRow == [state |-> "none", attempts |-> 0, owner |-> Nobody,
           expires |-> "null", fence |-> 0, runAfter |-> "future"]
Idle == [pc |-> "idle", job |-> NoJob, fence |-> 0, batch |-> {},
         code |-> "none"]

Init ==
  /\ job = [j \in Jobs |-> NewRow]
  /\ rescheduled = {}
  /\ done = [j \in Jobs |-> {}]
  /\ segs = [j \in Jobs |-> [s \in Sources |-> 0]]
  /\ worker = [w \in Workers |-> Idle]
  /\ profileReady = TRUE
  /\ reserved = 0
  /\ projectLive = TRUE
  /\ gone = {}
  /\ summary = [j \in Jobs |-> "none"]
  /\ requeues = 0

-----------------------------------------------------------------------------
(* What the code tests *)

\* derivedMemory.validateItem: the frozen revision is still the current one.
Live(s) == projectLive /\ s \notin gone

\* Fault: a lease is recognised by its owner's name alone.
SameLeaseByName(w) ==
  job[worker[w].job].state = "leased" /\ job[worker[w].job].owner = WorkerId[w]
\* sameLease and owns: a worker's memory of its job against the row.
SameLease(w) ==
  LET row == job[worker[w].job] IN
  /\ row.state = "leased"
  /\ row.fence = worker[w].fence
  /\ row.owner = WorkerId[w]
Owns(w) == SameLease(w) /\ job[worker[w].job].expires = "future"

\* Fault: a job counts as complete once its first batch is confirmed.
TodoUntilStarted(j) == IF done[j] = {} THEN Manifest[j] ELSE {}
Todo(j) == Manifest[j] \ done[j]

-----------------------------------------------------------------------------
(* Rows the code writes *)

Unleased(row) == [row EXCEPT !.owner = Nobody, !.expires = "null"]
\* Writes that take a job away from its worker also advance the fence.
Fenced(row, state) ==
  [Unleased(row) EXCEPT !.state = state, !.fence = @ + 1]
Requeued(row) == [Fenced(row, "pending") EXCEPT !.runAfter = "past"]
\* Fault: a claim does not advance the fence.
LeasedSameFence(row, w) ==
  [row EXCEPT !.state = "leased", !.attempts = @ + 1, !.owner = WorkerId[w],
              !.expires = "future"]
Leased(row, w) ==
  [row EXCEPT !.state = "leased", !.attempts = @ + 1, !.owner = WorkerId[w],
              !.expires = "future", !.fence = @ + 1]

\* The rows after a write to a set of jobs.
FenceAll(S, state) ==
  [j \in Jobs |-> IF j \in S THEN Fenced(job[j], state) ELSE job[j]]
RequeueAll(S) == [j \in Jobs |-> IF j \in S THEN Requeued(job[j]) ELSE job[j]]

\* Where a worker goes after an error, and after its failure() returned.
Fails(w, code) == worker' = [worker EXCEPT ![w].pc = "fail", ![w].code = code]
Moves(w, pc) == worker' = [worker EXCEPT ![w].pc = pc]

-----------------------------------------------------------------------------
(* Planning *)

\* MemoryJobs.enqueue; the fingerprint makes a second enqueue of the same
\* manifest return the existing row and change nothing.
Enqueue(j) ==
  /\ job[j].state = "none"
  /\ \A i \in Jobs : i > j => job[i].state = "none"
  /\ Manifest[j] # {} /\ \A s \in Manifest[j] : Live(s)
  /\ job' = [job EXCEPT ![j].state = "pending", ![j].runAfter = "past"]
  /\ UNCHANGED <<rescheduled, items, worker, profileReady, reserved, world,
                 summary, requeues>>

-----------------------------------------------------------------------------
(* The worker: one job from claim to publication or failure *)

LiveLeases == {j \in Jobs : job[j].state = "leased" /\ job[j].expires = "future"}
Abandoned == {j \in Jobs : job[j].state = "leased" /\ job[j].expires = "past"}
\* Fault: an expired lease is reclaimed however often it was lost.
ExhaustedNever == {j \in Abandoned : FALSE}
Exhausted == {j \in Abandoned : job[j].attempts >= MaxAttempts}
\* Fault: expired leases are not taken over.
ClaimableWaiting == {j \in Jobs : job[j].state \in Waiting /\ job[j].runAfter = "past"}
Claimable ==
  {j \in Jobs : job[j].state \in Waiting /\ job[j].runAfter = "past"} \cup
  (Abandoned \ Exhausted)

\* MemoryJobs.claim.  The rows come in the order of run_after and job_id, a
\* random UUID: any exhausted rows may come before the one that is claimed.
Claim(w) ==
  /\ worker[w].pc = "idle"
  /\ profileReady
  /\ Cardinality(LiveLeases) < Concurrency
  /\ \E dead \in SUBSET Exhausted :
       \/ \E j \in Claimable :
            /\ job' = [FenceAll(dead, "dead_letter")
                         EXCEPT ![j] = Leased(job[j], w)]
            /\ worker' = [worker EXCEPT ![w] =
                 [Idle EXCEPT !.pc = "loop", !.job = j,
                              !.fence = Leased(job[j], w).fence]]
       \/ /\ Claimable = {} /\ dead = Exhausted /\ dead # {}
          /\ job' = FenceAll(dead, "dead_letter")
          /\ UNCHANGED worker
  /\ UNCHANGED <<rescheduled, items, profileReady, reserved, world, summary,
                 requeues>>

\* What a worker may take next: a batch of whole sources, or one source that
\* has to be sent in segments.
Batches(j) ==
  {B \in SUBSET Todo(j) : B # {} /\ \A s \in B : Segments[s] = 1} \cup
  {{s} : s \in {t \in Todo(j) : Segments[t] > 1}}

\* Fault: a takeover starts the segments of a source again.
NeedsCallAlways(j, B) == TRUE
\* A source whose segments are all confirmed needs no further call.
NeedsCall(j, B) == \A s \in B : segs[j][s] < Segments[s]

\* The top of the worker's loop: renew the lease, take the next items and
\* validate their sources.
Select(w) ==
  LET j == worker[w].job IN
  /\ worker[w].pc = "loop"
  /\ Todo(j) # {}
  /\ \/ ~Owns(w) /\ Fails(w, "transient")
     \/ \E B \in Batches(j) :
          /\ Owns(w)
          /\ IF \A s \in B : Live(s)
             THEN worker' = [worker EXCEPT
                    ![w].batch = B,
                    ![w].pc = IF NeedsCall(j, B) THEN "ready" ELSE "merge"]
             ELSE Fails(w, "stale")
  /\ UNCHANGED <<rows, items, profileReady, reserved, world, summary, requeues>>

\* The sources of a model call are validated inside the reservation.
SourcesCurrent(w) == \A s \in worker[w].batch : Live(s)
\* Fault: off by one.
BudgetLeftByOne == reserved <= DailyLimit
\* The profile's daily budget.
BudgetLeft == reserved < DailyLimit

\* MemoryJobs.reserve: the last step before each model call, its one repair
\* request included.
Reserve(w) ==
  /\ worker[w].pc \in {"ready", "sent"}
  /\ \/ ~Owns(w) /\ Fails(w, "transient") /\ UNCHANGED reserved
     \/ Owns(w) /\ ~SourcesCurrent(w) /\ Fails(w, "stale") /\ UNCHANGED reserved
     \/ /\ Owns(w) /\ SourcesCurrent(w) /\ ~BudgetLeft
        /\ Fails(w, "budget") /\ UNCHANGED reserved
     \/ /\ Owns(w) /\ SourcesCurrent(w) /\ BudgetLeft
        /\ reserved' = reserved + 1
        /\ Moves(w, IF worker[w].pc = "ready" THEN "sent" ELSE "resent")
  /\ UNCHANGED <<rows, items, profileReady, world, summary, requeues>>

\* The answer of a model call arrives: saveChunk records the whole sources of
\* the batch as done, saveSummaryProgress one more segment of a long source.
Save(w) ==
  LET j == worker[w].job IN
  /\ worker[w].pc \in {"sent", "resent"}
  /\ \/ ~Owns(w) /\ Fails(w, "transient") /\ UNCHANGED items
     \/ Owns(w) /\ ~SourcesCurrent(w) /\ Fails(w, "stale") /\ UNCHANGED items
     \/ /\ Owns(w) /\ SourcesCurrent(w)
        /\ \A s \in worker[w].batch : Segments[s] = 1
        /\ done' = [done EXCEPT ![j] = @ \cup worker[w].batch]
        /\ Moves(w, "loop") /\ UNCHANGED segs
     \/ /\ Owns(w) /\ SourcesCurrent(w)
        /\ \E s \in worker[w].batch :
             /\ Segments[s] > 1
             /\ segs' = [segs EXCEPT ![j][s] = @ + 1]
             /\ Moves(w, IF segs[j][s] + 1 < Segments[s] THEN "ready" ELSE "merge")
        /\ UNCHANGED done
  /\ UNCHANGED <<rows, profileReady, reserved, world, summary, requeues>>

\* The end of segmentSummary: the confirmed segments are merged and saved.
Merge(w) ==
  LET j == worker[w].job IN
  /\ worker[w].pc = "merge"
  /\ \/ ~Owns(w) /\ Fails(w, "transient") /\ UNCHANGED done
     \/ Owns(w) /\ ~SourcesCurrent(w) /\ Fails(w, "stale") /\ UNCHANGED done
     \/ /\ Owns(w) /\ SourcesCurrent(w)
        /\ done' = [done EXCEPT ![j] = @ \cup worker[w].batch]
        /\ Moves(w, "loop")
  /\ UNCHANGED <<rows, segs, profileReady, reserved, world, summary, requeues>>

\* Fault: whoever publishes last is shown.
NewerNever(j) == FALSE
\* A later planned job of the same group already shows a summary whose
\* sources are all still current.
Newer(j) ==
  \E i \in Jobs : /\ i > j /\ Group[i] = Group[j] /\ summary[i] = "current"
                  /\ Manifest[i] # {} /\ \A s \in Manifest[i] : Live(s)

\* Fault: the summary shown before stays current.
PublishedBeside(j) ==
  [summary EXCEPT ![j] = IF Newer(j) THEN "superseded" ELSE "current"]
\* publishSummary: what the publication of j makes of every summary.
Published(j) ==
  [i \in Jobs |->
     IF i = j THEN IF Newer(j) THEN "superseded" ELSE "current"
     ELSE IF ~Newer(j) /\ Group[i] = Group[j] /\ summary[i] = "current"
     THEN "superseded" ELSE summary[i]]

\* MemoryJobs.publish with the summary callback.
Publish(w) ==
  LET j == worker[w].job IN
  /\ worker[w].pc = "loop"
  /\ Todo(j) = {}
  /\ \/ /\ Owns(w) /\ \A s \in Manifest[j] : Live(s)
        /\ summary' = Published(j)
        /\ job' = [job EXCEPT ![j] = [Unleased(@) EXCEPT !.state = "succeeded"]]
        /\ worker' = [worker EXCEPT ![w] = Idle]
     \/ /\ ~Owns(w) /\ Fails(w, "transient")
        /\ UNCHANGED <<job, summary>>
     \/ /\ Owns(w) /\ \E s \in Manifest[j] : ~Live(s)
        /\ Fails(w, "stale")
        /\ UNCHANGED <<job, summary>>
  /\ UNCHANGED <<rescheduled, items, profileReady, reserved, world, requeues>>

\* The other errors of a run: a profile that no longer matches the job or a
\* stale taxonomy, a refused or invalid answer, the network.
WorkerError(w) ==
  /\ \/ worker[w].pc = "loop" /\ Fails(w, "config")
     \/ worker[w].pc = "ready" /\ \E c \in {"config", "invalid"} : Fails(w, c)
     \/ worker[w].pc = "merge" /\ Fails(w, "invalid")
     \/ /\ worker[w].pc \in {"sent", "resent"}
        /\ \E c \in {"config", "auth", "invalid", "transient"} : Fails(w, c)
  /\ UNCHANGED <<rows, items, profileReady, reserved, world, summary, requeues>>

\* Fault: the error code itself is stored as the state.
FailureStateIsCode(row, code) == IF row.expires = "past" THEN "retry_wait" ELSE code
\* The state failure() chooses; expiry is reported as the transient LEASE_LOST.
FailureState(row, code) ==
  CASE row.expires = "past" \/ code = "transient" ->
         IF row.attempts >= MaxAttempts THEN "dead_letter" ELSE "retry_wait"
    [] row.expires # "past" /\ code = "config" -> "blocked_config"
    [] row.expires # "past" /\ code = "auth" -> "blocked_auth"
    [] row.expires # "past" /\ code = "budget" -> "blocked_budget"
    [] row.expires # "past" /\ code = "stale" -> "stale"
    [] OTHER -> "review_required"

\* MemoryJobs.failure: a no-op once the lease belongs to another fence.
Failure(w) ==
  LET j == worker[w].job
      state == FailureState(job[j], worker[w].code) IN
  /\ worker[w].pc = "fail"
  /\ IF SameLease(w)
     THEN /\ job' = [job EXCEPT ![j] =
                       [Unleased(@) EXCEPT !.state = state, !.runAfter = "future"]]
          /\ profileReady' = (profileReady /\ state # "blocked_auth")
     ELSE UNCHANGED <<job, profileReady>>
  /\ worker' = [worker EXCEPT ![w] = Idle]
  /\ UNCHANGED <<rescheduled, items, reserved, world, summary, requeues>>

\* The worker's process dies; its lease stays behind.
Crash(w) ==
  /\ worker[w].pc # "idle"
  /\ worker' = [worker EXCEPT ![w] = Idle]
  /\ UNCHANGED <<rows, items, profileReady, reserved, world, summary, requeues>>

-----------------------------------------------------------------------------
(* Operators *)

\* MemoryJobs.cancel, from jobs.cancel of the console.
Cancel(j) ==
  /\ job[j].state \notin {"none", "succeeded", "cancelled"}
  /\ job' = FenceAll({j}, "cancelled")
  /\ UNCHANGED <<rescheduled, items, worker, profileReady, reserved, world,
                 summary, requeues>>

\* Fault: any job that is not running can be retried.
RetryableAll == Settled \cup {"retry_wait"}
Retryable == Blocked \cup
  {"dead_letter", "review_required", "retry_wait", "cancelled"}

\* jobs.retry of the console.
Retry(j) ==
  /\ requeues < MaxRequeues
  /\ job[j].state \in Retryable /\ j \notin rescheduled
  /\ \A s \in Manifest[j] : Live(s)
  /\ profileReady' = TRUE
  /\ job' = RequeueAll({j})
  /\ requeues' = requeues + 1
  /\ UNCHANGED <<rescheduled, items, worker, reserved, world, summary>>

\* MemoryJobs.resumeProfile: no lease is left in a blocked state.
ResumeProfile ==
  /\ requeues < MaxRequeues
  /\ profileReady' = TRUE
  /\ job' = [j \in Jobs |-> IF job[j].state \in Blocked
                            THEN [job[j] EXCEPT !.state = "pending", !.runAfter = "past"]
                            ELSE job[j]]
  /\ requeues' = requeues + 1
  /\ UNCHANGED <<rescheduled, items, worker, reserved, world, summary>>

\* models.save: the jobs of the old model configuration stop.
SaveModel ==
  /\ job' = FenceAll({j \in Jobs : job[j].state \in Waiting \cup {"leased"}},
                     "blocked_config")
  /\ UNCHANGED <<rescheduled, items, worker, profileReady, reserved, world,
                 summary, requeues>>

\* console reschedule after a change of the taxonomy: what was planned under
\* the old one is cancelled for good and the library is planned again, as the
\* next row n when it still has sources.
Reschedule(n) ==
  LET old == {j \in Jobs : /\ j < n /\ j \notin rescheduled
                           /\ job[j].state \in Retryable \cup {"pending"}} IN
  /\ old # {}
  /\ \A i \in Jobs : i >= n => job[i].state = "none"
  /\ rescheduled' = rescheduled \cup old
  /\ job' = IF Manifest[n] # {} /\ \A s \in Manifest[n] : Live(s)
            THEN [FenceAll(old, "cancelled")
                    EXCEPT ![n].state = "pending", ![n].runAfter = "past"]
            ELSE FenceAll(old, "cancelled")
  /\ UNCHANGED <<items, worker, profileReady, reserved, world, summary, requeues>>

-----------------------------------------------------------------------------
(* Sources and time *)

\* The project is deleted, and restored: on restore the jobs that went stale
\* meanwhile and validate again are requeued (lifecycle/mutations.mjs).
DeleteProject ==
  /\ projectLive
  /\ projectLive' = FALSE
  /\ UNCHANGED <<rows, items, worker, profileReady, reserved, gone, summary,
                 requeues>>
RestoreProject ==
  /\ ~projectLive
  /\ requeues < MaxRequeues
  /\ projectLive' = TRUE
  /\ job' = RequeueAll({j \in Jobs : /\ job[j].state = "stale"
                                     /\ Manifest[j] \cap gone = {}})
  /\ requeues' = requeues + 1
  /\ UNCHANGED <<rescheduled, items, worker, profileReady, reserved, gone, summary>>

Depends(j, s) == summary[j] # "none" /\ s \in Manifest[j]

\* A new revision (correction or retraction) hides the current summaries that
\* used the old one (trigger memory_summary_invalidate_revision); a manual
\* category hides every summary of the memory (setCategory); an expired raw
\* source changes no summary.
Revise(s) ==
  /\ Live(s)
  /\ gone' = gone \cup {s}
  /\ summary' = [j \in Jobs |-> IF Depends(j, s) /\ summary[j] = "current"
                                THEN "stale" ELSE summary[j]]
  /\ UNCHANGED <<rows, items, worker, profileReady, reserved, projectLive, requeues>>
Recategorize(s) ==
  /\ Live(s)
  /\ gone' = gone \cup {s}
  /\ summary' = [j \in Jobs |-> IF Depends(j, s) THEN "stale" ELSE summary[j]]
  /\ UNCHANGED <<rows, items, worker, profileReady, reserved, projectLive, requeues>>
Expire(s) ==
  /\ s \notin gone
  /\ gone' = gone \cup {s}
  /\ UNCHANGED <<rows, items, worker, profileReady, reserved, projectLive, summary,
                 requeues>>

LeaseExpires(j) ==
  /\ job[j].state = "leased" /\ job[j].expires = "future"
  /\ job' = [job EXCEPT ![j].expires = "past"]
  /\ UNCHANGED <<rescheduled, items, worker, profileReady, reserved, world,
                 summary, requeues>>
BecomesDue(j) ==
  /\ job[j].state \in Waiting /\ job[j].runAfter = "future"
  /\ job' = [job EXCEPT ![j].runAfter = "past"]
  /\ UNCHANGED <<rescheduled, items, worker, profileReady, reserved, world,
                 summary, requeues>>
NewDay ==
  /\ reserved > 0
  /\ reserved' = 0
  /\ UNCHANGED <<rows, items, worker, profileReady, world, summary, requeues>>

-----------------------------------------------------------------------------
WorkerStep(w) ==
  \/ Claim(w) \/ Select(w) \/ Reserve(w) \/ Save(w) \/ Merge(w) \/ Publish(w)
  \/ WorkerError(w) \/ Failure(w)
Operator ==
  \/ ResumeProfile \/ SaveModel
  \/ \E j \in Jobs : Enqueue(j) \/ Cancel(j) \/ Retry(j) \/ Reschedule(j)
World ==
  \/ DeleteProject \/ RestoreProject \/ NewDay
  \/ \E s \in Sources : Revise(s) \/ Recategorize(s) \/ Expire(s)
  \/ \E j \in Jobs : LeaseExpires(j) \/ BecomesDue(j)
Next ==
  \/ \E w \in Workers : WorkerStep(w) \/ Crash(w)
  \/ Operator
  \/ World

Spec == Init /\ [][Next]_vars

\* An idle worker polls, a running one goes on, and time passes.
FairSpec ==
  /\ Spec
  /\ \A w \in Workers : WF_vars(WorkerStep(w))
  /\ \A j \in Jobs : WF_vars(LeaseExpires(j)) /\ WF_vars(BecomesDue(j))

-----------------------------------------------------------------------------
(* Properties *)

Busy(w) == worker[w].pc # "idle"

\* Two workers never hold the same job, although they may all write the same
\* lease_owner: the fence of claim() tells them apart.
LeaseExclusive ==
  \A v, w \in Workers :
    /\ v # w /\ Busy(v) /\ Busy(w)
    /\ worker[v].job = worker[w].job
    => ~(SameLease(v) /\ SameLease(w))

\* No step of another worker, such as the late failure() of one that lost its
\* lease or a claim(), takes a live lease away ("a late failure can never
\* overwrite the new worker's state").
HolderUndisturbed ==
  [][\A v, w \in Workers :
       /\ v # w /\ worker'[v] # worker[v]
       /\ Busy(w) /\ Owns(w)
       => Owns(w)']_vars

\* Crashes and lost leases never give a job more attempts than the limit:
\* only an operator who requeues it does (the comment in claim()).
AttemptBound == \A j \in Jobs : job[j].attempts <= MaxAttempts + requeues

\* Whatever the workers' interleaving, the day's model calls stay within the
\* profile's daily limit (reserve()).
BudgetBound == reserved <= DailyLimit

\* A model call is only paid for what is not confirmed yet: no done item and
\* no segment that has been checkpointed, also after crashes and takeovers
\* ("confirmed segments are not billed again", worker.mjs).
ConfirmedNotBilledAgain ==
  [][\A w \in Workers :
       worker[w].pc = "ready" /\ worker'[w].pc = "sent" =>
         /\ worker[w].batch \cap done[worker[w].job] = {}
         /\ \A s \in worker[w].batch : segs[worker[w].job][s] < Segments[s]]_vars

\* A summary exists exactly for the jobs that succeeded, so no retry, requeue
\* or takeover publishes a job's output twice (publish()).
PublishedMeansSucceeded ==
  \A j \in Jobs : summary[j] # "none" <=> job[j].state = "succeeded"

\* A group shows at most one summary (publishSummary()).
OneCurrent ==
  \A i, j \in Jobs :
    /\ Group[i] = Group[j]
    /\ summary[i] = "current" /\ summary[j] = "current"
    => i = j

\* A delayed job that publishes after a later planned one does not displace
\* it while its sources are current ("completion time must never let the
\* older snapshot displace the newer one", publishSummary()).
NewerNotDisplaced ==
  [][\A i, j \in Jobs :
       /\ i > j /\ Group[i] = Group[j]
       /\ summary[i] = "current" /\ \A s \in Manifest[i] : Live(s)
       /\ summary[j] = "none" /\ summary'[j] # "none"
       => summary'[i] = "current" /\ summary'[j] # "current"]_vars

\* The workers whose writes a job accepts, and the jobs whose output exists.
Holders(j) == {w \in Workers : Busy(w) /\ worker[w].job = j /\ Owns(w)}
Shown == {j \in Jobs : summary[j] # "none"}
Ledger == INSTANCE JobLedger WITH
  holder <- [j \in Jobs |-> Holders(j)], published <- Shown

\* Whatever is delayed, crashes or is taken over, the queue implements the
\* ledger: one worker at a time confirms a job's work, each source and segment
\* once, and only a job that is confirmed entirely is published, once (claim(),
\* owns(), saveChunk(), saveSummaryProgress(), publish()).
WorkOnce == Ledger!Spec

\* Every planned job is settled in the end, whatever crashes: published,
\* failed for good or waiting for an operator.  A job may wait while its
\* profile is blocked (memory_profile_state).
JobsSettle ==
  \A j \in Jobs :
    job[j].state \in Waiting \cup {"leased"} ~>
      job[j].state \in Settled \/ ~profileReady

-----------------------------------------------------------------------------
(* Inductive strengthenings (MemoryJobsProofs) *)

\* A worker remembers a fence its job really had, and no two workers were
\* given the same one: why LeaseExclusive holds.
FencesDistinct ==
  /\ \A w \in Workers :
       Busy(w) => worker[w].fence <= job[worker[w].job].fence
  /\ \A v, w \in Workers :
       v # w /\ Busy(v) /\ Busy(w) /\ worker[v].job = worker[w].job
       => worker[v].fence # worker[w].fence

\* A job that waits has an attempt left: why AttemptBound holds.
AttemptsLeft ==
  \A j \in Jobs :
    /\ job[j].attempts <= MaxAttempts + requeues
    /\ job[j].state \in Waiting \cup {"none"} =>
         job[j].attempts < MaxAttempts + requeues

\* What a worker has selected, and has yet to send or to save, is unconfirmed
\* as long as its fence is the job's: why ConfirmedNotBilledAgain holds.
UnpaidBy(w) ==
  LET j == worker[w].job
      batch == worker[w].batch IN
  worker[w].pc \in {"ready", "sent", "resent"} /\ worker[w].fence = job[j].fence
  => /\ batch \cap done[j] = {}
     /\ \A s \in batch : segs[j][s] < Segments[s]
     /\ \A s, t \in batch : Segments[s] > 1 => s = t
Unpaid == \A w \in Workers : UnpaidBy(w)

\* Only planned work is confirmed, and no segment more than a source has.
ConfirmedPlanned ==
  \A j \in Jobs :
    /\ done[j] \subseteq Manifest[j]
    /\ \A s \in Sources :
         segs[j][s] <= IF Segments[s] > 1 THEN Segments[s] ELSE 0

\* What a worker has selected belongs to its job, and what it has yet to merge
\* is a source with all its segments confirmed, as long as its fence is the
\* job's: with Unpaid, why WorkOnce holds.
MergeableBy(w) ==
  LET j == worker[w].job
      batch == worker[w].batch IN
  /\ worker[w].pc \in Working \ {"loop"} => batch \subseteq Manifest[j]
  /\ worker[w].pc = "merge" /\ worker[w].fence = job[j].fence
     => /\ batch \cap done[j] = {}
        /\ \A s \in batch : Segments[s] > 1 => segs[j][s] = Segments[s]
Mergeable == \A w \in Workers : MergeableBy(w)

==============================================================================
