------------------------------ MODULE OwnerRuns ------------------------------
(***************************************************************************)
(* The processing runs of the owner (server/lib/console/owner.mjs) on top  *)
(* of the job queue: a run is previewed, confirmed, paused, resumed and    *)
(* cancelled by the owner, has a budget of model calls, and is worked on   *)
(* by tick().  While an owner is configured every method of the queue asks *)
(* the run of its job first (guard, guardJob).                             *)
(*                                                                         *)
(* A worker of MemoryJobs is here the one worker that tick() of a server   *)
(* process starts; `ticker` is where that process stands in tick().  Runs  *)
(* of the vector index share guard() and the states, their work is in      *)
(* VectorIndex.                                                            *)
(***************************************************************************)
EXTENDS MemoryJobs

CONSTANTS
  Runs,         \* owner_processing_runs, in the order of their creation
  RunOf,        \* owner_processing_jobs: the run that enqueues a job
  CallLimit,    \* the budget of a run
  MaxChanges    \* bound: interventions, the deaths of processes included

ASSUME RunsAssumption == Runs \subseteq Nat /\ RunOf \in [Jobs -> Runs]
ASSUME BoundsAssumption == CallLimit \in Nat /\ MaxChanges \in Nat

VARIABLES
  run,          \* owner_processing_runs; states: none, preview, queued, running,
                \* paused, blocked, completed, cancelled, dropped (deleted)
  settings,     \* owner_feature_policy: revision, the switch `processing`, and
                \* the model revision the schedule was saved with
  model,        \* revision of the model settings
  lifecycle,    \* lifecycle generation of the owner
  ticker,       \* tick() of each process
  sent,         \* history: model calls made for each run
  withdrawn,    \* history: workers whose call was sent before the owner paused,
                \* cancelled or resumed its run
  changes       \* interventions so far

bases == <<settings, model, lifecycle>>
owned == <<run, bases, ticker, sent, withdrawn, changes>>
queue == <<rows, items, worker, profileReady, reserved, world, summary, requeues>>

Open == {"queued", "running"}
\* The owner, an operator or a writer of memories intervenes.
Intervenes == changes < MaxChanges /\ changes' = changes + 1
NewRun == [state |-> "none", used |-> 0, policy |-> 0, model |-> 0,
           lifecycle |-> 0, expired |-> FALSE]
Off == [pc |-> "off", run |-> 0]

InitRuns ==
  /\ Init
  /\ run = [r \in Runs |-> NewRun]
  /\ settings = [revision |-> 0, processing |-> TRUE, model |-> 0]
  /\ model = 0 /\ lifecycle = 0
  /\ ticker = [w \in Workers |-> Off]
  /\ sent = [r \in Runs |-> 0]
  /\ withdrawn = {}
  /\ changes = 0

-----------------------------------------------------------------------------
(* What the code tests *)

JobsOf(r) == {j \in Jobs : RunOf[j] = r}
Items(r) == UNION {Manifest[j] : j \in JobsOf(r)}
ItemsCurrent(r) == \A s \in Items(r) : Live(s)

\* ready(), for a run that was confirmed under `revision`
ReadyAt(r, revision) ==
  /\ run[r].lifecycle = lifecycle /\ run[r].model = model
  /\ settings.processing /\ settings.revision = revision
Ready(r) == ReadyAt(r, run[r].policy)

\* guard(), and the kind of error it throws otherwise
Granted(r) == run[r].state \in Open /\ Ready(r) /\ ItemsCurrent(r)
Refusal(r) ==
  IF run[r].state \in Open /\ (run[r].lifecycle # lifecycle \/ Ready(r))
  THEN "stale" ELSE "config"

\* Fault: only work that can be claimed makes a run runnable.
RunnableDue(r) ==
  /\ run[r].state \in Open /\ profileReady
  /\ JobsOf(r) \cap (Claimable \cup Exhausted) # {}
\* The query of tick(): something can be claimed, or the run can be settled.
Runnable(r) ==
  /\ run[r].state \in Open
  /\ \/ \A j \in JobsOf(r) : job[j].state = "succeeded"
     \/ \E j \in JobsOf(r) : job[j].state \notin Waiting \cup {"leased", "succeeded"}
     \/ profileReady /\ JobsOf(r) \cap (Claimable \cup Exhausted) # {}

-----------------------------------------------------------------------------
(* The owner *)

SetRun(r, state) == run' = [run EXCEPT ![r].state = state]
Unfinished(r) ==
  {j \in JobsOf(r) : job[j].state \notin {"none", "succeeded", "cancelled"}}
Calling(r) ==
  {w \in Workers : worker[w].pc \in {"sent", "resent"} /\ RunOf[worker[w].job] = r}

\* preview()
Preview(r) ==
  /\ run[r].state = "none" /\ \A q \in Runs : q < r => run[q].state # "none"
  /\ ItemsCurrent(r)
  /\ run' = [run EXCEPT ![r] =
       [NewRun EXCEPT !.state = "preview", !.policy = settings.revision,
                      !.model = model, !.lifecycle = lifecycle]]
  /\ UNCHANGED <<queue, bases, ticker, sent, withdrawn, changes>>
PreviewExpires(r) ==
  /\ run[r].state = "preview" /\ ~run[r].expired
  /\ run' = [run EXCEPT ![r].expired = TRUE]
  /\ UNCHANGED <<queue, bases, ticker, sent, withdrawn, changes>>

Enqueued(r) ==
  [j \in Jobs |-> IF j \in JobsOf(r)
                  THEN [job[j] EXCEPT !.state = "pending", !.runAfter = "past"]
                  ELSE job[j]]
\* start()
Start(r) ==
  /\ run[r].state = "preview" /\ ~run[r].expired
  /\ Ready(r) /\ ItemsCurrent(r)
  /\ SetRun(r, "queued")
  /\ job' = Enqueued(r)
  /\ UNCHANGED <<rescheduled, items, worker, profileReady, reserved, world, summary,
                 requeues, bases, ticker, sent, withdrawn, changes>>
\* The schedule of tick() previews and starts in one transaction.
Scheduled(r) ==
  /\ run[r].state = "none" /\ \A q \in Runs : q < r => run[q].state # "none"
  /\ settings.processing /\ settings.model = model /\ ItemsCurrent(r)
  /\ run' = [run EXCEPT ![r] =
       [NewRun EXCEPT !.state = "queued", !.policy = settings.revision,
                      !.model = model, !.lifecycle = lifecycle]]
  /\ job' = Enqueued(r)
  /\ UNCHANGED <<rescheduled, items, worker, profileReady, reserved, world, summary,
                 requeues, bases, ticker, sent, withdrawn, changes>>

\* change(): pause and cancel
Changeable(r, state) ==
  IF state = "paused" THEN run[r].state \in Open \cup {"blocked", "paused"}
  ELSE run[r].state \notin {"none", "dropped", "completed", "cancelled"}
Change(r, state) ==
  /\ Intervenes
  /\ Changeable(r, state) /\ run[r].state # state
  /\ SetRun(r, state)
  /\ job' = FenceAll(Unfinished(r), "blocked_config")
  /\ withdrawn' = withdrawn \cup Calling(r)
  /\ UNCHANGED <<rescheduled, items, worker, profileReady, reserved, world, summary,
                 requeues, bases, ticker, sent>>

\* Fault: a job that is being worked on is left alone.
ResumedJobsBlocked(r) ==
  [j \in Jobs |-> IF j \in Unfinished(r) /\ job[j].state # "leased"
                  THEN [job[j] EXCEPT !.state = "pending", !.runAfter = "past"]
                  ELSE job[j]]
\* resume() on the jobs: they keep their fence and what is left of a lease.
ResumedJobs(r) ==
  [j \in Jobs |-> IF j \in Unfinished(r)
                  THEN [job[j] EXCEPT !.state = "pending", !.runAfter = "past"]
                  ELSE job[j]]
\* Fault: a resumed run has its whole budget again.
ResumedRunAnew(r) ==
  [run[r] EXCEPT !.state = "queued", !.policy = settings.revision, !.used = 0]
ResumedRun(r) ==
  [run[r] EXCEPT !.state = "queued", !.policy = settings.revision]
Resume(r) ==
  /\ requeues < MaxRequeues
  /\ (run[r].state = "paused" /\ UNCHANGED changes) \/ Intervenes
  /\ run[r].state \in {"paused", "blocked"}
  /\ ReadyAt(r, settings.revision) /\ ItemsCurrent(r)
  /\ run[r].used < CallLimit
  /\ run' = [run EXCEPT ![r] = ResumedRun(r)]
  /\ job' = ResumedJobs(r)
  /\ profileReady' = TRUE
  /\ requeues' = requeues + 1
  /\ withdrawn' = withdrawn \cup Calling(r)
  /\ UNCHANGED <<rescheduled, items, worker, reserved, world, summary, bases,
                 ticker, sent>>

\* remove(), and clear() for one run after the other
Remove(r) ==
  /\ \/ run[r].state \in {"completed", "cancelled"}
     \/ run[r].state = "preview" /\ run[r].expired
  /\ SetRun(r, "dropped")
  /\ UNCHANGED <<queue, bases, ticker, sent, withdrawn, changes>>

\* save() and schedule(): all open runs are paused (fenceAll).
SaveSettings(on) ==
  LET paused == {r \in Runs : run[r].state \in Open} IN
  /\ Intervenes
  /\ \E m \in {settings.model, model} :
       settings' = [revision |-> settings.revision + 1, processing |-> on, model |-> m]
  /\ run' = [r \in Runs |-> IF r \in paused THEN [run[r] EXCEPT !.state = "paused"]
                            ELSE run[r]]
  /\ job' = FenceAll(UNION {Unfinished(r) : r \in paused}, "blocked_config")
  /\ withdrawn' = withdrawn \cup UNION {Calling(r) : r \in paused}
  /\ UNCHANGED <<rescheduled, items, worker, profileReady, reserved, world, summary,
                 requeues, model, lifecycle, ticker, sent>>

\* models.save, and the deletion and restoration of a project
ChangeModel ==
  /\ Intervenes /\ SaveModel
  /\ model' = model + 1
  /\ UNCHANGED <<run, settings, lifecycle, ticker, sent, withdrawn>>
ChangeLifecycle ==
  /\ (Intervenes /\ DeleteProject) \/ (RestoreProject /\ UNCHANGED changes)
  /\ lifecycle' = lifecycle + 1
  /\ UNCHANGED <<run, settings, model, ticker, sent, withdrawn>>

-----------------------------------------------------------------------------
(* tick() *)

TickerAt(w, pc) == ticker' = [ticker EXCEPT ![w].pc = pc]
\* The catch of tick()
Blocks(w) ==
  LET r == ticker[w].run IN
  /\ run' = IF run[r].state \in Open THEN [run EXCEPT ![r].state = "blocked"] ELSE run
  /\ ticker' = [ticker EXCEPT ![w] = Off]

\* The oldest runnable run, if it is still granted
Tick(w) ==
  /\ ticker[w].pc = "off" /\ settings.processing
  /\ \E r \in Runs :
       /\ Runnable(r) /\ \A q \in Runs : q < r => ~Runnable(q)
       /\ IF Granted(r)
          THEN ticker' = [ticker EXCEPT ![w] = [pc |-> "begin", run |-> r]] /\ UNCHANGED run
          ELSE SetRun(r, "blocked") /\ UNCHANGED ticker
  /\ UNCHANGED <<queue, bases, sent, withdrawn, changes>>
\* A statement of its own: another process may have changed the run.
Begin(w) ==
  /\ ticker[w].pc = "begin"
  /\ IF run[ticker[w].run].state = "dropped" THEN UNCHANGED run
     ELSE SetRun(ticker[w].run, "running")
  /\ TickerAt(w, "claim")
  /\ UNCHANGED <<queue, bases, sent, withdrawn, changes>>

\* MemoryJobs.claim for the jobs of the run
RunClaim(w) ==
  LET r == ticker[w].run
      mine == IF profileReady THEN JobsOf(r) ELSE {} IN
  /\ ticker[w].pc = "claim"
  /\ \/ ~Granted(r) /\ Blocks(w) /\ UNCHANGED <<job, worker>>
     \/ /\ Granted(r) /\ Cardinality(LiveLeases) >= Concurrency
        /\ TickerAt(w, "drained") /\ UNCHANGED <<run, job, worker>>
     \/ /\ Granted(r) /\ Cardinality(LiveLeases) < Concurrency
        /\ \E dead \in SUBSET (Exhausted \cap mine), j \in Claimable \cap mine :
             /\ job' = [FenceAll(dead, "dead_letter") EXCEPT ![j] = Leased(job[j], w)]
             /\ worker' = [worker EXCEPT ![w] =
                  [Idle EXCEPT !.pc = "loop", !.job = j,
                               !.fence = Leased(job[j], w).fence]]
        /\ TickerAt(w, "drained") /\ UNCHANGED run
     \/ /\ Granted(r) /\ Cardinality(LiveLeases) < Concurrency
        /\ Claimable \cap mine = {}
        /\ job' = FenceAll(Exhausted \cap mine, "dead_letter")
        /\ TickerAt(w, "drained") /\ UNCHANGED <<run, worker>>
  /\ UNCHANGED <<rescheduled, items, profileReady, reserved, world, summary,
                 requeues, bases, sent, withdrawn, changes>>

\* After the worker's job: the run is completed, blocked, or goes on.
Settle(w) ==
  LET r == ticker[w].run
      closed == CASE \A j \in JobsOf(r) : job[j].state = "succeeded" -> "completed"
                  [] \E j \in JobsOf(r) : job[j].state \notin
                        Waiting \cup {"leased", "succeeded"} -> "blocked"
                  [] OTHER -> "running"
  IN
  /\ ticker[w].pc = "drained" /\ worker[w].pc = "idle"
  /\ run' = IF run[r].state = "running" THEN [run EXCEPT ![r].state = closed] ELSE run
  /\ ticker' = [ticker EXCEPT ![w] = Off]
  /\ UNCHANGED <<queue, bases, sent, withdrawn, changes>>

-----------------------------------------------------------------------------
(* The worker, with the guard of its run before what it does *)

CallsLeft(r) == run[r].used < CallLimit

Refused(w, code) ==
  /\ Fails(w, code)
  /\ UNCHANGED <<rows, items, profileReady, reserved, world, summary, requeues>>
Continues(w) ==
  /\ withdrawn' = withdrawn \ {w}
  /\ UNCHANGED <<bases, ticker, changes>>

\* guardJob()
MayGoOn(w) == Granted(RunOf[worker[w].job])
Stopped(w) == ~MayGoOn(w) /\ Refused(w, Refusal(RunOf[worker[w].job]))

RunReserve(w) ==
  LET r == RunOf[worker[w].job] IN
  /\ worker[w].pc \in {"ready", "sent"}
  /\ \/ Stopped(w) /\ UNCHANGED <<run, sent>>
     \/ /\ MayGoOn(w) /\ ~CallsLeft(r) /\ Refused(w, "config")
        /\ UNCHANGED <<run, sent>>
     \/ /\ MayGoOn(w) /\ CallsLeft(r) /\ Reserve(w)
        /\ IF worker'[w].pc = "fail" THEN UNCHANGED <<run, sent>>
           ELSE /\ run' = [run EXCEPT ![r].used = @ + 1]
                /\ sent' = [sent EXCEPT ![r] = @ + 1]
  /\ Continues(w)
RunSave(w) ==
  /\ worker[w].pc \in {"sent", "resent"}
  /\ Stopped(w) \/ (MayGoOn(w) /\ Save(w))
  /\ Continues(w) /\ UNCHANGED <<run, sent>>
RunMerge(w) ==
  /\ worker[w].pc = "merge"
  /\ Stopped(w) \/ (MayGoOn(w) /\ Merge(w))
  /\ Continues(w) /\ UNCHANGED <<run, sent>>
RunPublish(w) ==
  /\ worker[w].pc = "loop" /\ Todo(worker[w].job) = {}
  /\ Stopped(w) \/ (MayGoOn(w) /\ Publish(w))
  /\ Continues(w) /\ UNCHANGED <<run, sent>>
\* Of the errors without a retry, `auth` stands for them all: a run only sees
\* whether its jobs go on (the other codes are in MemoryJobs).
RunError(w) == WorkerError(w) /\ worker'[w].code \in {"auth", "transient"}
RunOther(w) ==
  /\ Select(w) \/ RunError(w) \/ Failure(w)
  /\ Continues(w) /\ UNCHANGED <<run, sent>>

\* A server process dies.
ProcessDies(w) ==
  /\ Intervenes /\ ticker[w].pc # "off"
  /\ worker' = [worker EXCEPT ![w] = Idle]
  /\ ticker' = [ticker EXCEPT ![w] = Off]
  /\ withdrawn' = withdrawn \ {w}
  /\ UNCHANGED <<rows, items, profileReady, reserved, world, summary, requeues,
                 run, bases, sent>>

-----------------------------------------------------------------------------
ProcessStep(w) ==
  \/ Tick(w) \/ Begin(w) \/ RunClaim(w) \/ Settle(w)
  \/ RunReserve(w) \/ RunSave(w) \/ RunMerge(w) \/ RunPublish(w) \/ RunOther(w)
OwnerStep ==
  \/ \E r \in Runs :
       \/ Preview(r) \/ PreviewExpires(r) \/ Start(r) \/ Scheduled(r)
       \/ Change(r, "paused") \/ Change(r, "cancelled") \/ Resume(r) \/ Remove(r)
  \/ \E on \in BOOLEAN : SaveSettings(on)
  \/ ChangeModel \/ ChangeLifecycle
\* What others do to jobs and sources: an operator cancels a job or resumes
\* the profile, an agent revises a memory.
Elsewhere ==
  /\ Intervenes
  /\ \/ ResumeProfile
     \/ \E j \in Jobs : Cancel(j)
     \/ \E s \in Sources : Revise(s)
  /\ UNCHANGED <<run, bases, ticker, sent, withdrawn>>
TimePasses(j) == (LeaseExpires(j) \/ BecomesDue(j)) /\ UNCHANGED owned

RunsNext ==
  \/ \E w \in Workers : ProcessStep(w) \/ ProcessDies(w)
  \/ OwnerStep \/ Elsewhere
  \/ \E j \in Jobs : TimePasses(j)

RunsSpec ==
  /\ InitRuns /\ [][RunsNext]_<<queue, owned>>
  /\ \A w \in Workers : WF_<<queue, owned>>(ProcessStep(w))
  /\ \A j \in Jobs : WF_<<queue, owned>>(TimePasses(j))

-----------------------------------------------------------------------------
(* Properties *)

\* However often a run is paused, resumed, blocked or taken over by another
\* process, no more model calls are made for it than the owner confirmed
\* (guard() with reserve, resume()).
RunBudget == \A r \in Runs : sent[r] <= CallLimit

\* The answer to a call that was sent before the owner paused, cancelled or
\* resumed its run is not used, although resume() leaves the fence and the
\* lease of a job as they are: its worker can only fail, and makes no repair
\* call either.
GrantedResults ==
  [][\A w \in withdrawn :
       worker'[w] # worker[w] => worker'[w].pc \in {"fail", "idle"}]_<<queue, owned>>

\* A run that was confirmed is completed, or blocked, paused or cancelled,
\* also when the process that did its last work died before it could say so
\* (the query of tick()).  It may wait while its profile is blocked or
\* processing is off.
RunSettles ==
  \A r \in Runs :
    run[r].state \in Open ~>
      run[r].state \notin Open \/ ~profileReady \/ ~settings.processing
==============================================================================
