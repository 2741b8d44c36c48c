# Mnemuron: a TLA+ verification project

Mnemuron is a self-hosted memory for AI agents. A central server keeps projects,
tasks, events and memories in SQLite; agents reach it through adapters that run
beside each agent (a plugin with hooks and an MCP server, OpenClaw, Hermes,
ChatGPT web); an OAuth service and a web console let the owner administer it.
This directory holds TLA+ models of the parts whose correctness depends on the
order in which several processes act, the TLC configurations that check them on
small instances, and TLAPS proofs of their most important invariants.

## 1. Inventory

Paths are relative to `src/`.

| Component | State | Operations | What is hard |
|---|---|---|---|
| Memory job queue (`server/lib/memory-jobs/store.mjs`, `worker.mjs`, `windows.mjs`, `summary-segments.mjs`) | `memory_jobs`, `memory_job_items`, `memory_model_budget`, `memory_profile_state` (SQLite) | enqueue, claim, renew, reserve, saveSummaryProgress, saveChunk, publish, failure, resumeProfile, cancel | several workers, leases that expire during a model call, crash and takeover, daily budget, retries |
| Derived memory (`server/lib/memory-derived/`) | `memory_summaries`, dependencies, categories, pagination cursors | validateItem, setCategory, saveTag, publishSummary, list | sources change while a job is running; delayed jobs publish out of order |
| Owner runs (`server/lib/console/owner.mjs`) | policy, run manifests, run states and budgets | policy save, preview, start, pause, cancel, resume, tick, schedule | pause or cancel while a model call is in flight; run budget shared by jobs |
| Console (`server/lib/console/*.mjs`, `web/console/`) | audit trail, projects, hosts, quotas, features, search feedback | one command per page action | operator actions racing workers |
| Outbox synchronisation (`plugins/mnemuron/scripts/sync-protocol.mjs`, `remote-client.mjs`, `background-sync.mjs`, packaged again for OpenClaw and ported to Hermes in `adapters/hermes/sync_protocol.py`) | immutable envelopes, `.state` sidecars, lane markers, `sync-auth.state`, lock directories, quarantine | queue, flush, quarantine, reconcile, background pump | several processes on one directory, crash between two file operations, lost answers, permanent refusals |
| Resume delivery, server half (`server/lib/store.mjs` createPreview, confirmPreview, recordInjectionEvent, recordDeliveryReceipt) | resumes, injection events, delivery receipts | preview, confirm or cancel, delivered, acknowledged, failed | duplicated and reordered receipts, two agents claiming one resume, expiry |
| Resume delivery, agent half (`plugins/mnemuron/scripts/storage.mjs`, `hook.mjs`, `mcp-core.mjs`) | `resume-injections/*.json`, acknowledgement journal, delivery lock | queue, arm, claim, mark returned, finish, fail, recover, acknowledge | hook and MCP processes race; a crash between the central receipt and the local write |
| Central store: tasks, checkpoints, events, memories (`server/lib/store.mjs`, `reconciliation.mjs`, `resolver.mjs`) | projects, tasks, events, checkpoints, memories, previews | bootstrap preview/confirm, appendEvents, checkpoints, saveMemory, supersede, retract, prune | idempotent replay, stale previews |
| Memory revisions (`server/lib/memory/revisions.mjs`, `cloud.mjs`, `review.mjs`, `rules.mjs`, `sources.mjs`, `traits.mjs`) | revision chains, visibility, review queue | correct, retract, restore, review | stale base revision |
| Lifecycle (`server/lib/lifecycle/`) | lifecycle of projects, tasks, sessions, memories; protection snapshots | archive, delete, restore | deletion while work on the object is in flight |
| Vector index (`server/lib/vector-stores/`) | generations, chunk rows, Qdrant collection | index, activate, delete, repair | a crash between SQLite and Qdrant |
| Model providers (`server/lib/model-providers/`) | usage records | structured call, embeddings, quotas | timeouts, retries |
| Configuration, tunnel and hosts (`server/lib/config/`, `server/lib/tunnel/`) | settings files, apply journals | stage, apply, roll back | a crash between two files |
| OAuth service (`services/oauth/src/`) | grants, tokens, interactions, connections, identity, process lease | authorise, consent, consume, revoke, recover | replayed codes, two processes on one database |
| Adapters (`adapters/openclaw`, `adapters/hermes`, `adapters/chatgpt-web`) | copies of the outbox and of the resume delivery | capture, flush, deliver | as the plugin |
| HTTP front end (`server/lib/app.mjs`) | none of its own | routing, authentication | none |


Two further parts keep no state that several actors change: retrieval and
evaluation (`server/lib/memory-retrieval.mjs`, `memory-evaluation/`) and the web
console's pages (`web/console/`).

What makes each part correct:

* job queue: a job is held by one worker at a time, a worker that lost its lease
  changes nothing, attempts and daily calls are bounded, what was paid for is not
  paid again, a job publishes at most once, and every job settles;
* derived memory: a group shows one summary, and never an older snapshot in place
  of a newer one that is still valid;
* owner runs: nothing is sent after a pause or cancellation took effect, and a run
  stays within its budget;
* outbox: no envelope is lost, a session arrives in its order, an answer that does
  not match stops the session until an operator acts, and a healthy session is
  delivered; underneath, a lane has one live holder and a dead one is replaced;
* resume delivery: a context is delivered only after it was confirmed, by one
  session, and acknowledged only after it was returned;
* store, revisions, lifecycle: a preview that no longer describes the store is not
  confirmed, and a correction against a stale revision is refused;
* vector index: what is served was written for the generation that is active;
* OAuth: a code is used once, and nothing of a revoked grant is valid.

## 2. Plan

Order of work, most important first; the numbered items are done.

1. `MemoryJobs`: queue, workers, operators and publication of summaries. Theorems:
   types, lease exclusion, attempts, budget, single publication, one current summary,
   and that the queue implements the abstract `JobLedger`.
2. `LaneLock`: the lock of an outbox lane, at the grain of file system calls.
   Theorems: a live owner is kept; exclusion until a crash.
3. `Outbox`: `flushQueue` over the lanes, with the lock as `LaneLock` shows it to be:
   exclusive until a kill or a stall, after which a lane may have two holders. Adds
   lost answers and credentials. Theorems: types, and every safety and action property
   of the run.
4. `Delivery` = `ResumeServer` + `DeliveryCalls` + the three hosts (`CodexHost`,
   `OpenClawHost`, `HermesHost`), a refinement of `DeliveryOnce`. Theorems: types, the
   refinement in both protocols, and every safety property of the run.
5. `TaskStore` = `ProjectTree` + `TaskCanon` + `TaskBootstrap` + `Capture`: what the
   central store keeps of a task, under previews, reviews and the lifecycle. Theorems:
   types, and every safety and action property of the run.
6. `VectorIndex` over `MemoryRecords`: revisions of memories, their review, and the
   semantic index that follows them in a second store. Theorems: types, and the safety
   and action properties of the run.
7. `OwnerRuns` over `MemoryJobs`: the runs of the owner and their budget. Theorems:
   the budget, and withdrawn calls are not used.

What is left, in this order: the OAuth service (single use of codes, process lease);
staged configuration with its journal.

## 3. The modules

### JobLedger, MemoryJobs (`MCMemoryJobs`, `MemoryJobsProofs`)

`job` is the table `memory_jobs` (state, attempts, lease owner and expiry, fence,
run_after), `done` and `segs` are the items and their saved segments, `worker` what
a `MemoryWorker` remembers between two awaits, `reserved` the day's row of
`memory_model_budget`, `profileReady` the row of `memory_profile_state`, `summary`
the status of what a job published. Every method of the store is one SQLite
transaction and one action: `Enqueue`, `Claim`, `Reserve`, `Save` (saveChunk and
saveSummaryProgress), `Publish`, `Failure`, `Cancel`, `ResumeProfile`. `Select` and
`Merge` are what `runOne` and `segmentSummary` decide between two of them, and
`WorkerError` a model call that fails. The console's retry, reschedule and model
change, and the deletion and restoration of a project, are actions as far as they
write these rows; corrections, categories and expiring sources change what
`validateItem` answers.

Time is what the code asks of it: an expiry lies in the past or in the future, and
may move to the past at any moment. Renewing a lease then changes nothing and is
the test that it is still held. Left out: which sources go into which job (a
constant), the owner's guard (see `OwnerRuns`), and a quota marked manual,
which replaces the daily limit.

`JobLedger` says what the queue promises without leases, fences, attempts and time: a
job is in one worker's hands at a time, no more jobs are held than `Concurrency`
allows, only the holder confirms sources and segments, each once and only planned
ones, and a job is published once, by its holder, when everything is confirmed. In
`MemoryJobs` a job is held by the workers that would pass `owns()` (`Holders`), and
published when it has a summary (`Shown`); `WorkOnce` is the refinement. A lease that
ends, a crash, a failure and an operator withdraw a job; a claim grants it.

### LaneLock (`MCLaneLock`, `LaneLockProofs`)

`dir` is the lock directory (absent, or modified less or more than a minute ago),
`owners` the files in it, `pc`, `seen` and `retry` where each process is in
`claimLane`. Each action is one system call: `Mkdir`, `List`, `Stat`, `Reap`
(unlink of one listed owner), `Rmdir`, `Own`, `ReleaseOwner`, `ReleaseDir`. `Kill`
stops a process for good (a zombie counts as dead), `Age` lets a minute pass;
`stalled` records whether that happened while a process was inside a call, against
which the code's minute is no protection. Reuse of a dead process's pid is left out.

### Outbox (`MCOutbox`, `OutboxProofs`)

`files`, `quarantine`, `sidecar`, `marker` and `authFile` are the files of a data
directory, `flusher` the local variables of `flushQueue` in each process, `lock` the
owner files in the lock directory of each lane, `server` what the server has accepted.
`Begin` to `TimeIsUp` are the start and end of a flush. `Take` is `claimLane` for the
next item. A lane without a lock is taken, one with a live owner is passed over, and
one whose lock was left by a killed process is taken in a second step, `Reap`; in
between another process may take it too, and both then hold the lane, as `lane_stolen`
shows. `Stall` is a minute between making the directory and writing the owner file,
after which the lock looks left although its owner lives; it shares the bound
`MaxCrashes` with the kills. `Read` reads the marker and the sidecar, which `Gap`,
`Vanished`, `Hold` and `Send` then test, together with the files as they are by then;
`Gone` is an item that is no longer there. `Answer` is the server and the network
(external); `Accept`, `Unpause`, `Remove` and `Clean` remove an accepted item in the
order of the code; `Fail`, `Mark` and `Settle` are the writes of `fail()`: the sidecar,
the marker, and the refused credential or the move to the quarantine. A crash, and a
step of the other holder of the lane, is possible between any two of these. `Leaves`
is the release of the lane, which throws, and so ends the flush, when the directory
has another owner.

Items are numbered in the order of their time. Left out: files damaged from outside
(corrupt sidecars, envelopes that changed), the reconciliation records, which nothing
reads back, and the status file of the pump. `overlap` and `shared` are history
variables, which no action reads: whether a flush has begun while another process was
in one, and whether a process has taken a lane that another one held. `OrderKept`
depends on both. With two holders of one lane the order across queues is lost as well:
one reads no marker, the other quarantines the event, and the predecessor check of the
first then finds nothing in its way. The code does not exclude overlapping flushes
where the background pump is off: every hook then flushes for itself, and hooks of one
session may run at the same time.

### DeliveryOnce, ResumeServer, DeliveryCalls and the hosts, Delivery (`MCDelivery`, `DeliveryTypes`, `DeliveryProofs`)

`DeliveryOnce` says what the server promises of one Resume: one attempt at a time
holds it, one completes, and none is admitted after that. `Delivery` implements it
twice, once for each protocol (receipts, injection events), with what the rows of the
table say of an attempt as the refinement mapping (`Receipts`, `Injections`).

`ResumeServer` is the server half: `resume` with what its guards look at, `handoff`
and its drain, and `rows`, the two receipt tables; one action per request (preview,
confirm, cancel, event, receipt, pending, switch). `DeliveryCalls` is the network between
them: a request may be lost before or after it took effect, or be answered late.
`CodexHost`, `OpenClawHost` and `HermesHost` are the agent halves. Each keeps a local
record of the attempt, and each does so differently: Codex under a lock that can be
taken over, OpenClaw in one process with overlapping callbacks, Hermes in several
processes of which a new one fails what is in flight. Their actions are cut where the
code awaits the server or writes a file, and a process may die at each cut.

Injections are dated by the number of their attempt; only receipts use the clock
(`Now`, `Tick`). A pull is modelled for Resumes that the console bound to a session;
unbound Resumes have no exclusion between protocols. `given` counts 0, 1 and more.
Parties are sets of overlapping calls, and a cfg chooses among them. `MarkReturned` of
Codex is the durable record that the context was returned and `HandOver` the result of
the tool that carries it; `cut` holds the attempts whose call was killed in between,
which a later Stop acknowledges although their context was never given
(`AcknowledgedGiven` excepts exactly them). OpenClaw's `MarkHandedOff` and Hermes's
`MarkContextReturned` still join the mark and the context: there a process that is
killed comes back through `GatewayStart` or `Register`, which fail the attempt, so that
it is never acknowledged. A lock of Codex is also taken, by the tool and by the hooks,
when it is stale though its call still waits (`Acquires`), but not between the last
look at its owner and the end of the call. Three traits
of the code are kept although they are surprising: the prompt hook of Codex has no
handed-over marker, a manual confirmation in OpenClaw replaces a record in flight
whose attempt stays open at the server, and the registration of Hermes fails attempts
of processes that still run.

### ProjectTree, TaskCanon, TaskBootstrap, Capture, TaskStore (`MCTaskStore`, `TaskStoreProofs`)

`ProjectTree` resolves merged projects, routes writes to the survivor, and holds the
lifecycle (preview, confirm, expiry; generation and epochs). `TaskCanon` is the
canonical task with its versions, the proposals of agents, their review and the
console's edits. `TaskBootstrap` is the preview and confirmation of a first task.
`Capture` takes events in and makes checkpoints of them. `TaskStore` composes them:
one database, several connections, with each operation cut where the code reads
before its transaction.

A task is a title (the scalar fields) and one note that is or is not in a list.
Similarity of names is equality; a project id is its bootstrap name; one workstream
and one session; the reads of one call are one step. Captured events come from the
API only. The console runs each command in one transaction; giving it the API's
interleavings is a superset. `FrozenWhileDeleted` covers name, tasks, events and
checkpoints of a deleted project: the states of its proposals may still change.
`FreshAuthority` looks at the generation a proposal's own row was read under; what a new
proposal takes over from a pending one that has become stale (`store.mjs:2208`) is not
followed back. A
proposal at the current version always has an effect here, so the code's `no_effect`
at application does not occur. Memories derived from checkpoints are left out. The
scenes (`Trees`, `Review`, `Boots`, `Captures`) and the counter `calls` bound a run.

### MemoryRecords and VectorIndex (`MCVectorIndex`, `VectorProofs`)

`MemoryRecords` has the memories: save, supersede and retract (through agents, the
console and the cloud, whose operation ids are used once), categories, candidates
taken from captured text, the review of duplicates with the versions the reviewer
read, and deletion and restoration of the project. `VectorIndex` adds the index:
`generation` rows with lease and fence, `document`, `mapped` (points) and `manifest` in
SQLite, and the `published` and `building` points of the vector database, which is
external. A caller is one of sync,
catch-up, selected repair, activation or reconciliation, cut at every request to the
embedder or the database. Requests can fail, be lost with or without effect, or arrive
after their sender lost its lease.

One project; a memory's text does not change (a correction is a new memory); batches
of one chunk, pages of one scroll; captured sources do not expire (`currentSource`,
`memory-derived/store.mjs:50-54`; a project that is deleted and restored takes its
memories in and out of use the same way); the document set to `indexed`
(`index.mjs:167-169`) and the mark of the manifest (263, 269) are two transactions and
one step here, of which the second is only read by the next pass; traits, visibility
and the reviews that write nothing a reader sees are left out, as is searching, which
checks each hit again in SQLite. The id of a candidate contains the lifecycle
generation, so the same excerpt can be accepted again after a lifecycle change, in the
code as in the model.

`QuietIndexed` says of itself when it does not hold. `quiet` turns false once a
request arrives whose sender no longer had its lease (a pause, which advances the
fence at once; a request that was late): a late upsert can turn a published point back
to building, and the code cannot recall it. `lost` holds the points that SQLite still
maps and that a request has deleted: the answer to the deletion was lost, or the
process died before it was written down. `indexSource` drops obsolete points this way
(`vector-stores/index.mjs:141`), `hide()` deletes before it marks (`:177`), and
`reconcile()` removes points without marking (`:310`). When the build of the text then
becomes what it was (the limits of the model change back, the category, or the project
is restored), the mapping is taken for stored points: the document says `indexed`, and
the memory stays out of semantic search until it is embedded anew. `IndexedFound` is
`QuietIndexed` without this exception, and `vector_lost` refutes it (finding 4).

### OwnerRuns (`MCOwnerRuns`, `OwnerRunsProofs`)

Extends `MemoryJobs`: every method of the queue asks the run of its job first, so
`RunClaim`, `RunReserve`, `RunSave`, `RunMerge` and `RunPublish` are the queue's
actions behind `Granted`. `run` is `owner_processing_runs`, `settings`, `model` and
`lifecycle` are the revisions a run was confirmed under, and `ticker` is where a server
process stands in `tick()`: `Tick` (the query and the guard), `Begin` (the write of
`running`, a statement of its own), `RunClaim`, the worker's own steps, `Settle`. Two
processes tick. `sent` and `withdrawn` are history: the calls made for a run, and the
workers whose call is older than a pause, cancellation or resumption of its run.

While an owner is configured, the console refuses retry and reschedule
(`console/service.mjs:146`), so those actions of `MemoryJobs` are absent. The daily
limit is not reached here and errors without a retry are represented by one code;
both are `MemoryJobs`' subject, as are takeovers and `retry_wait` (a job has one
attempt here). The
quotas of the owner are left out. `Begin` may overwrite a state another process has
just written: a cancelled run can so become `running` and then `blocked`, with two
server processes on one database; its jobs stay fenced.

## 4. Runs

| Run | Instance | Shows |
|---|---|---|
| `job_leases` | 2 workers with one name, 1 job of 2 segments, 2 attempts, 1 call a day, 1 requeue; fair | Leases exclude each other, the holder is not disturbed, attempts and budget are bounded, confirmed segments are not paid again, one publication, and the job settles |
| `job_order` | 2 workers of which one may hold a job, 2 overlapping jobs of one group, one with 2 segments, 2 attempts, 1 call a day | The refinement of `JobLedger`, with takeovers after partly confirmed work; one summary is shown, and a delayed older job does not displace a newer one |
| `lane_lock` | 3 processes, 2 killed, stalls; fair | The owner file of a live holder stays, the lock is exclusive until a kill or a stall, and a dead lane recovers |
| `lane_stolen` | 3 processes, 1 killed | Violation: two live holders (finding 1) |
| `outbox` | 3 items in 2 queues of one session, 2 processes, 1 broken item, 1 lost answer, 1 kill or stall, 2 credentials | Nothing is lost; the queues of a session stay in order as long as no lane has had two holders, each by itself until flushes overlap or are killed; a mismatch is held until a kill |
| `outbox_stuck` | 1 process, 2 events of one session, 1 kill; fair | Violation: a session stays stopped for good (finding 2) |
| `outbox_reordered` | 2 processes, 3 events of one session, no kill | Violation: an event overtakes an earlier one (finding 3) |
| `delivery` | 2 Codex hosts, OpenClaw and Hermes, with 2 or 3 overlapping calls, 2 tries, 1 change of the world, 1 fault | The refinement of `DeliveryOnce`; a scope is backed by the server, a context is given once and acknowledged only if it was given (but for a kill between the mark and the result), an attempt ends once, and in each protocol no two hosts hold a Resume |
| `task_store` | 4 projects, 3 titles, 2 proposals, 2 bootstraps, 2 events, 2 connections; four scenes | Versions only grow by what was reviewed, a preview of an older generation is refused, an event is in one checkpoint, the name, tasks, events and checkpoints of a deleted project stay as they were, and chains stay resolvable |
| `vector_index` | 3 memories, 2 generations, 2 callers, 1 late request, 1 pause; five scenes | Correction chains do not fork, a document that says `indexed` is found, and a review decides on what was read |
| `vector_lost` | 1 memory that is indexed, 1 caller, 3 calls, limits that change and change back | Violation: a document is published without its points (finding 4) |
| `owner_runs` | 2 server processes, a run of 2 jobs (one of 2 calls) with a budget of 2, 1 intervention and the resumption after a pause; fair | The budget holds across resumptions, the answer to a withdrawn call is not used, and a run settles |

Bounds. Two workers are enough for a takeover, the third process in `LaneLock` is
the one that is killed, leaving two to find its lane; two segments are the least
that can be half paid; two attempts distinguish a retry from exhaustion; one call a
day makes the second segment meet the limit, and a new day lets it pass. `job_order`
needs two jobs of a group, one with a memory of two segments, two attempts and a
concurrency of one, and its constraint `MCFewTurns` (three claims or interruptions in
all, one change of a memory, the project or the schedule) leaves just enough for one
job to be taken over after part of its work was confirmed and both to be published.
A requeue by the operator after partial work is in `job_leases`, and the refinement
for any number of claims in the theorem `Implements`. Three items
in two queues let a predecessor wait in another queue and a successor behind it.
Counters that only bound the state space are named in the modules (`MaxRequeues`,
`MaxCrashes`, `MaxFaults`, `MaxCreds`, `MaxCalls`, `MaxStray`, `MaxPauses`,
`MaxChanges` and others). The largest runs: `outbox` has 6,157,985 distinct states
(about 2 minutes), `job_order` 1,543,379 (2 minutes), `delivery` 517,109 (1 minute).
Deadlock is not checked where the system may stop: when all is settled, sent or
delivered. `delivery` was also checked with two faults, and with
pairs of hosts that its cfg does not combine. In `task_store` chains have depth 1 and
at most 2 members, so that merges of four projects meet both limits. Its scene of
captured events has one process that captures, beside one that reconciles, and as many
events as a window holds; for several capturers there is the theorem `EventOnceAlways`. `vector_index` needs two
generations for a replacement and two layouts for a text whose chunking changed. In
`owner_runs` two jobs are needed: the failure of one blocks the run while the other
still waits for its answer, which is the case `resume()` leaves unfenced; the budget
of two ends before the three calls of the run, and a process that dies, a pause or a
change of settings is the one intervention.

Fairness. Workers poll on a timer and their steps go on while their process lives
(`WF` of `WorkerStep`); leases and backoffs end because the clock moves. In
`LaneLock` every hook and pump tries again and time passes. In `Outbox` a flush that
began goes on, all three queues are flushed again and again (each hook and the pump
go through them), and an operator replaces a refused credential. `outbox_stuck` has
one process, which is what the pump's own lane (`background-outbox-pump`) provides, so
that what stops the session is the kill and not two flushes that pass each other over.
In `owner_runs` a process that is in `tick()` goes on and its timer fires again
(`WF` of `ProcessStep`), and leases and backoffs end; crashes and interventions are
finitely many. A run may wait while its profile is blocked or processing is off, and
`RunSettles` says so.

## 5. Findings

1. `lane_stolen`: two processes that both listed a dead owner; the second removes
   the still empty directory the first has just made, and both hold the lane.
2. `outbox_stuck`: a kill between the unlink of an accepted envelope and the unlink
   of its lane marker. The marker names a file that is gone, every later item of the
   session becomes `blocked_gap`, and nothing removes the marker.
3. `outbox_reordered`: an item passed over because its lane is held does not stop
   its lane. The holder was at an earlier item and releases the lane; the flush then
   takes the item after the one it passed over and sends it first. Two flushes at the
   same time are enough, no process has to be killed.
4. `vector_lost`: the limits of the model change, the next call deletes the points of
   the old layout, and the answer to the deletion is lost; the mapping stays, so that
   the deletion is tried again. The limits change back before that happens. The next
   call finds every chunk of its build mapped, embeds nothing, publishes nothing, and
   marks the document `indexed`. The same root lets a document stay `indexed` whose
   `hide()` was not answered before its project was restored.

A remark without a run: `MismatchHeld` is stated for behaviours without a kill. A
reconciliation sets the sidecar to `pending` before its request; if it is killed
there, the next ordinary flush sends the item, although
`docs/memory-first-v0.1/READ-CORRECTNESS.md` says that a restart does not clear the
block.

## 6. Proofs

All are checked by TLAPS for every value of the constants under the named
assumptions of the modules.

* `MemoryJobsProofs`. `TypeCorrect` is the base. `LeasesExclude` rests on
  `FencesDistinct`: the fence a busy worker remembers is at most the fence of its
  job, and no two busy workers remember the same fence of one job. Lease owners are
  not used, since all workers may write the same. `AttemptsBounded` rests on
  `AttemptsLeft`: a waiting job has an attempt left, counting requeues.
  `PublishedOnce` and `BudgetKept` are inductive with the types.
  `OneShown` is inductive once it is known that only a publication makes a summary
  current. `NewerKept` needs `Planned` besides: a job that has a row
  was planned with sources, so the test for a newer summary, which asks for sources,
  sees every published one. `LeaseUndisturbed` follows from the exclusion of leases:
  apart from its own job, a worker writes only rows whose lease has expired
  (`ElsewhereKept`). `NeverBilledTwice` rests on `Unpaid`: what a worker has selected
  is unconfirmed as long as its fence is the job's, for only the holder of that fence
  confirms anything of the job. `Implements` needs two more invariants (`ConfirmedWork`),
  checked by TLC on the instances first: only planned work is confirmed and no source
  has more segments than it needs (`ConfirmedPlanned`), and what a worker is about to
  merge has all of them (`Mergeable`). A claim is then a grant, since a job that can be
  claimed has no live lease and the new fence is one that nobody remembers
  (`ClaimGrants`); a save or merge by the holder confirms what was unconfirmed
  (`SaveConfirms`); and every other step leaves a job in the same hands or in none
  (`OnlyClaimLeases`, `HoldersThin`).
* `LaneLockProofs`. `OwnerKept` rests on `OnlyDeadReaped`: a process only intends to
  unlink files of killed processes. `QuietLockExclusive` rests on `NobodyReaps`:
  until a kill or stall, the directory exists exactly while one process is between
  its mkdir and its rmdir, and no process is about to remove it.
* `OutboxProofs`. `EnvelopesKept` rests on `RemovesConfirmed`: a process on its way
  to the unlink has seen its item accepted by the server. `OutboxTyped` is its part
  about the shape of the files. For the order, each action is first reduced to its
  effect on the lanes (`Effects`). Across queues (`SessionsInOrder`, first part)
  `MaySend` is needed: who sends an item holds its lane, no marker names another one,
  and all that came before it in other queues has been accepted; a quarantined item is
  covered by `Kept`, its marker stays. All of it holds as long as no lane has had two
  holders (`Unshared`), which is also the condition of the theorem; that this takes a kill
  or a stall is `Intact`, and without the condition TLC refutes the order within the
  bounds of `outbox`.
  Within a queue, `Orderly` says what one flush by
  itself leaves behind: its list is complete and worked off from the front, and an item
  it has left and not sent is `Shut`, by a stopped lane, a marker of an earlier item or
  a predecessor, each of which stops every later item as well. `MismatchesHeld` rests on
  `MismatchRecorded`: an unmatched item in a marker is also in its sidecar, while no
  request for it is under way. TLC checked these invariants on the instance of `outbox`
  and on one of three events. A first form of the order, "until a kill", was refuted
  while its proof was planned: the instance checked until then had two queues, where a
  predecessor hides the overtaking of finding 3.
* `OwnerRunsProofs`. `WithinBudget` relates the calls made for a run with the column
  `used`, which only a reservation writes once the run exists.
  `GrantsKept` does not follow from the fences, since `resume()` leaves
  them alone. Its invariant `Withheld` says that a withdrawn worker waits for an
  answer and its job is not leased, or leased under a later fence; `Tickers` adds that
  a process does not claim while its worker has a job. All steps are shown to satisfy
  `Allowed`, from which the invariant follows (`MovesKeep`).
* `DeliveryTypes` has the types, action by action, and `DeliveryProofs` the rest.
  `OneInFlightAlways` and `Refinement` need the server alone: it looks only at its
  tables, and `TablesKeep` shows that what it admits is what `DeliveryOnce` allows,
  whatever messages arrive and in whatever order. The others rest on the hosts, and
  their invariant `DInv` joins both: a record numbers its attempts, an end is queued
  only of an attempt its record has moved past, a call that acts on an answer finds its
  record still at that attempt, a tool that marks it owns the lock, and an attempt whose
  record says that its context was returned has handed it over, is about to, or is in
  `cut`. `HostMoves` says
  what any step of a host may do to its record, calls, queue and scope; `HostKeeps` shows
  that such a step keeps `DInv`, and one lemma per action that it is one. Assumed:
  the sets of hosts and calls are what the modules say, nothing about their size.
* `TaskStoreProofs`, first part. Projects resolve (`ResolvableAlways`): a merge leads from one canonical
  project to another and is refused where a member of the source would lie too deep.
  `Reach` is a recursive function on `0..MaxDepth`; `Solution` gives its equation, and
  `Least`, the least element of a set of numbers from the library's well-founded
  relation, gives the induction along a chain (the library's own induction theorems
  take an operator, which the provers cannot instantiate). Assumed: finitely many
  projects, since the code counts the members of one.
* `TaskStoreProofs`, second part. The invariant `StoreInv` joins the rows with what each caller
  remembers between two steps of a call. `Ledger` and `AsReviewed` rest on `CallOK` and
  `Based`: who revises a task remembers a version with the content it had, which is the
  task's content as long as that version lasts, and every `UPDATE` names the version.
  `FreshAuthority` rests on the order of observation: a row carries the generation
  that was current before its content was read, so a row that is still good was read
  under the present one. `EventOnce` needs that the checkpoints of a task are numbered without a
  gap and lie one after another (`CaptureInv`): a window that was read before another
  checkpoint was inserted claims a version that is taken. `Lawful` is what is shown
  of each step: the invariant after it, and both action properties. `StoreInv` was
  checked by TLC on the instance of `task_store` before it was proved.
* `VectorProofs`. The memories first (`RecordsInv`): they are made in order and by what
  is then used up (`InOrderMade`, `OriginsUsed`), and a page shows two memories that
  were active at the versions it was made with (`PagesRead`). A version that is still
  current therefore stands for the text and the status the reviewer saw, which is
  `DecidedAsSeen`. For the index (`IndexInv`), `FencesApart` says that no two calls, and
  no call and no request without one, have the same fence of a generation. A call that
  passes `owns()` is therefore the only one that writes its documents, and is where its
  document says (`Underway`): what it has mapped belongs to its build, and when it
  publishes nothing of the build is missing. `Located` says that a mapped point is in
  the collection or counted as lost, and `LateUpserts` that an upsert whose sender ended
  and whose fence is still the last one belongs to a document that is not indexed.
  Together these keep every `indexed` document complete (`QuietComplete`, of which
  `IndexedKept` is a part). `Arrival` states once what a request does to the collection,
  `LocalKeeps` and `RequestKeeps` what suffices for a step between two requests and for
  one at an answer, and one lemma per action shows that it suffices. The theorems are
  about `Spec`, which starts from an empty database; the run starts from later states
  besides, which satisfy the same invariant. TLC checked all parts of the invariant on
  the instance of `vector_index`.

The proofs changed the models in few places. `TaskCanon` assumes that a version 1
exists (`MaxVersion` at least 1, which a bootstrap writes), `ProjectTree` that the
projects are finitely many, and `VectorIndex` that the marks "no generation" and
"nobody" name no generation and no call. In `VectorIndex` the exception of
`QuietIndexed` became `lost`: the invariant that its first, coarser form needed is not
kept, and the step that breaks it is finding 4.

Only model-checked: the liveness properties (`JobsSettle`, `DeadLaneRecovers`,
`RunSettles`), which are out of the prover's reach. What the violation runs refute has
no theorem.

## 7. Not modelled

* The OAuth service (`services/oauth/src/`) and the staged configuration
  (`server/lib/config/`, `server/lib/tunnel/`): planned, see the end of section 2.
* Model providers: request formats and what a provider answers. A model call is the
  step from `ready` to an answer or an error; the usage records and the owner's daily
  and monthly quotas (`console/quotas.mjs`) are left out.
* Retrieval, ranking and evaluation (`memory-retrieval.mjs`, `memory-evaluation/`), the
  read models and pages of the console: they change no state that another part reads.
* The HTTP front end and the ChatGPT adapter: they forward and keep nothing.
* Of the store: credentials, the audit log, the retention of events, and the resolution
  of a query to a task.
* The offline harnesses of `server/bin` and `scripts`, which hold no protocol of their
  own.
* The OpenClaw adapter packages `sync-protocol.mjs` verbatim; the Hermes port of the
  outbox in Python is not compared with it. The resume deliveries of both are modelled
  (`OpenClawHost`, `HermesHost`).
