--------------------------- MODULE OwnerRunsProofs ---------------------------
(***************************************************************************)
(* Proofs about OwnerRuns, for every number of processes, runs and jobs,   *)
(* every limit and every number of interventions: the budget of a run      *)
(* holds, and the answer to a call that was sent before the owner          *)
(* intervened is not used.                                                 *)
(*                                                                         *)
(* The budget: the invariant relates the calls that were made for a run    *)
(* with `used`, the column that reserve() counts in and that no other      *)
(* statement writes once the run exists.                                   *)
(*                                                                         *)
(* The answers: resume() hands a job out again with the fence it had. What *)
(* protects the job is its state: after a pause, a cancellation or a       *)
(* resumption no job of the run is leased, and every later claim advances  *)
(* the fence.                                                              *)
(***************************************************************************)
EXTENDS OwnerRuns, MemoryJobsProofs

-----------------------------------------------------------------------------
(* What a run may spend *)

RunState == {"none", "preview", "queued", "running", "paused", "blocked",
             "completed", "cancelled", "dropped"}
RunRow == [state : RunState, used : Nat, policy : Nat, model : Nat,
           lifecycle : Nat, expired : BOOLEAN]

TableOK ==
  /\ run \in [Runs -> RunRow]
  /\ settings \in [revision : Nat, processing : BOOLEAN, model : Nat]
  /\ model \in Nat /\ lifecycle \in Nat
  /\ sent \in [Runs -> Nat]
Counted ==
  \A r \in Runs : /\ sent[r] <= run[r].used /\ run[r].used <= CallLimit
                  /\ run[r].state = "none" => sent[r] = 0
Budgeted == TableOK /\ Counted

\* A step that writes neither `used` nor calls, and makes no run unwritten.
Uncounted ==
  /\ run' \in [Runs -> RunRow]
  /\ \A r \in Runs : /\ run'[r].used = run[r].used
                     /\ run'[r].state = "none" => run[r].state = "none"
  /\ UNCHANGED sent
Bases ==
  /\ settings' \in [revision : Nat, processing : BOOLEAN, model : Nat]
  /\ model' \in Nat /\ lifecycle' \in Nat

LEMMA UncountedKeeps ==
  ASSUME Budgeted, Uncounted, Bases
  PROVE  Budgeted'
BY DEF Budgeted, TableOK, Counted, Uncounted, Bases

\* Most steps write the state of at most one run.
LEMMA StateWrite ==
  ASSUME Budgeted, NEW r, NEW st \in RunState \ {"none"}, UNCHANGED sent,
         SetRun(r, st) \/ UNCHANGED run
  PROVE  Uncounted
<1>1. run \in [Runs -> RunRow]
  BY DEF Budgeted, TableOK
<1>2. CASE UNCHANGED run
  BY <1>1, <1>2 DEF Uncounted
<1>3. CASE SetRun(r, st)
  BY <1>1, <1>3 DEF SetRun, Uncounted, RunRow
<1> QED BY <1>2, <1>3

\* A run that is created has made no call.
LEMMA CreatedKeeps ==
  ASSUME Budgeted, NEW r \in Runs, NEW st \in RunState, run[r].state = "none",
         st # "none",
         run' = [run EXCEPT ![r] =
           [NewRun EXCEPT !.state = st, !.policy = settings.revision,
                          !.model = model, !.lifecycle = lifecycle]],
         UNCHANGED <<bases, sent>>
  PROVE  Budgeted'
<1> DEFINE row == [NewRun EXCEPT !.state = st, !.policy = settings.revision,
                                 !.model = model, !.lifecycle = lifecycle]
<1>1. row \in RunRow /\ row.used = 0 /\ row.state = st
  BY DEF Budgeted, TableOK, RunRow, NewRun, RunState
<1>2. run' = [run EXCEPT ![r] = row]
  OBVIOUS
<1> HIDE DEF row
<1>3. TableOK'
  BY <1>1, <1>2 DEF Budgeted, TableOK, bases
<1>4. Counted'
  <2>1. sent' = sent /\ sent[r] = 0 /\ CallLimit \in Nat
    BY BoundsAssumption DEF Budgeted, Counted
  <2>2. \A q \in Runs : run'[q] = IF q = r THEN row ELSE run[q]
    BY <1>2 DEF Budgeted, TableOK
  <2>3. \A q \in Runs : sent[q] <= run[q].used /\ run[q].used <= CallLimit
                        /\ (run[q].state = "none" => sent[q] = 0)
    BY DEF Budgeted, Counted
  <2> SUFFICES ASSUME NEW q \in Runs
               PROVE  /\ sent'[q] <= run'[q].used /\ run'[q].used <= CallLimit
                      /\ run'[q].state = "none" => sent'[q] = 0
    BY DEF Counted
  <2>4. CASE q = r
    <3>1. run'[q].used = 0 /\ run'[q].state # "none"
      BY <1>1, <2>2, <2>4
    <3>2. sent'[q] = 0
      BY <2>1, <2>4
    <3> QED BY <2>1, <3>1, <3>2
  <2>5. CASE q # r
    BY <2>1, <2>2, <2>3, <2>5
  <2> QED BY <2>4, <2>5
<1> QED BY <1>3, <1>4 DEF Budgeted

\* reserve() counts a call only while the budget of its run is not used up.
LEMMA ReserveKeeps ==
  ASSUME Budgeted, NEW w \in Workers, RunReserve(w)
  PROVE  Budgeted'
<1> DEFINE r == RunOf[worker[w].job]
<1>1. UNCHANGED bases
  BY DEF RunReserve, Continues
<1>2. CASE UNCHANGED <<run, sent>>
  BY <1>1, <1>2 DEF Budgeted, TableOK, Counted, bases
<1>3. CASE ~UNCHANGED <<run, sent>>
  <2>1. /\ CallsLeft(r) /\ MayGoOn(w)
        /\ run' = [run EXCEPT ![r].used = @ + 1]
        /\ sent' = [sent EXCEPT ![r] = @ + 1]
    BY <1>3 DEF RunReserve
  <2>2. run[r].used < CallLimit /\ run[r].state \in Open
    BY <2>1 DEF CallsLeft, MayGoOn, Granted
  <2> HIDE DEF r
  <2>3. run' \in [Runs -> RunRow] /\ sent' \in [Runs -> Nat]
    <3>1. run \in [Runs -> RunRow] /\ sent \in [Runs -> Nat]
      BY DEF Budgeted, TableOK
    <3>2. r \in Runs => [run[r] EXCEPT !.used = @ + 1] \in RunRow
      BY <3>1 DEF RunRow
    <3>3. run' \in [Runs -> RunRow]
      BY <2>1, <3>1, <3>2
    <3> QED BY <2>1, <3>1, <3>3
  <2>4. \A q \in Runs : /\ run'[q].state = run[q].state
                        /\ run'[q].used = IF q = r THEN run[q].used + 1 ELSE run[q].used
                        /\ sent'[q] = IF q = r THEN sent[q] + 1 ELSE sent[q]
    BY <2>1 DEF Budgeted, TableOK, RunRow
  <2>5. Counted'
    <3> SUFFICES ASSUME NEW q \in Runs
                 PROVE  /\ sent'[q] <= run'[q].used /\ run'[q].used <= CallLimit
                        /\ run'[q].state = "none" => sent'[q] = 0
      BY DEF Counted
    <3>1. /\ sent[q] \in Nat /\ run[q].used \in Nat /\ CallLimit \in Nat
          /\ sent[q] <= run[q].used /\ run[q].used <= CallLimit
          /\ run[q].state = "none" => sent[q] = 0
      BY BoundsAssumption DEF Budgeted, TableOK, Counted, RunRow
    <3> QED BY <2>2, <2>4, <3>1 DEF Open
  <2> QED BY <1>1, <2>3, <2>5 DEF Budgeted, TableOK, bases
<1> QED BY <1>2, <1>3

\* What the owner does
LEMMA OwnerKeeps ==
  ASSUME Budgeted, OwnerStep
  PROVE  Budgeted'
<1>0. run \in [Runs -> RunRow] /\ (UNCHANGED bases => Bases)
  BY DEF Budgeted, TableOK, Bases, bases
<1>1. ASSUME NEW r \in Runs, Preview(r) PROVE Budgeted'
  BY <1>1, CreatedKeeps DEF Preview, RunState
<1>2. ASSUME NEW r \in Runs, Scheduled(r) PROVE Budgeted'
  BY <1>2, CreatedKeeps DEF Scheduled, RunState
<1>3. ASSUME NEW r \in Runs, PreviewExpires(r) PROVE Budgeted'
  <2>1. Uncounted
    BY <1>0, <1>3 DEF PreviewExpires, Uncounted, RunRow
  <2> QED BY <1>0, <1>3, <2>1, UncountedKeeps DEF PreviewExpires
<1>4. ASSUME NEW r \in Runs, Start(r) \/ Remove(r) PROVE Budgeted'
  <2>1. UNCHANGED <<bases, sent>> /\ (SetRun(r, "queued") \/ SetRun(r, "dropped"))
    BY <1>4 DEF Start, Remove
  <2> QED BY <1>0, <2>1, StateWrite, UncountedKeeps DEF RunState
<1>5. ASSUME NEW r \in Runs, NEW st \in {"paused", "cancelled"}, Change(r, st)
      PROVE  Budgeted'
  <2>1. UNCHANGED <<bases, sent>> /\ SetRun(r, st)
    BY <1>5 DEF Change
  <2> QED BY <1>0, <2>1, StateWrite, UncountedKeeps DEF RunState
<1>6. ASSUME NEW r \in Runs, Resume(r) PROVE Budgeted'
  <2>1. run' = [run EXCEPT ![r] = ResumedRun(r)] /\ UNCHANGED <<bases, sent>>
    BY <1>6 DEF Resume
  <2>2. /\ ResumedRun(r) \in RunRow /\ ResumedRun(r).used = run[r].used
        /\ ResumedRun(r).state = "queued"
    BY <1>0 DEF ResumedRun, RunRow, RunState, Budgeted, TableOK
  <2>3. Uncounted
    BY <1>0, <2>1, <2>2 DEF Uncounted
  <2> QED BY <1>0, <2>1, <2>3, UncountedKeeps
<1>7. ASSUME NEW on \in BOOLEAN, SaveSettings(on) PROVE Budgeted'
  <2>1. Bases
    BY <1>7 DEF SaveSettings, Budgeted, TableOK, Bases
  <2>2. Uncounted
    BY <1>0, <1>7 DEF SaveSettings, Uncounted, RunRow, RunState
  <2> QED BY <2>1, <2>2, UncountedKeeps
<1>8. CASE ChangeModel \/ ChangeLifecycle
  <2>1. Bases
    BY <1>8 DEF ChangeModel, ChangeLifecycle, Budgeted, TableOK, Bases
  <2>2. Uncounted
    BY <1>0, <1>8 DEF ChangeModel, ChangeLifecycle, Uncounted
  <2> QED BY <2>1, <2>2, UncountedKeeps
<1> QED BY <1>1, <1>2, <1>3, <1>4, <1>5, <1>6, <1>7, <1>8 DEF OwnerStep

\* What a server process does in tick() and in the worker it starts
LEMMA ProcessKeeps ==
  ASSUME Budgeted, NEW w \in Workers, ProcessStep(w)
  PROVE  Budgeted'
<1>0. UNCHANGED bases => Bases
  BY DEF Budgeted, TableOK, Bases, bases
<1>1. CASE Tick(w)
  <2>1. UNCHANGED <<bases, sent>> /\ \E r \in Runs : SetRun(r, "blocked") \/ UNCHANGED run
    BY <1>1 DEF Tick
  <2> QED BY <1>0, <2>1, StateWrite, UncountedKeeps DEF RunState
<1>2. CASE Begin(w)
  <2>1. /\ UNCHANGED <<bases, sent>>
        /\ SetRun(ticker[w].run, "running") \/ UNCHANGED run
    BY <1>2 DEF Begin
  <2> QED BY <1>0, <2>1, StateWrite, UncountedKeeps DEF RunState
<1>3. CASE RunClaim(w)
  <2>1. /\ UNCHANGED <<bases, sent>>
        /\ SetRun(ticker[w].run, "blocked") \/ UNCHANGED run
    BY <1>3 DEF RunClaim, Blocks, SetRun
  <2> QED BY <1>0, <2>1, StateWrite, UncountedKeeps DEF RunState
<1>4. CASE Settle(w)
  <2>1. /\ UNCHANGED <<bases, sent>>
        /\ \/ \E st \in {"completed", "blocked", "running"} : SetRun(ticker[w].run, st)
           \/ UNCHANGED run
    BY <1>4 DEF Settle, SetRun
  <2> QED BY <1>0, <2>1, StateWrite, UncountedKeeps DEF RunState
<1>5. CASE RunReserve(w)
  BY <1>5, ReserveKeeps
<1>6. CASE RunSave(w) \/ RunMerge(w) \/ RunPublish(w) \/ RunOther(w)
  BY <1>6 DEF RunSave, RunMerge, RunPublish, RunOther, Continues, bases,
              Budgeted, TableOK, Counted
<1> QED BY <1>1, <1>2, <1>3, <1>4, <1>5, <1>6 DEF ProcessStep

\* However often a run is paused, resumed, blocked or taken over by another
\* process, no more calls are made for it than its budget (reserve()).
THEOREM WithinBudget == RunsSpec => []RunBudget
<1>1. InitRuns => Budgeted
  BY BoundsAssumption
     DEF InitRuns, Budgeted, TableOK, Counted, RunRow, RunState, NewRun
<1>2. Budgeted /\ [RunsNext]_<<queue, owned>> => Budgeted'
  <2> SUFFICES ASSUME Budgeted, [RunsNext]_<<queue, owned>> PROVE Budgeted'
    OBVIOUS
  <2>1. CASE OwnerStep
    BY <2>1, OwnerKeeps
  <2>2. ASSUME NEW w \in Workers, ProcessStep(w) PROVE Budgeted'
    BY <2>2, ProcessKeeps
  <2>3. CASE \/ \E w \in Workers : ProcessDies(w)
             \/ Elsewhere
             \/ \E j \in Jobs : TimePasses(j)
             \/ UNCHANGED <<queue, owned>>
    BY <2>3 DEF ProcessDies, Elsewhere, TimePasses, owned, bases,
                Budgeted, TableOK, Counted
  <2> QED BY <2>1, <2>2, <2>3 DEF RunsNext
<1>3. Budgeted => RunBudget
  <2> SUFFICES ASSUME Budgeted, NEW r \in Runs PROVE sent[r] <= CallLimit
    BY DEF RunBudget
  <2>1. sent[r] \in Nat /\ run[r].used \in Nat /\ CallLimit \in Nat
    BY BoundsAssumption DEF Budgeted, TableOK, RunRow
  <2>2. sent[r] <= run[r].used /\ run[r].used <= CallLimit
    BY DEF Budgeted, Counted
  <2> QED BY <2>1, <2>2
<1> QED BY <1>1, <1>2, <1>3, PTL DEF RunsSpec

-----------------------------------------------------------------------------
(* Which answers are used *)

Sent == {"sent", "resent"}
TickerRow == [pc : {"off", "begin", "claim", "drained"}, run : Runs \cup {0}]

\* A process works on a job only between its claim and its settlement.
Tickers ==
  /\ ticker \in [Workers -> TickerRow]
  /\ \A w \in Workers : worker[w].pc # "idle" => ticker[w].pc = "drained"
\* No worker remembers a fence its job does not have yet.
FencesKnown ==
  \A w \in Workers : worker[w].pc # "idle" =>
                       worker[w].fence <= job[worker[w].job].fence
\* The lease of a withdrawn worker is gone.
Lapsed(w) ==
  /\ worker[w].pc \in Sent
  /\ job[worker[w].job].state = "leased" =>
       worker[w].fence < job[worker[w].job].fence
Withheld == withdrawn \subseteq Workers /\ \A w \in withdrawn : Lapsed(w)

GrantInv == TypeOK /\ Tickers /\ FencesKnown /\ Withheld

-----------------------------------------------------------------------------
(* What one step may do *)

\* A fence never goes back, and a lease that was not there has a new one.
RowMoves(j) ==
  /\ job'[j].fence >= job[j].fence
  /\ job'[j].state = "leased" =>
       \/ job'[j].fence > job[j].fence
       \/ job[j].state = "leased" /\ job'[j].fence = job[j].fence
\* A worker remembers its job and its fence until it is idle.
WorkerMoves(w) ==
  \/ worker'[w].pc = "idle"
  \/ /\ worker[w].pc # "idle"
     /\ worker'[w].job = worker[w].job /\ worker'[w].fence = worker[w].fence
  \/ /\ worker[w].pc = "idle"
     /\ worker'[w].job \in Jobs /\ worker'[w].fence = job'[worker'[w].job].fence
\* Who is withdrawn waits for an answer, and was withdrawn before or has just
\* lost its lease.
Withdraws ==
  \A w \in withdrawn' :
    /\ w \in Workers /\ worker'[w] = worker[w]
    /\ \/ w \in withdrawn
       \/ worker[w].pc \in Sent /\ job'[worker[w].job].state # "leased"
\* GrantedResults of one step
NotUsed ==
  \A w \in withdrawn : worker'[w] # worker[w] => worker'[w].pc \in {"fail", "idle"}

Allowed ==
  /\ TypeOK' /\ Tickers'
  /\ \A j \in Jobs : RowMoves(j)
  /\ \A w \in Workers : WorkerMoves(w)
  /\ Withdraws /\ NotUsed

LEMMA MovesKeep ==
  ASSUME GrantInv, Allowed
  PROVE  GrantInv'
<1>0. /\ \A w \in Workers : worker[w] \in WorkerRow /\ worker'[w] \in WorkerRow
      /\ \A w \in Workers : worker[w].fence \in Nat /\ worker'[w].fence \in Nat
      /\ \A j \in Jobs : job[j].fence \in Nat /\ job'[j].fence \in Nat
      /\ \A w \in Workers : worker[w].pc # "idle" => worker[w].job \in Jobs
      /\ \A w \in Workers : worker'[w].pc # "idle" => worker'[w].job \in Jobs
  BY DEF GrantInv, Allowed, TypeOK, WorkerRow, JobRow
<1>1. FencesKnown'
  <2> SUFFICES ASSUME NEW w \in Workers, worker'[w].pc # "idle"
               PROVE  worker'[w].fence <= job'[worker'[w].job].fence
    BY DEF FencesKnown
  <2>1. WorkerMoves(w) /\ \A j \in Jobs : job'[j].fence >= job[j].fence
    BY DEF Allowed, RowMoves
  <2>2. CASE /\ worker[w].pc # "idle"
             /\ worker'[w].job = worker[w].job /\ worker'[w].fence = worker[w].fence
    <3>1. worker[w].job \in Jobs /\ worker[w].fence <= job[worker[w].job].fence
      BY <1>0, <2>2 DEF GrantInv, FencesKnown
    <3> QED BY <1>0, <2>1, <2>2, <3>1
  <2>3. CASE worker'[w].fence = job'[worker'[w].job].fence
    BY <1>0, <2>3
  <2> QED BY <2>1, <2>2, <2>3 DEF WorkerMoves
<1>2. Withheld'
  <2> SUFFICES ASSUME NEW w \in withdrawn' PROVE w \in Workers /\ Lapsed(w)'
    BY DEF Withheld
  <2>1. /\ w \in Workers /\ worker'[w] = worker[w]
        /\ \/ w \in withdrawn
           \/ worker[w].pc \in Sent /\ job'[worker[w].job].state # "leased"
    BY DEF Allowed, Withdraws
  <2>2. CASE w \in withdrawn
    <3>1. Lapsed(w) /\ worker[w].job \in Jobs
      BY <1>0, <2>1, <2>2 DEF GrantInv, Withheld, Lapsed, Sent
    <3>2. RowMoves(worker[w].job) /\ worker[w].fence <= job[worker[w].job].fence
      BY <2>1, <3>1 DEF Allowed, GrantInv, FencesKnown, Lapsed, Sent
    <3> QED BY <1>0, <2>1, <3>1, <3>2 DEF Lapsed, RowMoves
  <2>3. CASE worker[w].pc \in Sent /\ job'[worker[w].job].state # "leased"
    BY <2>1, <2>3 DEF Lapsed
  <2> QED BY <2>1, <2>2, <2>3
<1> QED BY <1>1, <1>2 DEF GrantInv, Allowed

\* A step that leaves the workers and their processes alone.
LEMMA Outside ==
  ASSUME GrantInv, TypeOK', \A j \in Jobs : RowMoves(j), UNCHANGED <<worker, ticker>>,
         Withdraws
  PROVE  Allowed
<1>1. \A w \in Workers : WorkerMoves(w)
  BY DEF GrantInv, TypeOK, WorkerRow, WorkerMoves
<1> QED BY <1>1 DEF Allowed, GrantInv, Tickers, NotUsed

-----------------------------------------------------------------------------
(* Writes to rows *)

\* Nothing but a claim makes a lease.
LEMMA RowWrites ==
  ASSUME TypeOK, NEW j \in Jobs,
         \/ job'[j] = job[j]
         \/ \E st \in JobState \ {"leased"} : job'[j] = Fenced(job[j], st)
         \/ job'[j] = Requeued(job[j])
         \/ job'[j] = [job[j] EXCEPT !.state = "pending", !.runAfter = "past"]
         \/ job'[j] = [job[j] EXCEPT !.expires = "past"]
         \/ job'[j] = [job[j] EXCEPT !.runAfter = "past"]
  PROVE  RowMoves(j)
<1>1. job[j] \in JobRow /\ job[j].fence \in Nat
  BY DEF TypeOK, JobRow
<1>2. CASE job'[j] = job[j]
  BY <1>1, <1>2 DEF RowMoves
<1>3. ASSUME NEW st \in JobState \ {"leased"}, job'[j] = Fenced(job[j], st)
      PROVE  RowMoves(j)
  BY <1>1, <1>3, RowFields DEF RowMoves
<1>4. CASE job'[j] = Requeued(job[j])
  <2>1. "pending" \in JobState
    BY DEF JobState, Waiting
  <2> QED BY <1>1, <1>4, <2>1, RowFields DEF RowMoves
<1>5. CASE \/ job'[j] = [job[j] EXCEPT !.state = "pending", !.runAfter = "past"]
           \/ job'[j] = [job[j] EXCEPT !.expires = "past"]
           \/ job'[j] = [job[j] EXCEPT !.runAfter = "past"]
  <2>1. /\ [job[j] EXCEPT !.state = "pending", !.runAfter = "past"].fence = job[j].fence
        /\ [job[j] EXCEPT !.state = "pending", !.runAfter = "past"].state = "pending"
        /\ [job[j] EXCEPT !.expires = "past"].fence = job[j].fence
        /\ [job[j] EXCEPT !.expires = "past"].state = job[j].state
        /\ [job[j] EXCEPT !.runAfter = "past"].fence = job[j].fence
        /\ [job[j] EXCEPT !.runAfter = "past"].state = job[j].state
    BY <1>1 DEF JobRow
  <2>2. /\ job'[j].fence = job[j].fence
        /\ job'[j].state = "leased" => job[j].state = "leased"
    BY <1>5, <2>1
  <2> QED BY <1>1, <2>2 DEF RowMoves
<1> QED BY <1>2, <1>3, <1>4, <1>5

\* A pause, a cancellation and a resumption leave no job of the run leased.
LEMMA NoneLeased ==
  ASSUME TypeOK, NEW S \in SUBSET Runs,
         \/ job' = FenceAll(UNION {Unfinished(r) : r \in S}, "blocked_config")
         \/ \E r \in Runs : S = {r} /\ job' = ResumedJobs(r)
  PROVE  \A r \in S : \A j \in JobsOf(r) : job'[j].state # "leased"
<1> SUFFICES ASSUME NEW r \in S, NEW j \in JobsOf(r) PROVE job'[j].state # "leased"
  OBVIOUS
<1>1. j \in Jobs /\ job[j] \in JobRow
  BY DEF JobsOf, TypeOK
<1>2. j \notin Unfinished(r) => job[j].state # "leased"
  BY DEF Unfinished
<1>3. CASE job' = FenceAll(UNION {Unfinished(q) : q \in S}, "blocked_config")
  <2>1. j \in Unfinished(r) => job'[j] = Fenced(job[j], "blocked_config")
    BY <1>1, <1>3, AllFields
  <2>2. j \notin Unfinished(r) =>
          job'[j] = job[j] \/ job'[j] = Fenced(job[j], "blocked_config")
    BY <1>1, <1>3, AllFields
  <2>3. Fenced(job[j], "blocked_config").state = "blocked_config"
    BY <1>1, RowFields DEF JobState, Settled, Blocked
  <2> QED BY <1>2, <2>1, <2>2, <2>3
<1>4. CASE \E q \in Runs : S = {q} /\ job' = ResumedJobs(q)
  <2>1. job' = ResumedJobs(r)
    BY <1>4
  <2>2. job'[j] = IF j \in Unfinished(r)
                  THEN [job[j] EXCEPT !.state = "pending", !.runAfter = "past"]
                  ELSE job[j]
    BY <1>1, <2>1 DEF ResumedJobs
  <2>3. [job[j] EXCEPT !.state = "pending", !.runAfter = "past"].state = "pending"
    BY <1>1 DEF JobRow
  <2> QED BY <1>2, <2>2, <2>3
<1> QED BY <1>3, <1>4

\* The workers of these runs are then withdrawn.
LEMMA WithdrawsCalling ==
  ASSUME GrantInv, NEW S \in SUBSET Runs, UNCHANGED worker,
         withdrawn' = withdrawn \cup UNION {Calling(r) : r \in S},
         \A r \in S : \A j \in JobsOf(r) : job'[j].state # "leased"
  PROVE  Withdraws
<1> SUFFICES ASSUME NEW w \in withdrawn', w \notin withdrawn
             PROVE  /\ w \in Workers /\ worker[w].pc \in Sent
                    /\ job'[worker[w].job].state # "leased"
  BY DEF Withdraws, GrantInv, Withheld
<1>1. PICK r \in S : w \in Calling(r)
  OBVIOUS
<1>2. w \in Workers /\ worker[w].pc \in Sent /\ RunOf[worker[w].job] = r
  BY <1>1 DEF Calling, Sent
<1>3. worker[w].job \in JobsOf(r)
  BY <1>2 DEF GrantInv, TypeOK, JobsOf, Sent
<1> QED BY <1>2, <1>3

-----------------------------------------------------------------------------
(* The owner, operators and time *)

\* What the owner does keeps the tables and takes leases away.
LEMMA OwnerAllowed ==
  ASSUME GrantInv, OwnerStep
  PROVE  Allowed
<1> USE DEF rows, items, world, bases
<1>0. TypeOK /\ Withheld
  BY DEF GrantInv
<1>1. ASSUME UNCHANGED withdrawn, UNCHANGED worker PROVE Withdraws
  BY <1>0, <1>1 DEF Withdraws, Withheld
<1>2. ASSUME NEW r \in Runs, Preview(r) \/ PreviewExpires(r) \/ Remove(r)
      PROVE  Allowed
  <2>1. UNCHANGED <<queue, ticker, withdrawn>>
    BY <1>2 DEF Preview, PreviewExpires, Remove
  <2>2. TypeOK' /\ \A j \in Jobs : job'[j] = job[j]
    BY <1>0, <2>1 DEF queue, TypeOK
  <2> QED BY <1>0, <1>1, <2>1, <2>2, RowWrites, Outside DEF queue
<1>3. ASSUME NEW r \in Runs, Start(r) \/ Scheduled(r) PROVE Allowed
  <2>1. /\ job' = Enqueued(r) /\ UNCHANGED <<worker, ticker, withdrawn>>
        /\ UNCHANGED <<rescheduled, items, profileReady, reserved, world, summary, requeues>>
    BY <1>3 DEF Start, Scheduled
  <2>2. \A j \in Jobs :
          \/ job'[j] = job[j]
          \/ job'[j] = [job[j] EXCEPT !.state = "pending", !.runAfter = "past"]
    BY <2>1 DEF Enqueued
  <2>3. job' \in [Jobs -> JobRow]
    <3>1. \A j \in Jobs : [job[j] EXCEPT !.state = "pending", !.runAfter = "past"] \in JobRow
      BY <1>0, RowTypes DEF TypeOK, JobState
    <3> QED BY <1>0, <2>1, <3>1 DEF Enqueued, TypeOK
  <2>4. TypeOK'
    BY <1>0, <2>1, <2>3 DEF TypeOK
  <2> QED BY <1>0, <1>1, <2>1, <2>2, <2>4, RowWrites, Outside
\* A write that fences jobs off, and withdraws their workers
<1>4. ASSUME NEW S \in SUBSET Runs, UNCHANGED <<worker, ticker>>,
             job' = FenceAll(UNION {Unfinished(r) : r \in S}, "blocked_config"),
             withdrawn' = withdrawn \cup UNION {Calling(r) : r \in S},
             UNCHANGED <<rescheduled, items, profileReady, reserved, world, summary, requeues>>
      PROVE  Allowed
  <2> DEFINE all == UNION {Unfinished(r) : r \in S}
  <2>1. all \in SUBSET Jobs /\ "blocked_config" \in JobState \ {"leased"}
    BY DEF Unfinished, JobsOf, JobState, Settled, Blocked
  <2>2. TypeOK'
    BY <1>0, <1>4, <2>1, TableTypes DEF TypeOK
  <2>3. \A j \in Jobs : job'[j] = job[j] \/ job'[j] = Fenced(job[j], "blocked_config")
    BY <1>4, AllFields
  <2>4. \A j \in Jobs : RowMoves(j)
    BY <1>0, <2>1, <2>3, RowWrites
  <2>5. Withdraws
    BY <1>0, <1>4, NoneLeased, WithdrawsCalling
  <2> QED BY <1>4, <2>2, <2>4, <2>5, Outside
<1>5. ASSUME NEW r \in Runs, NEW st, Change(r, st) PROVE Allowed
  <2>1. /\ UNION {Unfinished(q) : q \in {r}} = Unfinished(r)
        /\ UNION {Calling(q) : q \in {r}} = Calling(r)
    OBVIOUS
  <2>2. /\ {r} \in SUBSET Runs /\ UNCHANGED <<worker, ticker>>
        /\ UNCHANGED <<rescheduled, items, profileReady, reserved, world, summary, requeues>>
        /\ job' = FenceAll(UNION {Unfinished(q) : q \in {r}}, "blocked_config")
        /\ withdrawn' = withdrawn \cup UNION {Calling(q) : q \in {r}}
    BY <1>5, <2>1 DEF Change
  <2> QED BY <1>4, <2>2
<1>6. ASSUME NEW on, SaveSettings(on) PROVE Allowed
  BY <1>4, <1>6 DEF SaveSettings
<1>7. ASSUME NEW r \in Runs, Resume(r) PROVE Allowed
  <2>1. /\ job' = ResumedJobs(r) /\ UNCHANGED <<worker, ticker>>
        /\ withdrawn' = withdrawn \cup Calling(r)
        /\ profileReady' = TRUE /\ requeues' = requeues + 1
        /\ UNCHANGED <<rescheduled, items, reserved, world, summary>>
    BY <1>7 DEF Resume
  <2>2. \A j \in Jobs :
          \/ job'[j] = job[j]
          \/ job'[j] = [job[j] EXCEPT !.state = "pending", !.runAfter = "past"]
    BY <2>1 DEF ResumedJobs
  <2>3. job' \in [Jobs -> JobRow]
    <3>1. \A j \in Jobs : [job[j] EXCEPT !.state = "pending", !.runAfter = "past"] \in JobRow
      BY <1>0, RowTypes DEF TypeOK, JobState
    <3> QED BY <1>0, <2>1, <3>1 DEF ResumedJobs, TypeOK
  <2>4. TypeOK'
    BY <1>0, <2>1, <2>3 DEF TypeOK
  <2>5. Withdraws
    <3>1. UNION {Calling(q) : q \in {r}} = Calling(r)
      OBVIOUS
    <3>2. \A q \in {r} : \A j \in JobsOf(q) : job'[j].state # "leased"
      BY <1>0, <2>1, NoneLeased
    <3>3. /\ {r} \in SUBSET Runs /\ UNCHANGED worker
          /\ withdrawn' = withdrawn \cup UNION {Calling(q) : q \in {r}}
      BY <2>1, <3>1
    <3> QED BY <3>2, <3>3, WithdrawsCalling
  <2>6. \A j \in Jobs : RowMoves(j)
    BY <1>0, <2>2, RowWrites
  <2> QED BY <2>1, <2>4, <2>5, <2>6, Outside
<1>8. CASE ChangeModel \/ ChangeLifecycle
  <2>1. SaveModel \/ DeleteProject \/ RestoreProject
    BY <1>8 DEF ChangeModel, ChangeLifecycle
  <2>2. UNCHANGED <<worker, ticker, withdrawn>>
    BY <1>8 DEF ChangeModel, ChangeLifecycle, SaveModel, DeleteProject, RestoreProject
  <2>3. TypeOK'
    BY <1>0, <2>1, TypeStep DEF Next, Operator, World
  <2>4. \A j \in Jobs : \/ job'[j] = job[j]
                       \/ job'[j] = Fenced(job[j], "blocked_config")
                       \/ job'[j] = Requeued(job[j])
    BY <2>1, AllFields DEF SaveModel, DeleteProject, RestoreProject
  <2>5. "blocked_config" \in JobState \ {"leased"}
    BY DEF JobState, Settled, Blocked
  <2>6. \A j \in Jobs : RowMoves(j)
    BY <1>0, <2>4, <2>5, RowWrites
  <2> QED BY <1>1, <2>2, <2>3, <2>6, Outside
<1> QED BY <1>2, <1>3, <1>5, <1>6, <1>7, <1>8 DEF OwnerStep

\* What others do to jobs and sources, and time
LEMMA ElsewhereAllowed ==
  ASSUME GrantInv, Elsewhere \/ \E j \in Jobs : TimePasses(j)
  PROVE  Allowed
<1> USE DEF rows, items, world
<1>0. TypeOK /\ Withheld
  BY DEF GrantInv
<1>1. \/ ResumeProfile
      \/ \E j \in Jobs : Cancel(j) \/ LeaseExpires(j) \/ BecomesDue(j)
      \/ \E s \in Sources : Revise(s)
  BY DEF Elsewhere, TimePasses
<1>2. UNCHANGED <<worker, ticker, withdrawn>>
  BY <1>1 DEF Elsewhere, TimePasses, owned, ResumeProfile, Cancel, LeaseExpires,
              BecomesDue, Revise
<1>3. TypeOK'
  BY <1>0, <1>1, TypeStep DEF Next, Operator, World
<1>4. ASSUME NEW j \in Jobs PROVE RowMoves(j)
  <2>1. "cancelled" \in JobState \ {"leased"} /\ job \in [Jobs -> JobRow]
    BY <1>0 DEF JobState, Settled, TypeOK
  <2>2. ASSUME NEW i \in Jobs, Cancel(i)
        PROVE  job'[j] = job[j] \/ job'[j] = Fenced(job[j], "cancelled")
    BY <2>2, AllFields DEF Cancel
  <2>3. ASSUME NEW i \in Jobs, LeaseExpires(i) \/ BecomesDue(i)
        PROVE  \/ job'[j] = job[j]
               \/ job'[j] = [job[j] EXCEPT !.expires = "past"]
               \/ job'[j] = [job[j] EXCEPT !.runAfter = "past"]
    BY <2>1, <2>3 DEF LeaseExpires, BecomesDue
  <2>4. CASE ResumeProfile \/ \E s \in Sources : Revise(s)
    <3>1. \/ job'[j] = job[j]
          \/ job'[j] = [job[j] EXCEPT !.state = "pending", !.runAfter = "past"]
      BY <2>4 DEF ResumeProfile, Revise
    <3> QED BY <1>0, <3>1, RowWrites
  <2> QED BY <1>0, <1>1, <2>1, <2>2, <2>3, <2>4, RowWrites
<1>5. Withdraws
  BY <1>0, <1>2 DEF Withdraws, Withheld
<1> QED BY <1>2, <1>3, <1>4, <1>5, Outside

-----------------------------------------------------------------------------
(* A server process: tick(), and the worker it starts *)

\* Steps of tick() that leave the queue alone
LEMMA TickAllowed ==
  ASSUME GrantInv, NEW w \in Workers, Tick(w) \/ Begin(w) \/ Settle(w)
  PROVE  Allowed
<1>1. UNCHANGED <<queue, withdrawn>>
  BY DEF Tick, Begin, Settle
<1>2. TypeOK' /\ UNCHANGED worker /\ \A j \in Jobs : job'[j] = job[j]
  BY <1>1 DEF GrantInv, TypeOK, queue, rows, items, world
<1>3. Tickers'
  <2>1. ticker \in [Workers -> TickerRow]
    BY DEF GrantInv, Tickers
  <2>2. CASE Tick(w) \/ Settle(w)
    <3>1. /\ ticker[w].pc = "off" \/ worker[w].pc = "idle"
          /\ \/ UNCHANGED ticker
             \/ \E r \in Runs : ticker' = [ticker EXCEPT ![w] = [pc |-> "begin", run |-> r]]
             \/ ticker' = [ticker EXCEPT ![w] = Off]
      BY <2>2 DEF Tick, Settle
    <3>2. Off \in TickerRow /\ \A r \in Runs : [pc |-> "begin", run |-> r] \in TickerRow
      BY DEF Off, TickerRow
    <3>3. ticker' \in [Workers -> TickerRow]
      BY <2>1, <3>1, <3>2
    <3>4. \A v \in Workers : v # w => ticker'[v] = ticker[v]
      BY <2>1, <3>1
    <3>5. worker[w].pc = "idle"
      BY <3>1 DEF GrantInv, Tickers
    <3> QED BY <1>2, <3>3, <3>4, <3>5 DEF GrantInv, Tickers
  <2>3. CASE Begin(w)
    <3>1. ticker[w].pc = "begin" /\ ticker' = [ticker EXCEPT ![w].pc = "claim"]
      BY <2>3 DEF Begin, TickerAt
    <3>2. [ticker[w] EXCEPT !.pc = "claim"] \in TickerRow
      BY <2>1 DEF TickerRow
    <3>3. ticker' = [ticker EXCEPT ![w] = [ticker[w] EXCEPT !.pc = "claim"]]
      BY <3>1
    <3>4. ticker' \in [Workers -> TickerRow]
      BY <2>1, <3>2, <3>3
    <3>5. \A v \in Workers : v # w => ticker'[v] = ticker[v]
      BY <2>1, <3>3
    <3>6. worker[w].pc = "idle"
      BY <3>1 DEF GrantInv, Tickers
    <3> QED BY <1>2, <3>4, <3>5, <3>6 DEF GrantInv, Tickers
  <2> QED BY <2>2, <2>3
<1>4. \A j \in Jobs : RowMoves(j)
  BY <1>2, RowWrites DEF GrantInv
<1>5. \A v \in Workers : WorkerMoves(v)
  BY <1>2 DEF GrantInv, TypeOK, WorkerRow, WorkerMoves
<1>6. Withdraws /\ NotUsed
  BY <1>1, <1>2 DEF Withdraws, NotUsed, GrantInv, Withheld
<1> QED BY <1>2, <1>3, <1>4, <1>5, <1>6 DEF Allowed

\* A process that dies
LEMMA DiesAllowed ==
  ASSUME GrantInv, NEW w \in Workers, ProcessDies(w)
  PROVE  Allowed
<1>1. /\ worker' = [worker EXCEPT ![w] = Idle]
      /\ ticker' = [ticker EXCEPT ![w] = Off]
      /\ withdrawn' = withdrawn \ {w}
      /\ UNCHANGED <<rows, items, profileReady, reserved, world, summary, requeues>>
  BY DEF ProcessDies
<1>2. Idle \in WorkerRow /\ Idle.pc = "idle" /\ Off \in TickerRow
  BY DEF Idle, WorkerRow, NoJob, Codes, Off, TickerRow
<1>3. /\ worker \in [Workers -> WorkerRow] /\ ticker \in [Workers -> TickerRow]
      /\ withdrawn \subseteq Workers
  BY DEF GrantInv, TypeOK, Tickers, Withheld
<1>4. /\ worker'[w].pc = "idle"
      /\ \A v \in Workers : v # w => worker'[v] = worker[v] /\ ticker'[v] = ticker[v]
  BY <1>1, <1>2, <1>3
<1>5. worker' \in [Workers -> WorkerRow] /\ ticker' \in [Workers -> TickerRow]
  BY <1>1, <1>2, <1>3
<1>6. TypeOK'
  BY <1>1, <1>4, <1>5 DEF GrantInv, TypeOK, rows, items, world
<1>7. Tickers'
  BY <1>4, <1>5 DEF GrantInv, Tickers
<1>8. \A j \in Jobs : RowMoves(j)
  BY <1>1, RowWrites DEF GrantInv, rows
<1>9. \A v \in Workers : WorkerMoves(v)
  BY <1>3, <1>4 DEF WorkerMoves
<1>10. Withdraws /\ NotUsed
  BY <1>1, <1>3, <1>4 DEF Withdraws, NotUsed
<1> QED BY <1>6, <1>7, <1>8, <1>9, <1>10 DEF Allowed

\* The worker's record after each kind of write
LEMMA WorkerWrites ==
  ASSUME TypeOK, NEW w \in Workers, worker[w].pc # "idle",
         \/ \E c \in Codes : Fails(w, c)
         \/ \E pc \in Working : Moves(w, pc)
         \/ \E B, pc : worker' = [worker EXCEPT ![w].batch = B, ![w].pc = pc]
         \/ worker' = [worker EXCEPT ![w] = Idle]
  PROVE  WorkerMoves(w) /\ \A v \in Workers : v # w => worker'[v] = worker[v]
<1>1. worker \in [Workers -> WorkerRow]
  BY DEF TypeOK
<1>2. ASSUME NEW c, Fails(w, c)
      PROVE  WorkerMoves(w) /\ \A v \in Workers : v # w => worker'[v] = worker[v]
  <2> DEFINE r == [worker[w] EXCEPT !.pc = "fail", !.code = c]
  <2>1. r.job = worker[w].job /\ r.fence = worker[w].fence
    BY <1>1 DEF WorkerRow
  <2>2. worker' = [worker EXCEPT ![w] = r]
    BY <1>2 DEF Fails
  <2> HIDE DEF r
  <2> QED BY <1>1, <2>1, <2>2 DEF WorkerMoves
<1>3. ASSUME NEW pc, Moves(w, pc)
      PROVE  WorkerMoves(w) /\ \A v \in Workers : v # w => worker'[v] = worker[v]
  <2> DEFINE r == [worker[w] EXCEPT !.pc = pc]
  <2>1. r.job = worker[w].job /\ r.fence = worker[w].fence /\ r.pc = pc
    BY <1>1 DEF WorkerRow
  <2>2. worker' = [worker EXCEPT ![w] = r]
    BY <1>3 DEF Moves
  <2> HIDE DEF r
  <2> QED BY <1>1, <2>1, <2>2 DEF WorkerMoves
<1>4. ASSUME NEW B, NEW pc, worker' = [worker EXCEPT ![w].batch = B, ![w].pc = pc]
      PROVE  WorkerMoves(w) /\ \A v \in Workers : v # w => worker'[v] = worker[v]
  <2> DEFINE r == [worker[w] EXCEPT !.batch = B, !.pc = pc]
  <2>1. r.job = worker[w].job /\ r.fence = worker[w].fence
    BY <1>1 DEF WorkerRow
  <2>2. worker' = [worker EXCEPT ![w] = r]
    BY <1>4
  <2> HIDE DEF r
  <2> QED BY <1>1, <2>1, <2>2 DEF WorkerMoves
<1>5. CASE worker' = [worker EXCEPT ![w] = Idle]
  BY <1>1, <1>5 DEF WorkerMoves, Idle
<1> QED BY <1>2, <1>3, <1>4, <1>5

\* A refusal by the guard of the run
LEMMA RefusedTyped ==
  ASSUME TypeOK, NEW w \in Workers, worker[w].pc # "idle", NEW c \in Codes,
         Refused(w, c)
  PROVE  TypeOK'
<1>1. worker[w] \in WorkerRow /\ worker[w].job \in Jobs
  BY DEF TypeOK
<1> DEFINE r == [worker[w] EXCEPT !.pc = "fail", !.code = c]
<1>2. r \in WorkerRow /\ r.job \in Jobs
  BY <1>1 DEF WorkerRow
<1>3. worker' = [worker EXCEPT ![w] = r]
  BY DEF Refused, Fails
<1> HIDE DEF r
<1>4. /\ worker' \in [Workers -> WorkerRow]
      /\ \A v \in Workers : worker'[v].pc # "idle" => worker'[v].job \in Jobs
  BY <1>2, <1>3 DEF TypeOK
<1> QED BY <1>4 DEF TypeOK, Refused, rows, items, world

\* A worker goes on with its job, or fails.
LEMMA WorkAllowed ==
  ASSUME GrantInv, NEW w \in Workers,
         \/ RunReserve(w) \/ RunSave(w) \/ RunMerge(w) \/ RunPublish(w) \/ RunOther(w)
  PROVE  Allowed
<1> USE DEF rows, items, world
<1>0. TypeOK /\ Tickers /\ Withheld
  BY DEF GrantInv
<1>1. worker[w].pc # "idle" /\ UNCHANGED ticker /\ withdrawn' = withdrawn \ {w}
  BY DEF RunReserve, RunSave, RunMerge, RunPublish, RunOther, Continues, Select,
         RunError, WorkerError, Failure
<1>2. \/ Select(w) \/ Reserve(w) \/ Save(w) \/ Merge(w) \/ Publish(w)
      \/ WorkerError(w) \/ Failure(w)
      \/ \E c \in Codes : Refused(w, c)
  BY DEF RunReserve, RunSave, RunMerge, RunPublish, RunOther, Stopped, Refusal,
         RunError, Codes
<1>3. TypeOK'
  <2>1. CASE \E c \in Codes : Refused(w, c)
    BY <1>0, <1>1, <2>1, RefusedTyped
  <2>2. CASE ~\E c \in Codes : Refused(w, c)
    BY <1>0, <1>2, <2>2, TypeStep DEF Next, WorkerStep
  <2> QED BY <2>1, <2>2
<1>4. WorkerMoves(w) /\ \A v \in Workers : v # w => worker'[v] = worker[v]
  <2>1. \/ \E c \in Codes : Fails(w, c)
        \/ \E pc \in Working : Moves(w, pc)
        \/ \E B, pc : worker' = [worker EXCEPT ![w].batch = B, ![w].pc = pc]
        \/ worker' = [worker EXCEPT ![w] = Idle]
    <3>1. CASE Select(w)
      BY <3>1 DEF Select, Codes
    <3>2. CASE Reserve(w) \/ Save(w) \/ Merge(w)
      BY <3>2 DEF Reserve, Save, Merge, Codes, Working
    <3>3. CASE Publish(w) \/ WorkerError(w) \/ Failure(w)
      BY <3>3 DEF Publish, WorkerError, Failure, Codes
    <3>4. CASE \E c \in Codes : Refused(w, c)
      BY <3>4 DEF Refused
    <3> QED BY <1>2, <3>1, <3>2, <3>3, <3>4
  <2> QED BY <1>0, <1>1, <2>1, WorkerWrites
<1>5. Tickers'
  BY <1>0, <1>1, <1>4 DEF Tickers
<1>6. \A j \in Jobs : RowMoves(j)
  <2> SUFFICES ASSUME NEW j \in Jobs PROVE RowMoves(j)
    OBVIOUS
  <2> DEFINE k == worker[w].job
  <2>1. k \in Jobs /\ job \in [Jobs -> JobRow] /\ worker[w].code \in Codes
    BY <1>0, <1>1 DEF TypeOK, WorkerRow
  <2>2. job[k] \in JobRow /\ job[k].fence \in Nat
    BY <2>1 DEF JobRow
  <2> HIDE DEF k
  <2>3. CASE UNCHANGED job
    BY <1>0, <2>3, RowWrites
  <2>4. ASSUME NEW row, job' = [job EXCEPT ![k] = row],
               row.fence = job[k].fence, row.state # "leased"
        PROVE  RowMoves(j)
    <3>1. CASE j = k
      BY <2>1, <2>2, <2>4, <3>1 DEF RowMoves
    <3>2. CASE j # k
      BY <1>0, <2>1, <2>4, <3>2, RowWrites
    <3> QED BY <3>1, <3>2
  <2>5. CASE Publish(w) /\ ~UNCHANGED job
    <3>1. job' = [job EXCEPT ![k] = [Unleased(job[k]) EXCEPT !.state = "succeeded"]]
      BY <2>5 DEF Publish, k
    <3>2. /\ [Unleased(job[k]) EXCEPT !.state = "succeeded"].fence = job[k].fence
          /\ [Unleased(job[k]) EXCEPT !.state = "succeeded"].state = "succeeded"
      BY <2>2 DEF Unleased, JobRow
    <3> QED BY <2>4, <3>1, <3>2
  <2>6. CASE Failure(w) /\ ~UNCHANGED job
    <3> DEFINE st == FailureState(job[k], worker[w].code)
    <3>1. st \in Settled \cup {"retry_wait"}
      BY <2>1, <2>2, FailureStateType
    <3>2. st # "leased"
      BY <3>1 DEF Settled, Blocked
    <3>3. job' = [job EXCEPT ![k] =
                    [Unleased(job[k]) EXCEPT !.state = st, !.runAfter = "future"]]
      BY <2>6 DEF Failure, k
    <3> HIDE DEF st
    <3>4. /\ [Unleased(job[k]) EXCEPT !.state = st, !.runAfter = "future"].fence = job[k].fence
          /\ [Unleased(job[k]) EXCEPT !.state = st, !.runAfter = "future"].state = st
      BY <2>2 DEF Unleased, JobRow
    <3> QED BY <2>4, <3>2, <3>3, <3>4
  <2>7. CASE ~(Publish(w) \/ Failure(w))
    <3>1. UNCHANGED job
      BY <1>2, <2>7 DEF Select, Reserve, Save, Merge, WorkerError, Refused
    <3> QED BY <2>3, <3>1
  <2> QED BY <2>3, <2>5, <2>6, <2>7
<1>7. Withdraws
  BY <1>0, <1>1, <1>4 DEF Withdraws, Withheld
<1>8. NotUsed
  <2> SUFFICES ASSUME w \in withdrawn PROVE worker'[w].pc \in {"fail", "idle"}
    BY <1>0, <1>4 DEF NotUsed, Withheld
  <2>1. worker[w].pc \in Sent /\ worker[w] \in WorkerRow
    BY <1>0 DEF Withheld, Lapsed, TypeOK
  <2>2. ~Owns(w)
    <3>1. job[worker[w].job].fence \in Nat /\ worker[w].fence \in Nat
      BY <1>0, <2>1 DEF Sent, TypeOK, JobRow, WorkerRow
    <3> QED BY <1>0, <3>1 DEF Withheld, Lapsed, Owns, SameLease
  <2>3. \E c : Fails(w, c)
    <3>1. worker[w].pc \notin {"loop", "merge", "fail", "ready"}
      BY <2>1 DEF Sent
    <3> QED BY <1>2, <2>2, <3>1
            DEF Select, Reserve, Save, Merge, Publish, WorkerError, Failure, Refused
  <2> QED BY <1>0, <2>1, <2>3 DEF Fails, TypeOK, WorkerRow
<1>9. \A v \in Workers : WorkerMoves(v)
  BY <1>4 DEF WorkerMoves
<1> QED BY <1>3, <1>4, <1>5, <1>6, <1>7, <1>8, <1>9 DEF Allowed

\* claim(): the lease it gives is newer than any before.
LEMMA ClaimAllowed ==
  ASSUME GrantInv, NEW w \in Workers, RunClaim(w)
  PROVE  Allowed
<1> USE DEF rows, items, world
<1>0. /\ TypeOK /\ Tickers /\ Withheld
      /\ job \in [Jobs -> JobRow] /\ worker \in [Workers -> WorkerRow]
      /\ ticker \in [Workers -> TickerRow]
  BY DEF GrantInv, TypeOK, Tickers
<1>1. /\ worker[w].pc = "idle" /\ w \notin withdrawn /\ UNCHANGED withdrawn
      /\ UNCHANGED <<rescheduled, items, profileReady, reserved, world, summary, requeues>>
  <2>1. ticker[w].pc = "claim" /\ UNCHANGED withdrawn
        /\ UNCHANGED <<rescheduled, items, profileReady, reserved, world, summary, requeues>>
    BY DEF RunClaim
  <2> QED BY <1>0, <2>1 DEF Tickers, Withheld, Lapsed, Sent
<1>2. PICK dead \in SUBSET Exhausted :
        \/ UNCHANGED <<job, worker>> /\ (Blocks(w) \/ TickerAt(w, "drained"))
        \/ /\ job' = FenceAll(dead, "dead_letter") /\ UNCHANGED worker
           /\ TickerAt(w, "drained")
        \/ /\ TickerAt(w, "drained")
           /\ \E j \in Claimable :
                /\ job' = [FenceAll(dead, "dead_letter") EXCEPT ![j] = Leased(job[j], w)]
                /\ worker' = [worker EXCEPT ![w] =
                     [Idle EXCEPT !.pc = "loop", !.job = j,
                                  !.fence = Leased(job[j], w).fence]]
  <2> DEFINE mine == IF profileReady THEN JobsOf(ticker[w].run) ELSE {}
  <2>1. CASE UNCHANGED <<job, worker>> /\ (Blocks(w) \/ TickerAt(w, "drained"))
    BY <2>1
  <2>2. CASE /\ job' = FenceAll(Exhausted \cap mine, "dead_letter") /\ UNCHANGED worker
             /\ TickerAt(w, "drained")
    BY <2>2
  <2>3. ASSUME NEW dead \in SUBSET (Exhausted \cap mine), NEW j \in Claimable \cap mine,
               job' = [FenceAll(dead, "dead_letter") EXCEPT ![j] = Leased(job[j], w)],
               worker' = [worker EXCEPT ![w] =
                 [Idle EXCEPT !.pc = "loop", !.job = j,
                              !.fence = Leased(job[j], w).fence]],
               TickerAt(w, "drained")
        PROVE  \E d \in SUBSET Exhausted : \E i \in Claimable :
                 /\ job' = [FenceAll(d, "dead_letter") EXCEPT ![i] = Leased(job[i], w)]
                 /\ worker' = [worker EXCEPT ![w] =
                      [Idle EXCEPT !.pc = "loop", !.job = i,
                                   !.fence = Leased(job[i], w).fence]]
    BY <2>3
  <2> QED BY <2>1, <2>2, <2>3 DEF RunClaim
<1> DEFINE F == FenceAll(dead, "dead_letter")
<1>3. /\ F \in [Jobs -> JobRow] /\ "dead_letter" \in JobState \ {"leased"}
      /\ \A i \in Jobs : F[i] = job[i] \/ F[i] = Fenced(job[i], "dead_letter")
  <2>1. dead \in SUBSET Jobs /\ "dead_letter" \in JobState \ {"leased"}
    BY DEF JobState, Settled, Exhausted, Abandoned
  <2>2. F \in [Jobs -> JobRow]
    BY <1>0, <2>1, TableTypes
  <2>3. \A i \in Jobs : F[i] = job[i] \/ F[i] = Fenced(job[i], "dead_letter")
    BY AllFields
  <2> QED BY <2>1, <2>2, <2>3
<1> HIDE DEF F
<1>4. /\ ticker' \in [Workers -> TickerRow]
      /\ \A v \in Workers : v # w => ticker'[v] = ticker[v]
      /\ TickerAt(w, "drained") => ticker'[w].pc = "drained"
  <2> DEFINE t == [ticker[w] EXCEPT !.pc = "drained"]
  <2>1. Off \in TickerRow /\ t \in TickerRow /\ t.pc = "drained"
    BY <1>0 DEF Off, TickerRow
  <2>2. TickerAt(w, "drained") => ticker' = [ticker EXCEPT ![w] = t]
    BY DEF TickerAt
  <2> HIDE DEF t
  <2>3. TickerAt(w, "drained") \/ ticker' = [ticker EXCEPT ![w] = Off]
    BY <1>2 DEF Blocks
  <2> QED BY <1>0, <2>1, <2>2, <2>3
<1>5. CASE UNCHANGED worker
  <2>1. job' = job \/ job' = F
    <3>1. ASSUME NEW j, NEW f,
                 worker' = [worker EXCEPT ![w] = [Idle EXCEPT !.pc = "loop", !.job = j, !.fence = f]]
          PROVE  FALSE
      <4> DEFINE r == [Idle EXCEPT !.pc = "loop", !.job = j, !.fence = f]
      <4>1. r.pc = "loop"
        BY DEF Idle
      <4>2. worker' = [worker EXCEPT ![w] = r]
        BY <3>1
      <4> HIDE DEF r
      <4> QED BY <1>0, <1>1, <1>5, <4>1, <4>2
    <3> QED BY <1>2, <3>1 DEF F
  <2>2. TypeOK'
    BY <1>0, <1>1, <1>3, <1>5, <2>1 DEF TypeOK
  <2>3. \A j \in Jobs : RowMoves(j)
    BY <1>0, <1>3, <2>1, RowWrites
  <2>4. Tickers'
    BY <1>0, <1>1, <1>4, <1>5 DEF Tickers
  <2>5. \A v \in Workers : WorkerMoves(v)
    BY <1>5 DEF WorkerMoves
  <2>6. Withdraws /\ NotUsed
    BY <1>0, <1>1, <1>5 DEF Withdraws, NotUsed, Withheld
  <2> QED BY <2>2, <2>3, <2>4, <2>5, <2>6 DEF Allowed
<1>6. CASE ~UNCHANGED worker
  <2>1. PICK j \in Claimable :
          /\ job' = [F EXCEPT ![j] = Leased(job[j], w)]
          /\ worker' = [worker EXCEPT ![w] =
               [Idle EXCEPT !.pc = "loop", !.job = j, !.fence = Leased(job[j], w).fence]]
    BY <1>2, <1>6 DEF F
  <2> DEFINE L == Leased(job[j], w)
             r == [Idle EXCEPT !.pc = "loop", !.job = j, !.fence = L.fence]
  <2>2. j \in Jobs /\ job[j] \in JobRow /\ job[j].fence \in Nat
    BY <1>0 DEF Claimable, Abandoned, JobRow
  <2>3. L \in JobRow /\ L.fence = job[j].fence + 1
    BY <2>2, LeasedType, RowFields DEF JobState
  <2> HIDE DEF L
  <2>4. r \in WorkerRow /\ r.job = j /\ r.fence = L.fence /\ r.pc = "loop"
    <3>1. Idle \in WorkerRow
      BY DEF Idle, WorkerRow, NoJob, Codes
    <3>2. L.fence \in Nat
      BY <2>2, <2>3
    <3> QED BY <2>2, <3>1, <3>2 DEF WorkerRow, Working
  <2>5. job' = [F EXCEPT ![j] = L] /\ worker' = [worker EXCEPT ![w] = r]
    BY <2>1 DEF L
  <2> HIDE DEF r
  <2>6. /\ job' \in [Jobs -> JobRow] /\ job'[j] = L
        /\ \A i \in Jobs : i # j => job'[i] = F[i]
    BY <1>3, <2>2, <2>3, <2>5
  <2>7. /\ worker' \in [Workers -> WorkerRow] /\ worker'[w] = r
        /\ \A v \in Workers : v # w => worker'[v] = worker[v]
    BY <1>0, <2>4, <2>5
  <2>8. TypeOK'
    BY <1>0, <1>1, <2>2, <2>4, <2>6, <2>7 DEF TypeOK
  <2>9. \A i \in Jobs : RowMoves(i)
    <3>1. RowMoves(j)
      BY <2>2, <2>3, <2>6 DEF RowMoves
    <3>2. \A i \in Jobs : i # j => RowMoves(i)
      BY <1>0, <1>3, <2>6, RowWrites
    <3> QED BY <3>1, <3>2
  <2>10. ticker'[w].pc = "drained"
    BY <1>2, <1>4, <1>6
  <2>11. Tickers'
    BY <1>0, <1>4, <2>7, <2>10 DEF Tickers
  <2>12. \A v \in Workers : WorkerMoves(v)
    BY <1>1, <2>2, <2>4, <2>6, <2>7 DEF WorkerMoves
  <2>13. Withdraws /\ NotUsed
    BY <1>0, <1>1, <2>7 DEF Withdraws, NotUsed, Withheld
  <2> QED BY <2>8, <2>9, <2>11, <2>12, <2>13 DEF Allowed
<1> QED BY <1>5, <1>6

\* Every step of the runs is allowed.
LEMMA RunsAllowed ==
  ASSUME GrantInv, [RunsNext]_<<queue, owned>>
  PROVE  Allowed
<1>1. ASSUME NEW w \in Workers, ProcessStep(w) PROVE Allowed
  BY <1>1, TickAllowed, ClaimAllowed, WorkAllowed DEF ProcessStep
<1>2. CASE UNCHANGED <<queue, owned>>
  <2>1. UNCHANGED <<worker, ticker, withdrawn>> /\ TypeOK'
    BY <1>2 DEF queue, owned, GrantInv, TypeOK, rows, items, world
  <2>2. \A j \in Jobs : RowMoves(j)
    BY <1>2, RowWrites DEF queue, rows, GrantInv
  <2> QED BY <2>1, <2>2, Outside DEF Withdraws, GrantInv, Withheld
<1> QED BY <1>1, <1>2, DiesAllowed, OwnerAllowed, ElsewhereAllowed DEF RunsNext

\* The answer to a call that was sent before the owner paused, cancelled or
\* resumed its run is not used (resume(), which leaves fence and lease).
THEOREM GrantsKept == RunsSpec => GrantedResults
<1> DEFINE Quiet == \A w \in withdrawn :
             worker'[w] # worker[w] => worker'[w].pc \in {"fail", "idle"}
<1>1. InitRuns => GrantInv
  <2> SUFFICES ASSUME InitRuns PROVE GrantInv
    OBVIOUS
  <2>1. TypeOK
    BY DEF InitRuns, Init, TypeOK, NewRow, Idle, JobRow, WorkerRow, Owners,
           JobState, Waiting, Settled, Codes, NoJob
  <2>2. Tickers /\ FencesKnown /\ Withheld
    BY DEF InitRuns, Init, Tickers, TickerRow, Off, FencesKnown, Withheld, Idle
  <2> QED BY <2>1, <2>2 DEF GrantInv
<1>2. GrantInv /\ [RunsNext]_<<queue, owned>> => GrantInv' /\ [Quiet]_<<queue, owned>>
  BY RunsAllowed, MovesKeep DEF Allowed, NotUsed
<1> HIDE DEF Quiet
<1>3. RunsSpec => [][Quiet]_<<queue, owned>>
  BY <1>1, <1>2, PTL DEF RunsSpec
<1> QED BY <1>3 DEF GrantedResults, Quiet

=============================================================================
