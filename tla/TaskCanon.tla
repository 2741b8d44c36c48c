------------------------------ MODULE TaskCanon ------------------------------
(***************************************************************************)
(* Canonical tasks and how they change (server/lib/store.mjs and           *)
(* reconciliation.mjs): by an upsert, by an edit in the console, and by a  *)
(* reconciliation proposal that is generated from checkpoints or requested *)
(* operations and then confirmed, or applied at once when it is safe.      *)
(*                                                                         *)
(* A call that is not one transaction is a sequence of steps of its caller *)
(* (call[c].at names the next one), between which other connections to the *)
(* database work; a crash ends it between two steps.  A task is its title, *)
(* which stands for the scalar fields, and one note that is in or out of   *)
(* it, which stands for the items of its lists.                            *)
(***************************************************************************)
EXTENDS ProjectTree, Sequences

CONSTANTS
  Titles,
  Callers,         \* connections with a call in progress
  MaxVersion, MaxProposals

VARIABLES
  tasks,           \* tasks[t]: version (0: no row) and content
  revisions,       \* task_canonical_revisions
  proposals,       \* task_reconciliation_proposals with their authority binding
  events,          \* captured events, in rowid order (see Capture)
  checkpoints,     \* the checkpoints table (see Capture)
  call             \* the call each caller is in

canonVars == <<tasks, revisions, proposals, events, checkpoints, call>>

Tasks == Projects \X Titles       \* the ids taskBootstrapIdentifier gives
Versions == 0..MaxVersion
Contents == [project : Projects, title : Titles, note : {"in", "out"}]
NoContent == [project |-> None, title |-> None, note |-> None]
Operations == [key : {"title"}, val : Titles, safe : {"no"}]
                \cup [key : {"note"}, val : {"in", "out"}, safe : {"yes", "no"}]
Sources == {"upsert", "edit", "proposal", "bootstrap"}
Idle == [at |-> "idle"]

ASSUME CanonAssumption == MaxVersion \in Nat \ {0} /\ MaxProposals \in Nat

CanonTypeOK ==
  /\ \A t \in Tasks : tasks[t].version \in Versions
                       /\ tasks[t].content \in IF tasks[t].version = 0 THEN {NoContent} ELSE Contents
  /\ \A r \in revisions : /\ r.task \in Tasks /\ r.from \in Versions /\ r.to \in Versions
                          /\ r.by.source \in Sources /\ r.after \in Contents
                          /\ r.before \in Contents \cup {NoContent}
  /\ \A i \in DOMAIN proposals : LET p == proposals[i] IN
       /\ p.task \in Tasks /\ p.base \in Versions /\ p.ops \subseteq Operations
       /\ p.status \in {"awaiting", "no_effect", "superseded", "stale", "rejected", "applied"}
       /\ p.bound \in 0..generation
       /\ p.ops = {} => p.status = "no_effect"

Exists(t) == tasks[t].version > 0
ProjectOf(t) == tasks[t].content.project
TaskLive(t) == Exists(t) => Live(ProjectOf(t))

-----------------------------------------------------------------------------
\* Operations on a task.
Needed(content, ops) == {o \in ops : content[o.key] # o.val}
SameOperation(a, b) == a.key = b.key /\ a.val = b.val
Merged(ops) ==
  {[o EXCEPT !.safe = IF \A a \in ops : SameOperation(a, o) => a.safe = "yes" THEN "yes" ELSE "no"] : o \in ops}
Conflicting(ops) == \E a, b \in ops : a.key = b.key /\ a.val # b.val
Applied(content, ops) ==
  [k \in DOMAIN content |->
     IF \E o \in ops : o.key = k THEN (CHOOSE o \in ops : o.key = k).val ELSE content[k]]

\* The item a checkpoint adds, if it was made of an event that reports one.
Derived(sources) ==
  {[key |-> "note", val |-> "in", safe |-> IF c.claim = "safe" THEN "yes" ELSE "no"] :
     c \in {k \in checkpoints : k.trigger \in sources /\ k.claim # "none"}}
LatestCheckpoints(t) ==
  LET own == {c \in checkpoints : c.task = t /\ Live(c.project)}
  IN {c.trigger : c \in {k \in own : \A o \in own : o.version <= k.version}}

-----------------------------------------------------------------------------
\* A canonical revision: the row, its revision and the proposals it resolves or
\* outdates, in one transaction.  saw is what the author of the change was shown.
Revise(t, after, by, saw) ==
  /\ tasks[t].version < MaxVersion
  /\ tasks' = [tasks EXCEPT ![t] = [version |-> @.version + 1, content |-> after]]
  /\ revisions' = revisions \cup
       {[task |-> t, from |-> tasks[t].version, to |-> tasks[t].version + 1,
         before |-> tasks[t].content, after |-> after, by |-> by, saw |-> saw]}
  /\ proposals' = [i \in DOMAIN proposals |->
       IF by = [source |-> "proposal", id |-> i] THEN [proposals[i] EXCEPT !.status = "applied"]
       ELSE IF proposals[i].task = t /\ proposals[i].status = "awaiting"
            THEN [proposals[i] EXCEPT !.status = "stale"] ELSE proposals[i]]
  /\ lifePreviews' = EpochMoved

\* writeUpsertedTask: an unchanged task is not written.
WriteUpserted(t, after, by, saw) ==
  \/ tasks[t].content # after /\ Revise(t, after, by, saw)
  \/ tasks[t].content = after /\ UNCHANGED <<tasks, revisions, proposals, lifePreviews>>

\* upsertTask, by the API or by mnemuron-admin: one transaction, which also
\* creates the project if need be.
UpsertTask(t, p, title, note) ==
  LET dest == Route(p, ProjectOf(t)) IN
  /\ TaskLive(t) /\ Writable(p)
  /\ names' = IF Owned(dest) THEN names ELSE [names EXCEPT ![dest] = dest]
  /\ WriteUpserted(t, [project |-> dest, title |-> title, note |-> note],
                   [source |-> "upsert", id |-> 0], tasks[t].content)
  /\ UNCHANGED <<life, generation, events, checkpoints, call>>

\* The console shows a task and saves what the user made of it: tasks.update.
OpenTask(c, t) ==
  /\ Exists(t) /\ TaskLive(t)
  /\ call' = [call EXCEPT ![c] = [at |-> "edit", task |-> t, version |-> tasks[t].version,
                                  saw |-> tasks[t].content]]
  /\ UNCHANGED <<tasks, revisions, proposals, events, checkpoints, treeVars>>

UpdateTaskAnyVersion(c, title) ==
  LET t == call[c].task IN
  /\ call[c].at = "edit" /\ TaskLive(t)
  /\ WriteUpserted(t, [tasks[t].content EXCEPT !.title = title], [source |-> "edit", id |-> 0], call[c].saw)
  /\ call' = [call EXCEPT ![c] = Idle]
  /\ UNCHANGED <<names, life, generation, events, checkpoints>>

UpdateTask(c, title) ==
  LET t == call[c].task IN
  /\ call[c].at = "edit" /\ TaskLive(t)
  /\ call[c].version = tasks[t].version
  /\ WriteUpserted(t, [tasks[t].content EXCEPT !.title = title], [source |-> "edit", id |-> 0], call[c].saw)
  /\ call' = [call EXCEPT ![c] = Idle]
  /\ UNCHANGED <<names, life, generation, events, checkpoints>>

-----------------------------------------------------------------------------
\* runReconciliation.  A request names operations, or none; checkpoints, or none
\* (Latest); and whether the checkpoints' own items are taken as well.  It
\* starts by observing the lifecycle generation its proposal will be bound to.
Latest == {0}       \* no event has this number

Observed(t, ops, sources, derive, auto) ==
  [at |-> "generate", task |-> t, ops |-> ops, sources |-> sources, derive |-> derive,
   auto |-> auto, bound |-> generation]

Reconcile(c, t, ops, sources, derive, auto) ==
  /\ derive = "no" => ops # {} /\ sources # Latest
  /\ auto = "no" => ops = {}         \* the console requests no operations
  /\ call' = [call EXCEPT ![c] = Observed(t, ops, sources, derive, auto)]
  /\ UNCHANGED <<tasks, revisions, proposals, events, checkpoints, treeVars>>

Pending(t, base) ==
  {i \in DOMAIN proposals : /\ proposals[i].task = t /\ proposals[i].base = base
                            /\ proposals[i].status = "awaiting"}

\* The proposal a request leads to, from what is read now.
Proposed(r) ==
  LET task == tasks[r.task]
      named == IF r.sources # Latest THEN r.sources
               ELSE IF r.ops = {} THEN LatestCheckpoints(r.task) ELSE {}
      pending == {proposals[i] : i \in Pending(r.task, task.version)}
      derived == IF r.derive = "yes" THEN Needed(task.content, Derived(named)) ELSE {}
  IN [task |-> r.task, base |-> task.version,
      ops |-> Merged((UNION {q.ops : q \in pending}) \cup derived \cup Needed(task.content, r.ops)),
      sources |-> named \cup UNION {q.sources : q \in pending},
      bound |-> r.bound, read |-> generation, saw |-> task.content]

SameFingerprint(p, q) ==
  /\ p.task = q.task /\ p.base = q.base /\ p.sources = q.sources
  /\ {<<o.key, o.val>> : o \in p.ops} = {<<o.key, o.val>> : o \in q.ops}
Known(p) == \E i \in DOMAIN proposals : SameFingerprint(p, proposals[i])

\* Requests answered with an existing proposal, or refused.
Answered(r) ==
  \/ r.ops = {} /\ r.sources # Latest
       /\ \E i \in DOMAIN proposals : proposals[i].task = r.task /\ r.sources \subseteq proposals[i].sources
  \/ (r.derive = "no" \/ r.ops = {}) /\ Pending(r.task, tasks[r.task].version) # {}
  \/ Known(Proposed(r))

Generate(c) ==
  LET r == call[c]
      refused == \/ ~Exists(r.task) \/ ~TaskLive(r.task)
                 \/ r.sources # Latest /\ \E k \in checkpoints : k.trigger \in r.sources /\ ~Live(k.project)
  IN
  /\ r.at = "generate"
  /\ call' = [call EXCEPT ![c] =
       IF refused \/ Answered(r) THEN Idle
       ELSE [at |-> "insert", auto |-> r.auto, proposal |-> Proposed(r)]]
  /\ UNCHANGED <<tasks, revisions, proposals, events, checkpoints, treeVars>>

WithStatusAwaiting(p, status) ==
  [task |-> p.task, base |-> p.base, ops |-> p.ops, sources |-> p.sources, bound |-> p.bound,
   read |-> p.read, saw |-> p.saw, status |-> "awaiting"]

WithStatus(p, status) ==
  [task |-> p.task, base |-> p.base, ops |-> p.ops, sources |-> p.sources, bound |-> p.bound,
   read |-> p.read, saw |-> p.saw, status |-> status]

InsertProposalBoundNow(c) ==
  LET p == [call[c].proposal EXCEPT !.bound = generation] IN
  /\ call[c].at = "insert" /\ Len(proposals) < MaxProposals /\ ~Known(p)
  /\ proposals' = Append(proposals, WithStatus(p, IF p.ops = {} THEN "no_effect" ELSE "awaiting"))
  /\ call' = [call EXCEPT ![c] =
       IF p.ops = {} THEN Idle ELSE [at |-> "supersede", id |-> Len(proposals) + 1, auto |-> call[c].auto]]
  /\ lifePreviews' = EpochMoved
  /\ UNCHANGED <<tasks, revisions, events, checkpoints, names, life, generation>>

\* The proposal and its authority binding, in one transaction; a proposal of the
\* same fingerprint makes it fail.
InsertProposal(c) ==
  LET p == call[c].proposal IN
  /\ call[c].at = "insert" /\ Len(proposals) < MaxProposals
  /\ IF Known(p)
     THEN /\ call' = [call EXCEPT ![c] = Idle]
          /\ UNCHANGED <<proposals, lifePreviews>>
     ELSE /\ proposals' = Append(proposals, WithStatus(p, IF p.ops = {} THEN "no_effect" ELSE "awaiting"))
          /\ call' = [call EXCEPT ![c] =
               IF p.ops = {} THEN Idle
               ELSE [at |-> "supersede", id |-> Len(proposals) + 1, auto |-> call[c].auto]]
          /\ lifePreviews' = EpochMoved
  /\ UNCHANGED <<tasks, revisions, events, checkpoints, names, life, generation>>

AllSafe(p) == ~Conflicting(p.ops) /\ \A o \in p.ops : o.safe = "yes"

SupersedeOthers(c) ==
  LET id == call[c].id
      p == proposals[id]
  IN
  /\ call[c].at = "supersede"
  /\ proposals' = [i \in DOMAIN proposals |->
       IF i # id /\ i \in Pending(p.task, p.base)
       THEN [proposals[i] EXCEPT !.status = "superseded"] ELSE proposals[i]]
  /\ call' = [call EXCEPT ![c] =
       IF AllSafe(p) /\ call[c].auto = "yes" THEN [at |-> "apply", id |-> id] ELSE Idle]
  /\ lifePreviews' = EpochMoved
  /\ UNCHANGED <<tasks, revisions, events, checkpoints, names, life, generation>>

-----------------------------------------------------------------------------
\* applyReconciliationProposal: the checks, then the transaction.
Authorised(p) == TaskLive(p.task) /\ p.bound = generation

Settle(c, id, status) ==
  /\ proposals' = [proposals EXCEPT ![id].status = status]
  /\ call' = [call EXCEPT ![c] = Idle]
  /\ lifePreviews' = EpochMoved
  /\ UNCHANGED <<tasks, revisions, events, checkpoints, names, life, generation>>

ApplyProposal(c, id) ==
  LET p == proposals[id]
      task == tasks[p.task]
      after == Applied(task.content, p.ops)
      goes == p.status = "awaiting" /\ Authorised(p)
      fits == goes /\ task.version = p.base /\ ~Conflicting(p.ops)
  IN
  \/ /\ goes /\ (task.version # p.base \/ (fits /\ after = task.content))
     /\ Settle(c, id, IF fits THEN "no_effect" ELSE "stale")
  \/ /\ fits /\ after # task.content
     /\ call' = [call EXCEPT ![c] = [at |-> "commit", id |-> id, version |-> task.version, after |-> after]]
     /\ UNCHANGED <<tasks, revisions, proposals, events, checkpoints, treeVars>>
  \/ /\ ~goes \/ (task.version = p.base /\ Conflicting(p.ops))
     /\ call' = [call EXCEPT ![c] = Idle]
     /\ UNCHANGED <<tasks, revisions, proposals, events, checkpoints, treeVars>>

ApplyAutomatically(c) == call[c].at = "apply" /\ ApplyProposal(c, call[c].id)

CommitProposalAnyVersion(c) ==
  LET id == call[c].id
      p == proposals[id]
      next == call[c].version + 1
  IN
  /\ call[c].at = "commit" /\ Authorised(p) /\ p.status = "awaiting"
  /\ tasks' = [tasks EXCEPT ![p.task] = [version |-> next, content |-> call[c].after]]
  /\ revisions' = revisions \cup
       {[task |-> p.task, from |-> call[c].version, to |-> next, before |-> p.saw,
         after |-> call[c].after, by |-> [source |-> "proposal", id |-> id], saw |-> p.saw]}
  /\ proposals' = [proposals EXCEPT ![id].status = "applied"]
  /\ call' = [call EXCEPT ![c] = Idle]
  /\ UNCHANGED <<treeVars, events, checkpoints>>

CommitProposal(c) ==
  LET id == call[c].id
      p == proposals[id]
  IN
  /\ call[c].at = "commit"
  /\ IF Authorised(p) /\ tasks[p.task].version = call[c].version /\ p.status = "awaiting"
     THEN Revise(p.task, call[c].after, [source |-> "proposal", id |-> id], p.saw)
     ELSE UNCHANGED <<tasks, revisions, proposals, lifePreviews>>
  /\ call' = [call EXCEPT ![c] = Idle]
  /\ UNCHANGED <<names, life, generation, events, checkpoints>>

\* resolveReconciliation and the console's tasks.reconciliation_resolve; a
\* decision that was already taken is answered again.
ResolveProposal(c, id, decision) ==
  /\ TaskLive(proposals[id].task) /\ proposals[id].status = "awaiting"
  /\ \/ decision = "confirm" /\ ApplyProposal(c, id)
     \/ decision = "reject" /\ Settle(c, id, "rejected")

ReconcileStart(c, requests) ==
  \/ \E t \in {u \in Tasks : Exists(u)}, ops \in requests,
        sources \in {Latest} \cup {{k.trigger} : k \in checkpoints}, derive, auto \in {"yes", "no"} :
       Reconcile(c, t, ops, sources, derive, auto)
  \/ \E id \in DOMAIN proposals, decision \in {"confirm", "reject"} : ResolveProposal(c, id, decision)

ReconcileStep(c) ==
  Generate(c) \/ InsertProposal(c) \/ SupersedeOthers(c) \/ ApplyAutomatically(c) \/ CommitProposal(c)

=============================================================================
