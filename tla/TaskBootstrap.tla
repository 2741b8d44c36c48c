---------------------------- MODULE TaskBootstrap ----------------------------
(***************************************************************************)
(* Bootstrap of a project with its first task, and of a task in a project  *)
(* (server/lib/store.mjs): an agent previews it, the user confirms it.     *)
(* Names and titles are similar when they are equal; a project's id is     *)
(* derived from its name and a task's from its project and title.          *)
(***************************************************************************)
EXTENDS TaskCanon

CONSTANT MaxBootstraps
VARIABLE bootstraps      \* task_bootstrap_previews with their authority binding

bootstrapVars == <<canonVars, treeVars, bootstraps>>

ASSUME BootstrapAssumption == MaxBootstraps \in Nat

BootstrapTypeOK ==
  \A i \in DOMAIN bootstraps : LET b == bootstraps[i] IN
    /\ b.kind \in {"project", "task"} /\ b.project \in Projects /\ b.title \in Titles
    /\ b.name \in Projects
    /\ b.status \in {"pending", "confirmed", "cancelled", "expired"}
    /\ b.bound \in 0..generation /\ b.late \in {"yes", "no"}

TaskOf(b) == <<b.project, b.title>>

\* listProjects: canonical live projects of a similar name.
NameTaken(name) == \E p \in Projects : IsCanonical(p) /\ names[p] = name
\* listTasks: live tasks of the project and of those merged into it.
TitleTaken(p, title) ==
  \E t \in Tasks : /\ Exists(t) /\ Live(ProjectOf(t)) /\ Canonical(ProjectOf(t)) = p
                   /\ tasks[t].content.title = title

\* Pending previews are compared only while their binding is current.
SimilarPending(b) ==
  \E i \in DOMAIN bootstraps : LET o == bootstraps[i] IN
    /\ o.kind = b.kind /\ o.status = "pending" /\ o.late = "no" /\ o.bound = generation
    /\ o.project = b.project /\ (b.kind = "task" => o.title = b.title)

-----------------------------------------------------------------------------
\* createProjectBootstrapPreview and createTaskBootstrapPreview: observe the
\* generation, read, insert.
StartBootstrap(c, kind, p, title) ==
  /\ call' = [call EXCEPT ![c] =
       [at |-> "bootstrap", kind |-> kind, project |-> p, title |-> title, bound |-> generation]]
  /\ UNCHANGED <<tasks, revisions, proposals, events, checkpoints, treeVars, bootstraps>>

Offered(r) ==
  [kind |-> r.kind, project |-> r.project, title |-> r.title, bound |-> r.bound, read |-> generation,
   name |-> IF r.kind = "project" THEN r.project ELSE names[r.project]]

Available(r) ==
  /\ IF r.kind = "project"
     THEN ~NameTaken(r.project) /\ ~Owned(r.project) /\ ~Exists(TaskOf(r))
     ELSE IsCanonical(r.project) /\ ~TitleTaken(r.project, r.title)
  /\ ~SimilarPending(r)

ReadBootstrap(c) ==
  /\ call[c].at = "bootstrap"
  /\ call' = [call EXCEPT ![c] =
       IF Available(call[c]) THEN [at |-> "offer", bootstrap |-> Offered(call[c])] ELSE Idle]
  /\ UNCHANGED <<tasks, revisions, proposals, events, checkpoints, treeVars, bootstraps>>

InsertBootstrap(c) ==
  LET b == call[c].bootstrap IN
  /\ call[c].at = "offer" /\ Len(bootstraps) < MaxBootstraps
  /\ bootstraps' = Append(bootstraps,
       [kind |-> b.kind, project |-> b.project, title |-> b.title, name |-> b.name,
        bound |-> b.bound, read |-> b.read, status |-> "pending", late |-> "no"])
  /\ lifePreviews' = EpochMoved
  /\ call' = [call EXCEPT ![c] = Idle]
  /\ UNCHANGED <<tasks, revisions, proposals, events, checkpoints, names, life, generation>>

\* TASK_BOOTSTRAP_PREVIEW_TTL_MS passes.
BootstrapLate(i) ==
  /\ bootstraps[i].status = "pending" /\ bootstraps[i].late = "no"
  /\ bootstraps' = [bootstraps EXCEPT ![i].late = "yes"]
  /\ UNCHANGED <<canonVars, treeVars>>

-----------------------------------------------------------------------------
\* confirmProjectBootstrap and confirmTaskBootstrap: a late preview expires, a
\* refusal cancels it, a confirmation goes on to its transaction; a decision
\* that was already taken is answered again.
DecideBootstrap(c, i, confirmed) ==
  LET b == bootstraps[i] IN
  /\ b.status = "pending"
  /\ IF b.late = "yes" \/ confirmed = "no"
     THEN /\ bootstraps' = [bootstraps EXCEPT ![i].status = IF b.late = "yes" THEN "expired" ELSE "cancelled"]
          /\ lifePreviews' = EpochMoved
          /\ UNCHANGED call
     ELSE /\ call' = [call EXCEPT ![c] = [at |-> "confirm", id |-> i]]
          /\ UNCHANGED <<bootstraps, lifePreviews>>
  /\ UNCHANGED <<tasks, revisions, proposals, events, checkpoints, names, life, generation>>

\* What the transaction finds under the write lock.
Confirmable(b) ==
  /\ ~Dead(b.project) /\ b.bound = generation /\ b.status = "pending"
  /\ ~Exists(TaskOf(b))
  /\ IF b.kind = "project" THEN ~NameTaken(b.name) /\ ~Owned(b.project)
     ELSE names[b.project] = b.name /\ ~TitleTaken(b.project, b.title)

ConfirmBootstrap(c) ==
  LET i == call[c].id
      b == bootstraps[i]
  IN
  /\ call[c].at = "confirm"
  /\ IF Confirmable(b)
     THEN /\ names' = [names EXCEPT ![b.project] = b.name]
          /\ Revise(TaskOf(b), [project |-> b.project, title |-> b.title, note |-> "out"],
                    [source |-> "bootstrap", id |-> i], NoContent)
          /\ bootstraps' = [bootstraps EXCEPT ![i].status = "confirmed"]
     ELSE UNCHANGED <<names, tasks, revisions, proposals, lifePreviews, bootstraps>>
  /\ call' = [call EXCEPT ![c] = Idle]
  /\ UNCHANGED <<life, generation, events, checkpoints>>

BootstrapStart(c, ids) ==
  \/ \E kind \in {"project", "task"}, t \in ids : StartBootstrap(c, kind, t[1], t[2])
  \/ \E i \in DOMAIN bootstraps, confirmed \in {"yes", "no"} : DecideBootstrap(c, i, confirmed)

BootstrapStep(c) == ReadBootstrap(c) \/ InsertBootstrap(c) \/ ConfirmBootstrap(c)

=============================================================================
