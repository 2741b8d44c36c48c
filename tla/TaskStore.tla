------------------------------ MODULE TaskStore ------------------------------
(***************************************************************************)
(* The central store: projects and their lifecycle, canonical tasks,       *)
(* reconciliation, bootstrap and capture on one database, with several     *)
(* connections at work on it.                                              *)
(***************************************************************************)
EXTENDS TaskBootstrap, Capture

CONSTANTS
  Capturers,       \* the callers that capture (the API server)
  Scenarios        \* initial databases and the operations that meet on them

VARIABLES
  scenario,
  calls            \* calls made so far, to bound them

vars == <<bootstrapVars, scenario, calls>>

Families == {"projects", "upsert", "edit", "reconcile", "bootstrap", "capture"}

ASSUME StoreAssumption ==
  /\ Capturers \subseteq Callers
  /\ Scenarios \subseteq [families : SUBSET Families, callers : SUBSET Callers,
                          projects : SUBSET Projects, tasks : SUBSET Tasks,
                          ids : SUBSET Projects, titles : SUBSET Titles, claims : SUBSET Claims,
                          requests : SUBSET SUBSET {o \in Operations : o.safe = "no"},
                          lifecycle : SUBSET (Actions \X Projects \X (Projects \cup {None})),
                          previews : Nat, changes : Nat, calls : Nat]

Does(family) == family \in scenario.families

Init ==
  /\ scenario \in Scenarios /\ calls = 0
  /\ names = [p \in Projects |-> IF p \in scenario.projects THEN p ELSE None]
  /\ life = [p \in Projects |-> Active]
  /\ generation = 0 /\ lifePreviews = {}
  /\ tasks = [t \in Tasks |->
       IF t \in scenario.tasks
       THEN [version |-> 1, content |-> [project |-> t[1], title |-> t[2], note |-> "out"]]
       ELSE [version |-> 0, content |-> NoContent]]
  /\ revisions = {[task |-> t, from |-> 0, to |-> 1, before |-> NoContent, after |-> tasks[t].content,
                   by |-> [source |-> "upsert", id |-> 0], saw |-> NoContent] : t \in scenario.tasks}
  /\ proposals = <<>> /\ bootstraps = <<>> /\ events = <<>> /\ checkpoints = {}
  /\ call = [c \in Callers |-> Idle]

\* A process dies between two statements of a call.
Crash(c) ==
  /\ call[c] # Idle
  /\ call' = [call EXCEPT ![c] = Idle]
  /\ UNCHANGED <<tasks, revisions, proposals, events, checkpoints, treeVars, bootstraps>>

\* Upserts are one transaction each, on a connection of their own.
Upsert ==
  /\ UNCHANGED bootstraps
  /\ \/ Does("projects") /\ UNCHANGED canonVars
          /\ \E p, name \in scenario.ids : UpsertProject(p, name)
     \/ /\ Does("upsert")
        /\ \E t \in scenario.ids \X scenario.titles, p \in scenario.ids, title \in scenario.titles :
             UpsertTask(t, p, title, "out")

NewCall ==
  /\ calls < scenario.calls /\ calls' = calls + 1
  /\ \/ Upsert
     \/ \E c \in scenario.callers :
          /\ call[c] = Idle
          /\ \/ Does("edit") /\ (\E t \in Tasks : OpenTask(c, t)) /\ UNCHANGED bootstraps
             \/ Does("reconcile") /\ ReconcileStart(c, scenario.requests) /\ UNCHANGED bootstraps
             \/ Does("bootstrap") /\ BootstrapStart(c, scenario.ids \X scenario.titles)
             \/ Does("capture") /\ c \in Capturers /\ CaptureStart(c, scenario.claims) /\ UNCHANGED bootstraps

CallStep(c) ==
  \/ /\ (\E title \in scenario.titles : UpdateTask(c, title)) \/ ReconcileStep(c) \/ CaptureStep(c)
     /\ UNCHANGED bootstraps
  \/ BootstrapStep(c)
  \/ Crash(c)

Step ==
  /\ \/ /\ LifecycleNext(scenario.lifecycle, scenario.previews, scenario.changes)
        /\ UNCHANGED <<canonVars, bootstraps>>
     \/ \E c \in scenario.callers : CallStep(c)
     \/ \E i \in DOMAIN bootstraps : BootstrapLate(i)
  /\ UNCHANGED calls

Next == scenario' = scenario /\ (NewCall \/ Step)

Spec == Init /\ [][Next]_vars

-----------------------------------------------------------------------------
TypeOK == TreeTypeOK /\ CanonTypeOK /\ BootstrapTypeOK /\ CaptureTypeOK

\* The revisions of a task are its complete history: one for each version, each
\* starting where the one before ended, the last ending in the task as it is.
Ledger ==
  \A t \in Tasks :
    LET own == {r \in revisions : r.task = t} IN
    /\ \A v \in 1..tasks[t].version : Cardinality({r \in own : r.to = v}) = 1
    /\ \A r \in own : /\ r.from = r.to - 1 /\ r.to <= tasks[t].version
                      /\ r.to = tasks[t].version => r.after = tasks[t].content
                      /\ \A q \in own : q.to = r.from => q.after = r.before

\* A change that somebody reviewed (a proposal, a bootstrap, a form of the
\* console) is made once, to the very content that was reviewed, and exactly the
\* proposals and previews that say so were made.
AsReviewed ==
  /\ \A r \in revisions : r.saw = r.before
  /\ \A i \in DOMAIN proposals :
       Cardinality({r \in revisions : r.by = [source |-> "proposal", id |-> i]})
         = IF proposals[i].status = "applied" THEN 1 ELSE 0
  /\ \A i \in DOMAIN bootstraps :
       Cardinality({r \in revisions : r.by = [source |-> "bootstrap", id |-> i]})
         = IF bootstraps[i].status = "confirmed" THEN 1 ELSE 0

\* No lifecycle change lies between what a proposal or preview was made from and
\* its effect, not even one that was undone: a restored project does not revive
\* the authority of what was pending when it was deleted.  The authority is that
\* of the row: of operations that a new proposal took over from a stale one, it
\* is the new proposal's.
FreshAuthority ==
  [][/\ \A i \in DOMAIN proposals :
          proposals[i].status # "applied" /\ proposals'[i].status = "applied" => proposals[i].read = generation
     /\ \A i \in DOMAIN bootstraps :
          bootstraps[i].status # "confirmed" /\ bootstraps'[i].status = "confirmed" => bootstraps[i].read = generation
    ]_vars

\* The name, the tasks, the events and the checkpoints of a deleted project stay
\* as they were until it is restored.  Its proposals are not covered: their
\* states may still change.
Holds(p) ==
  <<names[p], {<<t, tasks[t]>> : t \in {u \in Tasks : ProjectOf(u) = p}},
    {i \in DOMAIN events : events[i].project = p}, {k \in checkpoints : k.project = p}>>
FrozenWhileDeleted ==
  [][\A p \in Projects : Dead(p) /\ Dead(p)' => Holds(p)' = Holds(p)]_vars

\* An event is part of at most one checkpoint, and a trigger makes at most one.
EventOnce ==
  \A k, o \in checkpoints : k # o => k.sources \cap o.sources = {} /\ k.trigger # o.trigger

=============================================================================
