----------------------------- MODULE ProjectTree -----------------------------
(***************************************************************************)
(* The projects of one owner and their lifecycle (server/lib/lifecycle):   *)
(* a project is active, deleted (and may be restored) or merged into       *)
(* another one, where its records are then read and written.  A change is  *)
(* previewed and confirmed, and each one advances the owner's lifecycle    *)
(* generation, to which previews and proposals elsewhere are bound.        *)
(***************************************************************************)
EXTENDS Naturals, FiniteSets

CONSTANTS
  Projects,        \* project ids; also their names, from which bootstrap derives the ids
  MaxDepth,        \* MAX_CHAIN_DEPTH
  MaxMembers,      \* MAX_SOURCE_MEMBERS
  MaxGeneration    \* bound on the number of lifecycle changes

VARIABLES
  names,           \* the projects table: the name of each project, or None
  life,            \* the project_lifecycle table
  generation,      \* owner_lifecycle_generation
  lifePreviews     \* the pending rows of project_lifecycle_previews

treeVars == <<names, life, generation, lifePreviews>>

None == "none"
Actions == {"delete", "restore", "merge"}
Active == [state |-> "active", into |-> None]

ASSUME TreeAssumption ==
  /\ None \notin Projects /\ IsFiniteSet(Projects)
  /\ MaxDepth \in Nat /\ MaxMembers \in Nat /\ MaxGeneration \in Nat

TreeTypeOK ==
  /\ names \in [Projects -> Projects \cup {None}]
  /\ life \in [Projects -> [state : {"active", "deleted", "merged"}, into : Projects \cup {None}]]
  /\ generation \in 0..MaxGeneration
  /\ lifePreviews \subseteq [action : Actions, project : Projects, target : Projects \cup {None},
                             generation : 0..MaxGeneration, epoch : {"same", "moved"}]

-----------------------------------------------------------------------------
\* Where a chain of merges has led after at most n steps, for each project.
Reach[n \in 0..MaxDepth] ==
  [p \in Projects |->
     IF n = 0 THEN p
     ELSE LET q == Reach[n - 1][p] IN
          IF life[q].state = "merged" THEN life[q].into ELSE q]

Owned(p) == names[p] # None
Canonical(p) == Reach[MaxDepth][p]
Resolves(p) == life[Canonical(p)].state # "merged"
Dead(p) == Owned(p) /\ life[Canonical(p)].state = "deleted"
Live(p) == Owned(p) /\ ~Dead(p)
IsCanonical(p) == Live(p) /\ Canonical(p) = p
Members(c) == {p \in Projects : Owned(p) /\ Canonical(p) = c}
DepthTo(p, c) == CHOOSE n \in 0..MaxDepth : Reach[n][p] = c /\ \A k \in 0..(n - 1) : Reach[k][p] # c

\* The project a new record naming p goes to: the canonical one, unless the
\* record already is in a project that resolves to the same; a deleted p is refused.
Writable(p) == ~Dead(p)
Route(p, origin) ==
  IF ~Owned(p) THEN p
  ELSE IF origin # None /\ (origin = p \/ (Live(origin) /\ Canonical(origin) = Canonical(p)))
       THEN origin ELSE Canonical(p)

\* Every write to a material table moves the owner's epoch, which outdates the
\* previews taken before it.
EpochMoved == {[v EXCEPT !.epoch = "moved"] : v \in lifePreviews}

-----------------------------------------------------------------------------
SubjectUnlimited(action, p, q) ==
  /\ Owned(p) /\ Canonical(p) = p
  /\ life[p].state = IF action = "restore" THEN "deleted" ELSE "active"
  /\ IF action # "merge" THEN q = None ELSE q # None /\ IsCanonical(q) /\ q # p

\* What a change requires of the projects it names.
Subject(action, p, q) ==
  /\ Owned(p) /\ Canonical(p) = p
  /\ life[p].state = IF action = "restore" THEN "deleted" ELSE "active"
  /\ IF action # "merge" THEN q = None
     ELSE /\ q # None /\ IsCanonical(q) /\ q # p
          /\ Cardinality(Members(q)) - 1 + Cardinality(Members(p)) <= MaxMembers
          /\ \A m \in Members(p) : DepthTo(m, p) + 1 <= MaxDepth

Preview(action, p, q) ==
  /\ Subject(action, p, q)
  /\ lifePreviews' = lifePreviews \cup
       {[action |-> action, project |-> p, target |-> q, generation |-> generation, epoch |-> "same"]}
  /\ UNCHANGED <<names, life, generation>>

\* One transaction: everything the preview was bound to is recomputed.
Confirm(v) ==
  /\ v.epoch = "same" /\ v.generation = generation
  /\ Subject(v.action, v.project, v.target)
  /\ generation < MaxGeneration
  /\ generation' = generation + 1
  /\ life' = [life EXCEPT ![v.project] =
       CASE v.action = "delete" -> [state |-> "deleted", into |-> None]
         [] v.action = "restore" -> Active
         [] v.action = "merge" -> [state |-> "merged", into |-> v.target]]
  /\ lifePreviews' = {}
  /\ UNCHANGED names

\* A preview that was not confirmed in time is removed.
Expired(v) ==
  /\ lifePreviews' = lifePreviews \ {v}
  /\ UNCHANGED <<names, life, generation>>

\* POST /v1/projects, the admin command and the console's edit of a project: one transaction.
UpsertProject(p, name) ==
  /\ ~Owned(p) \/ IsCanonical(p)
  /\ names' = [names EXCEPT ![p] = name]
  /\ lifePreviews' = EpochMoved
  /\ UNCHANGED <<life, generation>>

\* Changes that may be asked for, previews that may be open, changes made at most.
LifecycleNext(asked, previews, changes) ==
  \/ /\ Cardinality(lifePreviews) < previews /\ generation < changes
     /\ \E a \in asked : Preview(a[1], a[2], a[3])
  \/ \E v \in lifePreviews : Confirm(v) \/ Expired(v)

-----------------------------------------------------------------------------
\* However projects are merged, deleted and restored, resolving a project never
\* fails: no chain is longer than MAX_CHAIN_DEPTH or runs in a circle, and no
\* project collects more than MAX_SOURCE_MEMBERS sources (ProjectLifecycle.resolve
\* and members throw PROJECT_LIFECYCLE_CORRUPT, and the server does not start).
Resolvable ==
  \A p \in Projects : Owned(p) =>
    /\ Resolves(p) /\ Owned(Canonical(p))
    /\ Cardinality(Members(Canonical(p))) - 1 <= MaxMembers

=============================================================================
