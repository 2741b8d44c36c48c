------------------------------- MODULE Capture -------------------------------
(***************************************************************************)
(* Capture of events and the checkpoints derived from them                 *)
(* (appendEvents, createCheckpointFromTrigger in server/lib/store.mjs), of *)
(* one workstream in one session.  An event reports an item for its task   *)
(* or none; a trigger event makes a checkpoint of the events since the     *)
(* last one, and the checkpoint goes to reconciliation.                    *)
(***************************************************************************)
EXTENDS TaskCanon, FiniteSetsExt

CONSTANTS
  MaxEvents,
  WindowLimit      \* CHECKPOINT_EVENT_LIMIT

Claims == {"none", "plain", "safe"}

ASSUME CaptureAssumption == MaxEvents \in Nat /\ WindowLimit \in Nat \ {0}

CaptureTypeOK ==
  /\ \A i \in DOMAIN events : /\ events[i].task \in Tasks /\ events[i].project \in Projects
                              /\ events[i].claim \in Claims /\ events[i].trigger \in {"yes", "no"}
  /\ \A k \in checkpoints : /\ k.trigger \in DOMAIN events /\ k.sources \subseteq DOMAIN events
                            /\ k.task \in Tasks /\ k.project \in Projects /\ k.claim \in Claims

-----------------------------------------------------------------------------
Checkpointing(i) == [at |-> "checkpoint", event |-> i]

\* A new event: one transaction.  A trigger goes on to its checkpoint.
AppendEvent(c, t, p, claim, trigger) ==
  /\ Len(events) < MaxEvents
  /\ TaskLive(t) /\ Writable(p)
  /\ events' = Append(events, [task |-> t, project |-> Route(p, None), claim |-> claim, trigger |-> trigger])
  /\ call' = [call EXCEPT ![c] = IF trigger = "yes" THEN Checkpointing(Len(events) + 1) ELSE Idle]
  /\ lifePreviews' = EpochMoved
  /\ UNCHANGED <<tasks, revisions, proposals, checkpoints, names, life, generation>>

\* A trigger that was delivered before is ignored as an event and checkpointed
\* again; createCheckpoint asks for one of the last event.
RepeatTrigger(c, i) ==
  /\ events[i].trigger = "yes" \/ i = Len(events)
  /\ call' = [call EXCEPT ![c] = Checkpointing(i)]
  /\ UNCHANGED <<tasks, revisions, proposals, events, checkpoints, treeVars>>

\* The last checkpoint of the task in this session, and the live events since.
Previous(t) == {0} \cup {k.trigger : k \in {j \in checkpoints :
                 j.task = t /\ \A o \in checkpoints : o.task = t => o.version <= j.version}}
WindowFromPrevious(i) ==
  LET t == events[i].task IN {j \in Max(Previous(t))..i : j > 0 /\ events[j].task = t /\ Live(events[j].project)}

Window(i) ==
  LET t == events[i].task
      since == {j \in (Max(Previous(t)) + 1)..i : events[j].task = t /\ Live(events[j].project)}
  IN {j \in since : Cardinality({o \in since : o > j}) < WindowLimit}

\* An item the task already has is not reported; of several reports of one item
\* the first counts, which is safe only as the last outcome of the window.
ClaimOf(t, window) ==
  LET claims == {j \in window : events[j].claim # "none"}
  IN IF claims = {} \/ tasks[t].content.note = "in" THEN "none"
     ELSE IF Cardinality(claims) = 1 THEN events[Max(claims)].claim ELSE "plain"

ReadWindow(c) ==
  LET i == call[c].event
      t == events[i].task
      made == {k \in checkpoints : k.trigger = i}
      window == Window(i)
  IN
  /\ call[c].at = "checkpoint"
  /\ call' = [call EXCEPT ![c] =
       IF made # {} THEN IF (\A k \in made : Live(k.project)) /\ TaskLive(t)
                         THEN Observed(t, {}, {i}, "yes", "yes") ELSE Idle
       ELSE IF ~Exists(t) \/ ~TaskLive(t) \/ window = {} THEN Idle
       ELSE [at |-> "insert_checkpoint", event |-> i, sources |-> window, claim |-> ClaimOf(t, window),
             version |-> 1 + Max({0} \cup {k.version : k \in {j \in checkpoints : j.task = t}})]]
  /\ UNCHANGED <<tasks, revisions, proposals, events, checkpoints, treeVars>>

\* One transaction, then the checkpoint's reconciliation.
InsertCheckpointUnchecked(c) ==
  LET i == call[c].event
      t == events[i].task
  IN
  /\ call[c].at = "insert_checkpoint"
  /\ checkpoints' = checkpoints \cup
       {[trigger |-> i, task |-> t, project |-> Canonical(events[i].project), sources |-> call[c].sources,
         version |-> call[c].version, claim |-> call[c].claim]}
  /\ lifePreviews' = EpochMoved
  /\ call' = [call EXCEPT ![c] = Observed(t, {}, {i}, "yes", "yes")]
  /\ UNCHANGED <<tasks, revisions, proposals, events, names, life, generation>>

InsertCheckpoint(c) ==
  LET i == call[c].event
      t == events[i].task
      unique == \A k \in checkpoints : /\ k.task = t => k.version # call[c].version
                                       /\ k.sources # call[c].sources
  IN
  /\ call[c].at = "insert_checkpoint"
  /\ IF TaskLive(t) /\ Writable(events[i].project) /\ unique
     THEN /\ checkpoints' = checkpoints \cup
               {[trigger |-> i, task |-> t, project |-> Route(events[i].project, None),
                 sources |-> call[c].sources, version |-> call[c].version, claim |-> call[c].claim]}
          /\ lifePreviews' = EpochMoved
          /\ call' = [call EXCEPT ![c] = Observed(t, {}, {i}, "yes", "yes")]
     ELSE /\ call' = [call EXCEPT ![c] = Idle]
          /\ UNCHANGED <<checkpoints, lifePreviews>>
  /\ UNCHANGED <<tasks, revisions, proposals, events, names, life, generation>>

CaptureStart(c, claims) ==
  \/ \E t \in {u \in Tasks : Exists(u)}, p \in {q \in Projects : Owned(q)}, claim \in claims,
        trigger \in {"yes", "no"} : AppendEvent(c, t, p, claim, trigger)
  \/ \E i \in DOMAIN events : RepeatTrigger(c, i)

CaptureStep(c) == ReadWindow(c) \/ InsertCheckpoint(c)

=============================================================================
