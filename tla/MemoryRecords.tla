---------------------------- MODULE MemoryRecords ----------------------------
(***************************************************************************)
(* The memories of one owner in one project: saving, correcting,           *)
(* retracting (server/lib/store.mjs), the same from a cloud connection     *)
(* (memory/cloud.mjs) and from the review pages of the console             *)
(* (console/memory-review.mjs), and their revisions (memory/revisions.mjs).*)
(*                                                                         *)
(* A memory's text never changes: a correction is a new memory that        *)
(* supersedes the old one.  So a memory has revision 1 while it is active  *)
(* and revision 2 once it is superseded or retracted, and the hash of a    *)
(* revision is told apart by its number.                                   *)
(***************************************************************************)
EXTENDS Naturals, FiniteSets

CONSTANTS
  Memories,      \* memory ids, in the order of their creation
  Contents,      \* texts
  Categories,    \* categories the owner may set by hand
  Operations,    \* operation ids of callers
  Reviewers,     \* open review pages
  MaxLifecycle   \* bound: deletions and restores of the project

ASSUME MemoriesAssumption ==
  /\ Memories \subseteq Nat \ {0} /\ IsFiniteSet(Memories)
  /\ \A m \in Memories : 1..m \subseteq Memories
ASSUME OperationsAssumption == Operations \subseteq Nat
ASSUME LifecycleAssumption == MaxLifecycle \in Nat

VARIABLES
  memory,        \* memories, with memory_category_overrides
  live,          \* the project is not deleted
  lifecycle,     \* the lifecycle generation of the owner
  request,       \* memory_create_operations and cloud_memory_operations
  candidate,     \* memory_review_candidates of one excerpt, by the lifecycle
                 \* generation its source hash was taken in
  reviewer       \* what the reader of a review page saw

records == <<memory, live, lifecycle, request, candidate, reviewer>>

NoId == 0
None == "none"
Generations0 == 0..MaxLifecycle

\* What made a memory: an operation, a reviewed candidate, or neither.
Origin == [kind : {None, "operation", "candidate"}, id : Nat]
NoOrigin == [kind |-> None, id |-> 0]

Row == [status : {None, "active", "superseded", "retracted"},
        content : Contents \cup {None}, category : Categories \cup {None},
        from : Memories \cup {NoId}, by : Memories \cup {NoId}, origin : Origin]
NoRow == [status |-> None, content |-> None, category |-> None,
          from |-> NoId, by |-> NoId, origin |-> NoOrigin]

Request == [kind : {None, "save", "supersede", "retract"},
            target : Memories \cup {NoId}, content : Contents \cup {None}]
NoRequest == [kind |-> None, target |-> NoId, content |-> None]

Away == [pc |-> "away"]

InitRecords ==
  /\ memory = [m \in Memories |-> NoRow]
  /\ live = TRUE
  /\ lifecycle = 0
  /\ request = [o \in Operations |-> NoRequest]
  /\ candidate = [g \in Generations0 |-> None]
  /\ reviewer = [k \in Reviewers |-> Away]

-----------------------------------------------------------------------------
Exists(m) == memory[m].status # None
Active(m) == memory[m].status = "active"
\* revisions.latest
Revision(m) == IF Active(m) THEN 1 ELSE IF Exists(m) THEN 2 ELSE 0
\* derivedMemory.currentSource returns a source.
Current(m) == Active(m) /\ live

Fresh(m) == ~Exists(m) /\ \A n \in Memories : n < m => Exists(n)
\* saveScrubbedMemory: the row it inserts.
Saved(m, c, origin) ==
  [memory EXCEPT ![m] = [NoRow EXCEPT !.status = "active", !.content = c,
                                      !.origin = origin]]

\* Fault: whoever corrects a memory last is believed, also when it was
\* corrected meanwhile.
MaySupersedeAny(m) == Exists(m) /\ memory[m].status # "retracted"
\* Only an active memory is corrected or retracted.
MaySupersede(m) == Active(m)
\* supersedeScrubbedMemory: the original and its replacement, which inherits
\* the category.
Superseded(m, n, c, origin) ==
  [Saved(n, c, origin) EXCEPT
     ![m].status = "superseded", ![m].by = n,
     ![n].from = m, ![n].category = memory[m].category]
\* retractScrubbedMemory
Retracted(m) == [memory EXCEPT ![m].status = "retracted"]

-----------------------------------------------------------------------------
(* Agents and the owner *)

Unused(o) == request[o].kind = None
Recorded(o, kind, m, c) ==
  request' = [request EXCEPT ![o] = [kind |-> kind, target |-> m, content |-> c]]

\* saveMemory: a used operation id answers with its memory or is refused, and
\* changes nothing.
MaySave(o) == live /\ Unused(o)
Save(o, c, m) ==
  /\ MaySave(o) /\ Fresh(m)
  /\ memory' = Saved(m, c, [kind |-> "operation", id |-> o])
  /\ Recorded(o, "save", m, c)
  /\ UNCHANGED <<live, lifecycle, candidate, reviewer>>

Supersede(m, n, c) ==
  /\ live /\ MaySupersede(m) /\ Fresh(n)
  /\ memory' = Superseded(m, n, c, NoOrigin)
  /\ UNCHANGED <<live, lifecycle, request, candidate, reviewer>>
Retract(m) ==
  /\ live /\ MaySupersede(m)
  /\ memory' = Retracted(m)
  /\ UNCHANGED <<live, lifecycle, request, candidate, reviewer>>

\* CloudMemory.executeWithResult: a correction or retraction of the revision
\* the connection has read.
CloudSupersede(o, m, revision, n, c) ==
  /\ Unused(o) /\ Exists(m) /\ live
  /\ revision = Revision(m) /\ MaySupersede(m) /\ Fresh(n)
  /\ memory' = Superseded(m, n, c, [kind |-> "operation", id |-> o])
  /\ Recorded(o, "supersede", m, c)
  /\ UNCHANGED <<live, lifecycle, candidate, reviewer>>
CloudRetract(o, m, revision) ==
  /\ Unused(o) /\ Exists(m) /\ live
  /\ revision = Revision(m) /\ MaySupersede(m)
  /\ memory' = Retracted(m)
  /\ Recorded(o, "retract", m, None)
  /\ UNCHANGED <<live, lifecycle, candidate, reviewer>>

\* derivedMemory.setCategory
SetCategory(m, c) ==
  /\ Current(m) /\ memory[m].category # c
  /\ memory' = [memory EXCEPT ![m].category = c]
  /\ UNCHANGED <<live, lifecycle, request, candidate, reviewer>>

\* The lifecycle of the project, as far as its memories notice.
DeleteProject ==
  /\ live /\ lifecycle < MaxLifecycle
  /\ live' = FALSE /\ lifecycle' = lifecycle + 1
  /\ UNCHANGED <<memory, request, candidate, reviewer>>
RestoreProject ==
  /\ ~live /\ lifecycle < MaxLifecycle
  /\ live' = TRUE /\ lifecycle' = lifecycle + 1
  /\ UNCHANGED <<memory, request, candidate, reviewer>>

-----------------------------------------------------------------------------
(* The review pages *)

\* review.extract: the rules find one excerpt in the event; its id holds the
\* source hash and so the lifecycle generation.
Extract ==
  /\ live /\ candidate[lifecycle] = None
  /\ candidate' = [candidate EXCEPT ![lifecycle] = "pending"]
  /\ UNCHANGED <<memory, live, lifecycle, request, reviewer>>

OpenCandidate(g) == candidate[g] = "pending"
\* review.candidate: the source hash of the candidate is still that of its
\* event, and nobody has decided yet.
Accept(g, c, m) ==
  /\ live /\ g = lifecycle /\ OpenCandidate(g) /\ Fresh(m)
  /\ memory' = Saved(m, c, [kind |-> "candidate", id |-> g])
  /\ candidate' = [candidate EXCEPT ![g] = "accepted"]
  /\ UNCHANGED <<live, lifecycle, request, reviewer>>
Dismiss(g) ==
  /\ live /\ g = lifecycle /\ OpenCandidate(g)
  /\ candidate' = [candidate EXCEPT ![g] = "dismissed"]
  /\ UNCHANGED <<memory, live, lifecycle, request, reviewer>>

\* Fault: the version names the project's state, not its generation.
SourceVersionLive(m) ==
  [revision |-> Revision(m), lifecycle |-> IF live THEN 0 ELSE 1]
\* ConsoleMemoryReview.sourceVersion
SourceVersion(m) == [revision |-> Revision(m), lifecycle |-> lifecycle]

\* The page memory-review of two memories.  `rows` and `at` are not in the
\* code: what the reader saw.
Look(k, l, r) ==
  /\ reviewer[k].pc = "away"
  /\ l # r /\ Current(l) /\ Current(r)
  /\ reviewer' = [reviewer EXCEPT ![k] =
       [pc |-> "reading", left |-> l, right |-> r,
        versions |-> <<SourceVersion(l), SourceVersion(r)>>,
        rows |-> <<memory[l], memory[r]>>, at |-> lifecycle]]
  /\ UNCHANGED <<memory, live, lifecycle, request, candidate>>

AsRead(k) ==
  /\ Current(reviewer[k].left) /\ Current(reviewer[k].right)
  /\ SourceVersion(reviewer[k].left) = reviewer[k].versions[1]
  /\ SourceVersion(reviewer[k].right) = reviewer[k].versions[2]

\* review.resolve with the decision replace, and with retract_duplicate.  The
\* other decisions only write the review itself, as review.verify does.
Replace(k, n) ==
  /\ reviewer[k].pc = "reading" /\ AsRead(k) /\ Fresh(n)
  /\ memory' = Superseded(reviewer[k].left, n,
                          memory[reviewer[k].right].content, NoOrigin)
  /\ reviewer' = [reviewer EXCEPT ![k].pc = "decided"]
  /\ UNCHANGED <<live, lifecycle, request, candidate>>
RetractDuplicate(k) ==
  /\ reviewer[k].pc = "reading" /\ AsRead(k)
  /\ memory' = Retracted(reviewer[k].left)
  /\ reviewer' = [reviewer EXCEPT ![k].pc = "decided"]
  /\ UNCHANGED <<live, lifecycle, request, candidate>>

RecordStep ==
  \/ \E o \in Operations, c \in Contents, m \in Memories : Save(o, c, m)
  \/ \E m, n \in Memories, c \in Contents : Supersede(m, n, c)
  \/ \E m \in Memories : Retract(m)
  \/ \E o \in Operations, m, n \in Memories, r \in 1..2, c \in Contents :
       CloudSupersede(o, m, r, n, c)
  \/ \E o \in Operations, m \in Memories, r \in 1..2 : CloudRetract(o, m, r)
ReviewStep ==
  \/ Extract
  \/ \E g \in Generations0 : Dismiss(g)
  \/ \E g \in Generations0, c \in Contents, m \in Memories : Accept(g, c, m)
  \/ \E k \in Reviewers :
       \/ \E l, r \in Memories : Look(k, l, r)
       \/ \E n \in Memories : Replace(k, n)
       \/ RetractDuplicate(k)
SourceStep ==
  \/ \E m \in Memories, c \in Categories : SetCategory(m, c)
  \/ DeleteProject
  \/ RestoreProject

-----------------------------------------------------------------------------
(* Properties *)

\* Corrections form chains: a superseded memory has one replacement, made
\* after it, that says so; and no operation id and no candidate made two
\* memories, however often it was sent.
Lineage ==
  /\ \A m \in Memories :
       /\ memory[m].by # NoId <=> memory[m].status = "superseded"
       /\ memory[m].by # NoId => /\ memory[m].by > m
                                 /\ memory[memory[m].by].from = m
       /\ memory[m].from # NoId => memory[memory[m].from].by = m
  /\ \A m, n \in Memories :
       m # n /\ memory[m].origin = memory[n].origin =>
         memory[m].origin = NoOrigin

Version == [revision : 0..2, lifecycle : Generations0]
Page == [pc : {"reading", "decided"}, left : Memories, right : Memories,
         versions : Version \X Version, rows : Row \X Row, at : Generations0]

RecordsTypeOK ==
  /\ memory \in [Memories -> Row]
  /\ live \in BOOLEAN
  /\ lifecycle \in Generations0
  /\ request \in [Operations -> Request]
  /\ candidate \in [Generations0 -> {None, "pending", "accepted", "dismissed"}]
  /\ reviewer \in [Reviewers -> {Away} \cup Page]

Unchanged(seen, row) ==
  seen.status = row.status /\ seen.content = row.content /\ seen.by = row.by

\* A decision on the review page changes the memories only as its reader saw
\* them, both of them: no correction, retraction, or deletion and restore of
\* the project came in between.
AsSeenStep ==
  \A k \in Reviewers :
    reviewer[k].pc = "reading" /\ reviewer'[k].pc = "decided" =>
      /\ live /\ reviewer[k].at = lifecycle
      /\ Unchanged(reviewer[k].rows[1], memory[reviewer[k].left])
      /\ Unchanged(reviewer[k].rows[2], memory[reviewer[k].right])

-----------------------------------------------------------------------------
(* Inductive strengthenings *)

\* Memories are made in order, and what is not made is blank.
InOrderMade ==
  /\ \A m, n \in Memories : n < m /\ Exists(m) => Exists(n)
  /\ \A m \in Memories : ~Exists(m) => memory[m] = NoRow

\* What made a memory is used up.
OriginsUsed ==
  \A m \in Memories :
    /\ memory[m].origin.kind = "operation" =>
         /\ memory[m].origin.id \in Operations
         /\ ~Unused(memory[m].origin.id)
    /\ memory[m].origin.kind = "candidate" =>
         /\ memory[m].origin.id \in Generations0
         /\ candidate[memory[m].origin.id] = "accepted"

\* A reader saw two active memories, at the versions the page was made with.
PagesRead ==
  \A k \in Reviewers :
    reviewer[k].pc = "reading" =>
      /\ \A i \in 1..2 :
           /\ reviewer[k].rows[i].status = "active"
           /\ reviewer[k].rows[i].by = NoId
           /\ reviewer[k].versions[i].revision = 1
           /\ reviewer[k].versions[i].lifecycle = reviewer[k].at
      /\ Exists(reviewer[k].left) /\ Exists(reviewer[k].right)
      /\ reviewer[k].rows[1].content = memory[reviewer[k].left].content
      /\ reviewer[k].rows[2].content = memory[reviewer[k].right].content
==============================================================================
