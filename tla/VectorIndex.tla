----------------------------- MODULE VectorIndex -----------------------------
(***************************************************************************)
(* The semantic index of the memories (server/lib/vector-stores/index.mjs).*)
(* SQLite holds the generations, their documents and the points that were  *)
(* confirmed; the points themselves are in a vector database that is       *)
(* reached over the network (qdrant.mjs).                                  *)
(*                                                                         *)
(* One action is what a call does between two awaits: it takes the answer  *)
(* of its last request, checks that it still holds the lease of the        *)
(* generation and that its source is still current, commits, and sends the *)
(* next request.  A request may be lost, its answer may be lost, and it    *)
(* may arrive after its sender gave up.                                    *)
(***************************************************************************)
EXTENDS MemoryRecords

CONSTANTS
  Generations,   \* generations the owner may build
  Callers,       \* concurrent sync, catchUp, repairSelected and reconcile calls
  Layouts,       \* chunks a text is split into, by the model's request limits
  MaxCalls,      \* bound: calls that acquire a lease
  MaxStray,      \* bound: requests under way after their sender gave up
  MaxPauses      \* bound: leases taken away by a pause, changes of the limits

ASSUME LayoutsAssumption == Layouts \subseteq Nat \ {0}
ASSUME NamesAssumption ==
  "no generation" \notin Generations /\ "nobody" \notin Callers

VARIABLES
  generation,    \* memory_vector_generations
  serving,       \* memory_vector_owner_active
  document,      \* memory_vector_documents
  mapped,        \* memory_vector_points
  manifest,      \* memory_vector_manifest
  published,     \* points of the collection with lifecycle 'active'
  building,      \* points of the collection with lifecycle 'building'
  caller,        \* what each call remembers, and the request it waits for
  stray,         \* requests whose sender no longer waits
  layout,        \* how the current limits split a text
  quiet,         \* history: every request arrived under its sender's lease
  lost,          \* history: mapped points that a request removed from the
                 \* collection
  calls, pauses

remote == <<published, building>>
local == <<generation, serving, document, mapped, manifest>>
history == <<quiet, lost>>
index == <<local, remote, caller, stray, layout, history, calls, pauses>>

-----------------------------------------------------------------------------
(* State spaces *)

Nobody == "nobody"
NoGeneration == "no generation"

Source == [revision : 0..2, category : Categories \cup {None}]
NoSource == [revision |-> 0, category |-> None]
\* What validateItem compares: revision and state hash, which the owner's
\* category is part of.  The scope of a memory never changes.
SourceOf(m) == [revision |-> Revision(m), category |-> memory[m].category]

\* A point's id is a hash of its build (memory, source and layout) and chunk.
Point(m, s, l, c) ==
  [memory |-> m, source |-> s, layout |-> l, chunk |-> c]
Build(m, s, l) == {Point(m, s, l, c) : c \in 1..l}
PointsOf(m, S) == {p \in S : p.memory = m}

NoDocument == [state |-> None, source |-> NoSource]
NoItem == [state |-> None, source |-> NoSource]
NoPins == [m \in {} |-> NoSource]
NewGeneration == [state |-> None, fence |-> 0, owner |-> Nobody, lease |-> "null"]
Idle == [pc |-> "idle", kind |-> None, generation |-> NoGeneration, fence |-> 0,
         todo |-> {}, memory |-> NoId, source |-> NoSource, layout |-> 0,
         points |-> {}, page |-> {}, pins |-> NoPins]

InitIndex ==
  /\ generation = [g \in Generations |-> NewGeneration]
  /\ serving = NoGeneration
  /\ document = [g \in Generations |-> [m \in Memories |-> NoDocument]]
  /\ mapped = [g \in Generations |-> {}]
  /\ manifest = [g \in Generations |-> [m \in Memories |-> NoItem]]
  /\ published = [g \in Generations |-> {}]
  /\ building = [g \in Generations |-> {}]
  /\ caller = [w \in Callers |-> Idle]
  /\ stray = {}
  /\ layout \in Layouts
  /\ quiet = TRUE
  /\ lost = [g \in Generations |-> {}]
  /\ calls = 0 /\ pauses = 0

-----------------------------------------------------------------------------
(* What the code tests *)

\* owns(); the random lease_owner of a call is told apart by its fence.
Owns(w) ==
  LET row == generation[caller[w].generation] IN
  row.fence = caller[w].fence /\ row.owner = w /\ row.lease = "future"

\* validateItem on the source a call is indexing
Valid(w) ==
  Current(caller[w].memory) /\ SourceOf(caller[w].memory) = caller[w].source
Frozen(g) == \E m \in Memories : manifest[g][m].state # None
UpToDate(g, m) ==
  document[g][m].state = "indexed" /\ document[g][m].source = SourceOf(m)

\* An explicit repair: all memories it was asked for are still at the
\* revisions it was asked for, and the generation still serves.
Pinned(w) ==
  caller[w].kind = "repair" =>
    /\ serving = caller[w].generation
    /\ \A m \in DOMAIN caller[w].pins :
         Current(m) /\ SourceOf(m) = caller[w].pins[m]
Checked(w) == Owns(w) /\ Valid(w) /\ Pinned(w)

Expected(w) == Build(caller[w].memory, caller[w].source, caller[w].layout)

-----------------------------------------------------------------------------
(* Requests *)

\* What a request does to the collection; `keep` is the revision that the
\* first deletion of indexSource spares.
Sent(w) ==
  [kind |-> caller[w].pc, generation |-> caller[w].generation,
   fence |-> caller[w].fence, memory |-> caller[w].memory,
   keep |-> caller[w].source.revision, points |-> caller[w].points]

Doomed(r, S) ==
  CASE r.kind = "prune" -> {p \in PointsOf(r.memory, S) : p.source.revision # r.keep}
    [] r.kind \in {"drop", "remove"} -> S \cap r.points
    [] r.kind = "hide" -> PointsOf(r.memory, S)
    [] r.kind = "upsert" -> S \cap r.points
    [] OTHER -> {}

Arrives(r) ==
  LET g == r.generation
      lit == IF r.kind = "publish" THEN building[g] \cap r.points ELSE {}
      dark == IF r.kind = "upsert" THEN r.points ELSE {}
  IN
  /\ published' = [published EXCEPT ![g] = (@ \ Doomed(r, @)) \cup lit]
  /\ building' = [building EXCEPT ![g] = ((@ \ Doomed(r, @)) \ lit) \cup dark]
  /\ quiet' = (quiet /\ generation[g].fence = r.fence
                     /\ generation[g].lease = "future")

\* What is mapped and gone, once the mapping after the request is known.
Loses(r) ==
  LET g == r.generation
      dark == IF r.kind = "upsert" THEN r.points ELSE {}
  IN lost' = [lost EXCEPT ![g] =
       ((@ \cup Doomed(r, published[g] \cup building[g])) \ dark) \cap mapped'[g]]

\* The finally of every call: the lease is released if it is still its own.
Released(w) ==
  LET g == caller[w].generation IN
  IF generation[g].fence = caller[w].fence /\ generation[g].owner = w
  THEN [generation EXCEPT ![g].owner = Nobody, ![g].lease = "null"]
  ELSE generation
Goes(w, row) == caller' = [caller EXCEPT ![w] = row]
Ends(w) == generation' = Released(w) /\ Goes(w, Idle)

\* indexRecord's catch: a source that went stale is hidden, anything else
\* ends the call.  An explicit repair hides nothing.
Stops(w) ==
  IF Owns(w) /\ ~Valid(w) /\ caller[w].kind # "repair"
  THEN /\ Goes(w, [caller[w] EXCEPT !.pc = "hide"])
       /\ UNCHANGED generation
  ELSE Ends(w)

\* Where indexSource goes on, once `done` holds the confirmed points.
Onward(w, done) ==
  LET missing == Expected(w) \ done
      next == {p \in missing : \A q \in missing : p.chunk <= q.chunk}
  IN IF missing = {}
     THEN Goes(w, [caller[w] EXCEPT !.pc = "publish", !.points = Expected(w)])
     ELSE Goes(w, [caller[w] EXCEPT !.pc = "embed", !.points = next])

-----------------------------------------------------------------------------
(* Generations *)

Bare == UNCHANGED <<records, layout>>

\* begin(), with a manifest (the owner's first run) or without.
Begin(g, frozen) ==
  /\ generation[g].state = None
  /\ frozen => \E m \in Memories : Current(m)
  /\ generation' = [generation EXCEPT ![g].state = "building"]
  /\ manifest' = [manifest EXCEPT ![g] =
       [m \in Memories |-> IF frozen /\ Current(m)
                           THEN [state |-> "pending", source |-> SourceOf(m)]
                           ELSE NoItem]]
  /\ Bare
  /\ UNCHANGED <<serving, document, mapped, remote, caller, stray, history, calls, pauses>>

\* Full coverage, or a manifest without pending items.
Covers(g) ==
  IF Frozen(g) THEN \A m \in Memories : manifest[g][m].state # "pending"
  ELSE \A m \in Memories : Current(m) => UpToDate(g, m)

Activate(g) ==
  /\ \/ generation[g].state = "ready"
     \/ generation[g].state = "retired" /\ Frozen(g)
  /\ generation[g].lease # "future"
  /\ Covers(g)
  /\ generation' = [h \in Generations |->
       IF h = g THEN [generation[h] EXCEPT !.state = "active"]
       ELSE IF generation[h].state = "active"
       THEN [generation[h] EXCEPT !.state = "retired"] ELSE generation[h]]
  /\ serving' = g
  /\ Bare
  /\ UNCHANGED <<document, mapped, manifest, remote, caller, stray, history, calls, pauses>>

Deactivate(g) ==
  /\ serving = g
  /\ serving' = NoGeneration
  /\ generation' = [generation EXCEPT ![g].state = "ready"]
  /\ Bare
  /\ UNCHANGED <<document, mapped, manifest, remote, caller, stray, history, calls, pauses>>

\* OwnerControls.change on a run of this generation takes the lease away.
Pause(g) ==
  /\ pauses < MaxPauses
  /\ generation[g].owner # Nobody
  /\ generation' = [generation EXCEPT ![g].fence = @ + 1, ![g].owner = Nobody,
                                      ![g].lease = "null"]
  /\ pauses' = pauses + 1
  /\ Bare
  /\ UNCHANGED <<serving, document, mapped, manifest, remote, caller, stray, history, calls>>

LeaseExpires(g) ==
  /\ generation[g].lease = "future"
  /\ generation' = [generation EXCEPT ![g].lease = "past"]
  /\ Bare
  /\ UNCHANGED <<serving, document, mapped, manifest, remote, caller, stray, history, calls, pauses>>

\* Other request limits of the model split a text in other chunks.
NewLimits(l) ==
  /\ pauses < MaxPauses /\ l # layout
  /\ layout' = l
  /\ pauses' = pauses + 1
  /\ UNCHANGED <<records, local, remote, caller, stray, history, calls>>

-----------------------------------------------------------------------------
(* Calls *)

\* acquire(); sync() of a generation with a manifest is syncManifest().
Acquires(w, g, kind, todo, pins) ==
  /\ caller[w].pc = "idle" /\ calls < MaxCalls
  /\ kind # "reconcile" => generation[g].state \in {"building", "ready", "active"}
  /\ generation[g].state # None /\ generation[g].lease # "future"
  /\ generation' = [generation EXCEPT ![g].fence = @ + 1, ![g].owner = w,
                                      ![g].lease = "future"]
  /\ Goes(w, [Idle EXCEPT !.pc = IF kind = "reconcile" THEN "scroll" ELSE "ensure",
                          !.kind = kind, !.generation = g,
                          !.fence = generation[g].fence + 1, !.todo = todo,
                          !.pins = pins])
  /\ calls' = calls + 1
  /\ Bare
  /\ UNCHANGED <<serving, document, mapped, manifest, remote, stray, history, pauses>>

Sync(w, g) == Acquires(w, g, IF Frozen(g) THEN "manifest" ELSE "sync", {}, NoPins)

\* catchUpPending: what the generation lacks, and what it holds and should not.
Pending(g) ==
  {m \in Memories : Current(m) /\ ~UpToDate(g, m)} \cup
  {m \in Memories : ~Current(m) /\ document[g][m].state \in {"indexed", "building"}}
CatchUp(w, g) ==
  serving = g /\ Pending(g) # {} /\ Acquires(w, g, "catchup", Pending(g), NoPins)

\* repairSelected
Repair(w, g, items) ==
  /\ serving = g /\ items # {} /\ \A m \in items : Current(m)
  /\ \E m \in items : ~UpToDate(g, m)
  /\ Acquires(w, g, "repair", {m \in items : ~UpToDate(g, m)},
              [m \in items |-> SourceOf(m)])
Reconcile(w, g) == Acquires(w, g, "reconcile", {}, NoPins)

\* ensureCollection answers, and sync() reads what there is to do.
Ensured(w) ==
  LET g == caller[w].generation IN
  /\ caller[w].pc = "ensure"
  /\ Goes(w, [caller[w] EXCEPT !.pc = "loop",
       !.todo = CASE caller[w].kind = "sync" -> {m \in Memories : Exists(m)}
                  [] caller[w].kind = "manifest" ->
                       {m \in Memories : manifest[g][m].state = "pending"}
                  [] OTHER -> caller[w].todo])
  /\ Bare
  /\ UNCHANGED <<local, remote, stray, history, calls, pauses>>

Visited(w, m) ==
  Goes(w, [caller[w] EXCEPT !.pc = "loop", !.todo = @ \ {m}, !.memory = NoId,
                            !.source = NoSource, !.layout = 0, !.points = {}])

\* sync() passes by what is in place.
InPlace(g, m) ==
  \/ Current(m) /\ UpToDate(g, m)
  \/ /\ document[g][m].state = "hidden" /\ ~Current(m)
     /\ document[g][m].source.revision = Revision(m)

\* indexSource may go on with the points of an earlier attempt.
Reusable(g, m) ==
  document[g][m].state \in {"building", "indexed"} /\ document[g][m].source = SourceOf(m)
\* Fault: the points of any earlier attempt are kept.
ObsoleteNever(g, m) == {}
Obsolete(g, m) ==
  IF Reusable(g, m)
  THEN PointsOf(m, mapped[g]) \ Build(m, SourceOf(m), layout)
  ELSE PointsOf(m, mapped[g])

\* The next memory of the call: passed by, hidden, or indexed, when the
\* document becomes 'building' and the points of other revisions are deleted.
Visit(w, m) ==
  LET g == caller[w].generation
      wanted == /\ Current(m)
                /\ caller[w].kind = "manifest" => manifest[g][m].source = SourceOf(m)
      begins == [caller[w] EXCEPT !.pc = "prune", !.memory = m, !.source = SourceOf(m),
                                  !.layout = layout, !.points = Obsolete(g, m)]
  IN
  /\ caller[w].pc = "loop"
  /\ m \in caller[w].todo /\ \A n \in caller[w].todo : m <= n
  /\ \/ /\ caller[w].kind = "sync" /\ InPlace(g, m)
        /\ Visited(w, m)
        /\ UNCHANGED <<local, lost>>
     \/ /\ caller[w].kind = "sync" => ~InPlace(g, m)
        /\ Owns(w) /\ ~wanted /\ caller[w].kind # "repair"
        /\ Goes(w, [caller[w] EXCEPT !.pc = "hide", !.memory = m])
        /\ UNCHANGED <<local, lost>>
     \/ /\ caller[w].kind = "sync" => ~InPlace(g, m)
        /\ Owns(w) /\ wanted /\ Pinned(w)
        /\ document' = [document EXCEPT ![g][m] =
             [state |-> "building", source |-> SourceOf(m)]]
        /\ Goes(w, begins)
        /\ UNCHANGED <<generation, serving, mapped, manifest, lost>>
     \/ /\ caller[w].kind = "sync" => ~InPlace(g, m)
        /\ ~Owns(w) \/ (caller[w].kind = "repair" /\ ~(wanted /\ Pinned(w)))
        /\ Ends(w)
        /\ UNCHANGED <<serving, document, mapped, manifest, lost>>
  /\ Bare
  /\ UNCHANGED <<remote, stray, quiet, calls, pauses>>

\* The end of a call: of all it had to do (the generation is ready, unless it
\* was activated meanwhile), or of the documents it was allowed.
Finish(w) ==
  LET g == caller[w].generation
      kept == IF caller[w].kind = "manifest" THEN {"active", "retired"} ELSE {"active"}
      ready == /\ caller[w].todo = {} /\ caller[w].kind \in {"sync", "manifest"}
               /\ generation[g].fence = caller[w].fence
               /\ generation[g].state \notin kept
  IN
  /\ caller[w].pc = "loop"
  /\ generation' = IF ready THEN [Released(w) EXCEPT ![g].state = "ready"]
                   ELSE Released(w)
  /\ Goes(w, Idle)
  /\ Bare
  /\ UNCHANGED <<serving, document, mapped, manifest, remote, stray, history, calls, pauses>>

-----------------------------------------------------------------------------
(* Answers *)

\* The deletions of indexSource.
Pruned(w) ==
  LET g == caller[w].generation IN
  /\ caller[w].pc = "prune"
  /\ Arrives(Sent(w))
  /\ IF ~Checked(w) THEN Stops(w)
     ELSE /\ IF caller[w].points # {}
             THEN Goes(w, [caller[w] EXCEPT !.pc = "drop"])
             ELSE Onward(w, mapped[g])
          /\ UNCHANGED generation
  /\ Bare
  /\ UNCHANGED <<serving, document, mapped, manifest, stray, calls, pauses>>
  /\ Loses(Sent(w))
Dropped(w) ==
  LET g == caller[w].generation IN
  /\ caller[w].pc = "drop"
  /\ Arrives(Sent(w))
  /\ IF ~Checked(w) THEN Stops(w) /\ UNCHANGED mapped
     ELSE /\ mapped' = [mapped EXCEPT ![g] = @ \ caller[w].points]
          /\ Onward(w, mapped[g] \ caller[w].points)
          /\ UNCHANGED generation
  /\ Bare
  /\ UNCHANGED <<serving, document, manifest, stray, calls, pauses>>
  /\ Loses(Sent(w))

\* The vectors of the next chunk, and their upsert.
Embedded(w) ==
  /\ caller[w].pc = "embed"
  /\ IF ~Checked(w) THEN Stops(w)
     ELSE /\ Goes(w, [caller[w] EXCEPT !.pc = "upsert"])
          /\ UNCHANGED generation
  /\ Bare
  /\ UNCHANGED <<serving, document, mapped, manifest, remote, stray, history, calls, pauses>>
Upserted(w) ==
  LET g == caller[w].generation IN
  /\ caller[w].pc = "upsert"
  /\ Arrives(Sent(w))
  /\ IF ~Checked(w) THEN Stops(w) /\ UNCHANGED mapped
     ELSE /\ mapped' = [mapped EXCEPT ![g] = @ \cup caller[w].points]
          /\ Onward(w, mapped[g] \cup caller[w].points)
          /\ UNCHANGED generation
  /\ Bare
  /\ UNCHANGED <<serving, document, manifest, stray, calls, pauses>>
  /\ Loses(Sent(w))

Marked(g, w, state) ==
  manifest' = IF caller[w].kind = "manifest"
              THEN [manifest EXCEPT ![g][caller[w].memory].state = state]
              ELSE manifest

\* publishBuild, then the document is 'indexed'.
Published(w) ==
  LET g == caller[w].generation  m == caller[w].memory IN
  /\ caller[w].pc = "publish"
  /\ Arrives(Sent(w))
  /\ IF ~Checked(w) THEN Stops(w) /\ UNCHANGED <<document, manifest>>
     ELSE /\ document' = [document EXCEPT ![g][m].state = "indexed"]
          /\ Marked(g, w, "indexed")
          /\ Visited(w, m)
          /\ UNCHANGED generation
  /\ Bare
  /\ UNCHANGED <<serving, mapped, stray, calls, pauses>>
  /\ Loses(Sent(w))

\* hide(): all points of the document are deleted, then it is 'hidden'.
Hidden(w) ==
  LET g == caller[w].generation  m == caller[w].memory IN
  /\ caller[w].pc = "hide"
  /\ Arrives(Sent(w))
  /\ IF ~Owns(w)
     THEN Ends(w) /\ UNCHANGED <<document, mapped, manifest>>
     ELSE /\ document' = [document EXCEPT ![g][m] =
               [state |-> "hidden",
                source |-> [revision |-> Revision(m), category |-> None]]]
          /\ mapped' = [mapped EXCEPT ![g] = @ \ PointsOf(m, @)]
          /\ Marked(g, w, "stale")
          /\ Visited(w, m)
          /\ UNCHANGED generation
  /\ Bare
  /\ UNCHANGED <<serving, stray, calls, pauses>>
  /\ Loses(Sent(w))

\* reconcile(): the collection is listed, then what is not mapped to a current
\* source is deleted point by point.
Scrolled(w) ==
  LET g == caller[w].generation IN
  /\ caller[w].pc = "scroll"
  /\ IF Owns(w)
     THEN /\ Goes(w, [caller[w] EXCEPT !.pc = "sweep",
                                       !.page = published[g] \cup building[g]])
          /\ UNCHANGED generation
     ELSE Ends(w)
  /\ Bare
  /\ UNCHANGED <<serving, document, mapped, manifest, remote, stray, history, calls, pauses>>
Unwanted(g, p) ==
  p \notin mapped[g] \/ ~Current(p.memory) \/ Revision(p.memory) # p.source.revision
Sweep(w) ==
  LET g == caller[w].generation IN
  /\ caller[w].pc = "sweep"
  /\ \/ \E p \in caller[w].page :
          /\ Unwanted(g, p) /\ Owns(w)
          /\ Goes(w, [caller[w] EXCEPT !.pc = "remove", !.points = {p},
                                       !.page = @ \ {p}])
          /\ UNCHANGED generation
     \/ /\ ~Owns(w) \/ \A p \in caller[w].page : ~Unwanted(g, p)
        /\ Ends(w)
  /\ Bare
  /\ UNCHANGED <<serving, document, mapped, manifest, remote, stray, history, calls, pauses>>
Removed(w) ==
  /\ caller[w].pc = "remove"
  /\ Arrives(Sent(w))
  /\ IF Owns(w)
     THEN /\ Goes(w, [caller[w] EXCEPT !.pc = "sweep", !.points = {}])
          /\ UNCHANGED generation
     ELSE Ends(w)
  /\ Bare
  /\ UNCHANGED <<serving, document, mapped, manifest, stray, calls, pauses>>
  /\ Loses(Sent(w))

-----------------------------------------------------------------------------
(* Failures *)

Requesting(w) ==
  caller[w].pc \in {"prune", "drop", "upsert", "publish", "hide", "remove"}
\* A request nobody waits for any more is lost, arrives, or arrives later.
Unanswered(w) ==
  \/ UNCHANGED <<remote, stray, history>>
  \/ /\ Requesting(w)
     /\ Arrives(Sent(w)) /\ Loses(Sent(w))
     /\ UNCHANGED stray
  \/ /\ Requesting(w) /\ Cardinality(stray) < MaxStray
     /\ stray' = stray \cup {Sent(w)}
     /\ UNCHANGED <<remote, history>>

\* A request or the model fails.
Fails(w) ==
  /\ caller[w].pc \notin {"idle", "loop", "sweep"}
  /\ Ends(w)
  /\ Bare
  /\ UNCHANGED <<serving, document, mapped, manifest, calls, pauses>>
  /\ Unanswered(w)

\* The process of a call dies and leaves its lease behind.
Dies(w) ==
  /\ caller[w].pc # "idle"
  /\ Goes(w, Idle)
  /\ Bare
  /\ UNCHANGED <<local, calls, pauses>>
  /\ Unanswered(w)

ArrivesLate(r) ==
  /\ r \in stray
  /\ Arrives(r)
  /\ stray' = stray \ {r}
  /\ Bare
  /\ UNCHANGED <<local, caller, calls, pauses>>
  /\ Loses(r)

-----------------------------------------------------------------------------
CallStep(w) ==
  \/ Ensured(w) \/ (\E m \in Memories : Visit(w, m)) \/ Finish(w)
  \/ Pruned(w) \/ Dropped(w) \/ Embedded(w) \/ Upserted(w) \/ Published(w)
  \/ Hidden(w) \/ Scrolled(w) \/ Sweep(w) \/ Removed(w)
  \/ Fails(w) \/ Dies(w)
IndexStep ==
  \/ \E w \in Callers : CallStep(w)
  \/ \E r \in stray : ArrivesLate(r)
  \/ \E g \in Generations : Pause(g) \/ LeaseExpires(g)

CallBegins(w, g) ==
  \/ Sync(w, g) \/ CatchUp(w, g) \/ Reconcile(w, g)
  \/ \E items \in SUBSET Memories : Repair(w, g, items)
OwnerStep ==
  \/ \E g \in Generations :
       Begin(g, TRUE) \/ Begin(g, FALSE) \/ Activate(g) \/ Deactivate(g)
  \/ \E l \in Layouts : NewLimits(l)

vars == <<records, index>>

Next ==
  \/ (RecordStep \/ ReviewStep \/ SourceStep) /\ UNCHANGED index
  \/ IndexStep
  \/ \E w \in Callers, g \in Generations : CallBegins(w, g)
  \/ OwnerStep
Spec == InitRecords /\ InitIndex /\ [][Next]_vars

-----------------------------------------------------------------------------
(* Properties *)

Points == [memory : Memories, source : Source, layout : Layouts, chunk : Nat]
Pins == UNION {[S -> Source] : S \in SUBSET Memories}
Requests == {"prune", "drop", "upsert", "publish", "hide", "remove"}
CallerRow ==
  [pc : {"idle", "ensure", "loop", "embed", "scroll", "sweep"} \cup Requests,
   kind : {None, "sync", "manifest", "catchup", "repair", "reconcile"},
   generation : Generations \cup {NoGeneration}, fence : Nat,
   todo : SUBSET Memories, memory : Memories \cup {NoId}, source : Source,
   layout : Layouts \cup {0}, points : SUBSET Points, page : SUBSET Points,
   pins : Pins]
RequestRow ==
  [kind : Requests, generation : Generations, fence : Nat,
   memory : Memories \cup {NoId}, keep : 0..2, points : SUBSET Points]

IndexTypeOK ==
  /\ generation \in [Generations ->
       [state : {None, "building", "ready", "active", "retired"}, fence : Nat,
        owner : Callers \cup {Nobody}, lease : {"null", "future", "past"}]]
  /\ serving \in Generations \cup {NoGeneration}
  /\ \A g \in Generations : generation[g].state = "active" <=> serving = g
  /\ document \in [Generations -> [Memories ->
       [state : {None, "building", "indexed", "hidden"}, source : Source]]]
  /\ manifest \in [Generations -> [Memories ->
       [state : {None, "pending", "indexed", "stale"}, source : Source]]]
  /\ mapped \in [Generations -> SUBSET Points]
  /\ published \in [Generations -> SUBSET Points]
  /\ building \in [Generations -> SUBSET Points]
  /\ \A g \in Generations : published[g] \cap building[g] = {}
  /\ caller \in [Callers -> CallerRow]
  /\ \A w \in Callers : caller[w].pc # "idle" => caller[w].generation \in Generations
  /\ \A w \in Callers :
       caller[w].pc \in {"prune", "drop", "embed", "upsert", "publish", "hide"} =>
         caller[w].memory \in Memories
  /\ \A w \in Callers :
       caller[w].pc \in {"prune", "drop", "embed", "upsert", "publish"} =>
         caller[w].layout \in Layouts
  /\ stray \in SUBSET RequestRow
  /\ layout \in Layouts
  /\ quiet \in BOOLEAN /\ lost \in [Generations -> SUBSET Points]
  /\ calls \in Nat /\ pauses \in Nat

\* The memories and the index have the states the tables allow: corrections
\* form chains with one origin each, and the generation that is active is the
\* one that serves.
TypeOK == RecordsTypeOK /\ Lineage /\ IndexTypeOK

\* All chunks of one build of a memory's text are in the collection, published
\* and mapped.
Stored(g, m) ==
  \E l \in Layouts :
    /\ PointsOf(m, mapped[g]) = Build(m, SourceOf(m), l)
    /\ Build(m, SourceOf(m), l) \subseteq published[g]

\* A current memory whose document is 'indexed' is found, whatever crashed or
\* was lost in the calls that indexed it.  Not claimed once a request arrived
\* that its sender no longer had the lease for, nor for a memory one of whose
\* mapped points was deleted and not written again (IndexedFound).
QuietIndexed ==
  quiet =>
    \A g \in Generations, m \in Memories :
      Current(m) /\ UpToDate(g, m) /\ PointsOf(m, lost[g]) = {} => Stored(g, m)

\* The same of every memory ("all remote chunks were complete before
\* publication", server/test/vector-chunk-pipeline.test.mjs).
IndexedFound ==
  quiet =>
    \A g \in Generations, m \in Memories :
      Current(m) /\ UpToDate(g, m) => Stored(g, m)

\* A decision on the review page is made on the memories as they were read.
AsSeen == [][AsSeenStep]_vars

-----------------------------------------------------------------------------
(* Inductive strengthenings *)

Busy(w) == caller[w].pc # "idle"

\* No two calls, and no call and no request that outlived its call, have the
\* same fence of a generation: one of them at most is current.
FencesApart ==
  /\ \A w \in Callers :
       Busy(w) => caller[w].fence <= generation[caller[w].generation].fence
  /\ \A v, w \in Callers :
       /\ v # w /\ Busy(v) /\ Busy(w)
       /\ caller[v].generation = caller[w].generation
       => caller[v].fence # caller[w].fence
  /\ \A r \in stray :
       /\ r.fence <= generation[r.generation].fence
       /\ \A w \in Callers :
            Busy(w) /\ caller[w].generation = r.generation => caller[w].fence # r.fence

\* A point that is mapped is in the collection, unless it was deleted there.
Located ==
  \A g \in Generations : mapped[g] \subseteq published[g] \cup building[g] \cup lost[g]

\* While a call has the current fence, it is at the point its document says:
\* what it has mapped, less what it is about to drop, belongs to its build,
\* and when it publishes nothing of the build is missing.  It drops and writes
\* points of its memory alone.
UnderwayBy(w) ==
  LET g == caller[w].generation
      has == PointsOf(caller[w].memory, mapped[g])
  IN
  /\ caller[w].pc \in {"prune", "drop", "embed", "upsert", "publish"}
  /\ generation[g].fence = caller[w].fence
  => /\ document[g][caller[w].memory] =
          [state |-> "building", source |-> caller[w].source]
     /\ \A p \in caller[w].points : p.memory = caller[w].memory
     /\ caller[w].pc \in {"prune", "drop"} => has \ caller[w].points \subseteq Expected(w)
     /\ caller[w].pc \in {"embed", "upsert", "publish"} =>
          has \subseteq Expected(w) /\ caller[w].points \subseteq Expected(w)
     /\ caller[w].pc = "publish" =>
          has = Expected(w) /\ caller[w].points = Expected(w)
Underway == \A w \in Callers : UnderwayBy(w)

\* An upsert that outlived its call writes points of a document that is not
\* indexed, or it is late.
LateUpserts ==
  \A r \in stray :
    r.kind = "upsert" /\ r.fence = generation[r.generation].fence =>
      /\ document[r.generation][r.memory].state = "building"
      /\ \A p \in r.points : p.memory = r.memory

\* What QuietIndexed says, of every document that is 'indexed'.
Complete(g, m) ==
  document[g][m].state = "indexed" =>
    /\ \E l \in Layouts :
         PointsOf(m, mapped[g]) = Build(m, document[g][m].source, l)
    /\ PointsOf(m, mapped[g]) \ lost[g] \subseteq published[g]
QuietComplete == quiet => \A g \in Generations, m \in Memories : Complete(g, m)
==============================================================================
