---------------------------- MODULE MCVectorIndex ----------------------------
(***************************************************************************)
(* Small instances of the memories and their index, one per scene:         *)
(*   review  people and agents who change the same memories;               *)
(*   build   two calls that build a generation, while a memory changes;    *)
(*   first   the same for a generation with a manifest;                    *)
(*   serve   a serving generation that is kept current, repaired and       *)
(*           reconciled;                                                   *)
(*   replace another generation that takes its place.                      *)
(***************************************************************************)
EXTENDS VectorIndex, TLC

VARIABLE scene

Kept == CHOOSE c \in Contents : TRUE
OneActive ==
  [m \in Memories |-> IF m = 1 THEN [NoRow EXCEPT !.status = "active", !.content = Kept]
                      ELSE NoRow]
First == CHOOSE g \in Generations : TRUE
Text(m, l) == Build(m, [revision |-> 1, category |-> None], l)

InitReview == scene = "review" /\ InitRecords /\ InitIndex
InitOne ==
  /\ memory = OneActive /\ live = TRUE /\ lifecycle = 0
  /\ request = [o \in Operations |-> NoRequest]
  /\ candidate = [g \in Generations0 |-> None]
  /\ reviewer = [k \in Reviewers |-> Away]
InitBuild == scene \in {"build", "first"} /\ InitOne /\ InitIndex
InitServe ==
  /\ scene \in {"serve", "replace"} /\ InitOne
  /\ layout \in Layouts
  /\ generation = [g \in Generations |-> IF g = First
                     THEN [NewGeneration EXCEPT !.state = "active", !.fence = 1]
                     ELSE NewGeneration]
  /\ serving = First
  /\ document = [g \in Generations |-> [m \in Memories |-> IF g = First /\ m = 1
                   THEN [state |-> "indexed", source |-> SourceOf(1)] ELSE NoDocument]]
  /\ mapped = [g \in Generations |-> IF g = First THEN Text(1, layout) ELSE {}]
  /\ published = mapped
  /\ manifest = [g \in Generations |-> [m \in Memories |-> NoItem]]
  /\ building = [g \in Generations |-> {}]
  /\ caller = [w \in Callers |-> Idle] /\ stray = {}
  /\ quiet = TRUE /\ lost = [g \in Generations |-> {}]
  /\ calls = 0 /\ pauses = 0

MCInit == InitReview \/ InitBuild \/ InitServe

Changes == SourceStep \/ \E m \in Memories : Retract(m)
MCNext ==
  /\ UNCHANGED scene
  /\ \/ /\ scene = "review"
        /\ RecordStep \/ ReviewStep \/ DeleteProject \/ RestoreProject
        /\ UNCHANGED index
     \/ scene \in {"build", "first"} /\ Changes /\ UNCHANGED index
     \/ scene # "review" /\ IndexStep
     \/ /\ scene \in {"build", "first"}
        /\ \/ Begin(First, scene = "first")
           \/ \E w \in Callers : Sync(w, First)
           \/ \E l \in Layouts : NewLimits(l)
     \/ /\ scene = "serve"
        /\ \/ /\ DeleteProject \/ RestoreProject \/ Supersede(1, 2, Kept)
              /\ UNCHANGED index
           \/ \E w \in Callers :
                \/ Sync(w, First) \/ CatchUp(w, First) \/ Reconcile(w, First)
                \/ \E items \in SUBSET Memories : Repair(w, First, items)
           \/ Deactivate(First) \/ Activate(First)
     \/ /\ scene = "replace"
        /\ \/ \E c \in Categories : SetCategory(1, c) /\ UNCHANGED index
           \/ \E g \in Generations \ {First} : Begin(g, TRUE) \/ Begin(g, FALSE)
           \/ \E g \in Generations : Activate(g) \/ Deactivate(g)
           \/ \E w \in Callers, g \in Generations \ {First} : Sync(w, g)
MCSpec == MCInit /\ [][MCNext]_<<vars, scene>>
MCSymmetry == Permutations(Callers)
==============================================================================
