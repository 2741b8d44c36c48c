---------------------------- MODULE VectorProofs ----------------------------
(***************************************************************************)
(* Proofs about MemoryRecords and VectorIndex, for every number of         *)
(* memories, generations, calls and requests under way: corrections form   *)
(* chains and no operation makes two memories, a decision on the review    *)
(* page is made on what its reader saw, and a document that is 'indexed'   *)
(* has all its points in the collection.                                   *)
(*                                                                         *)
(* The index: no two calls and no request without a call have the same     *)
(* fence of a generation (FencesApart), so at most one of them may write   *)
(* its documents.  That one is where its document says (Underway): what it *)
(* has mapped belongs to its build, and nothing of the build is missing    *)
(* when it publishes.  What is mapped is in the collection or was deleted  *)
(* there (Located).  A request that arrives under its sender's fence       *)
(* touches the document of its sender alone, which is not 'indexed'        *)
(* (LateUpserts), and so every 'indexed' document stays complete           *)
(* (QuietComplete).                                                        *)
(***************************************************************************)
EXTENDS VectorIndex, TLAPS

-----------------------------------------------------------------------------
(* The memories *)

MemoryOK == memory \in [Memories -> Row] /\ Lineage /\ InOrderMade
RecordsInv == RecordsTypeOK /\ Lineage /\ InOrderMade /\ OriginsUsed /\ PagesRead

\* A memory that exists goes on to exist, with its text.
TextsKept ==
  \A m \in Memories : Exists(m) => Exists(m)' /\ memory'[m].content = memory[m].content

\* What a new memory is entered as.
LEMMA Entered ==
  ASSUME MemoryOK, NEW n \in Memories, NEW c \in Contents \cup {None}, NEW origin \in Origin
  PROVE  /\ Saved(n, c, origin) \in [Memories -> Row]
         /\ Saved(n, c, origin)[n].status = "active"
         /\ Saved(n, c, origin)[n].content = c
         /\ Saved(n, c, origin)[n].origin = origin
         /\ Saved(n, c, origin)[n].from = NoId
         /\ Saved(n, c, origin)[n].by = NoId
         /\ \A k \in Memories \ {n} : Saved(n, c, origin)[k] = memory[k]
<1> DEFINE row == [NoRow EXCEPT !.status = "active", !.content = c, !.origin = origin]
<1>1. /\ row.status = "active" /\ row.content = c /\ row.origin = origin
      /\ row.from = NoId /\ row.by = NoId /\ row.category = None
  BY DEF NoRow
<1>2. row \in Row
  BY DEF NoRow, Row, NoId, None
<1>3. Saved(n, c, origin) = [memory EXCEPT ![n] = row]
  BY DEF Saved
<1> HIDE DEF row
<1> QED BY <1>1, <1>2, <1>3 DEF MemoryOK

\* A memory that did not exist is added, active, by an origin of its own.
LEMMA SaveKeeps ==
  ASSUME MemoryOK, NEW n \in Memories, NEW c \in Contents \cup {None}, NEW origin \in Origin,
         Fresh(n), memory' = Saved(n, c, origin),
         \A k \in Memories : memory[k].origin = origin => origin = NoOrigin
  PROVE  MemoryOK' /\ TextsKept
<1>1. /\ memory' \in [Memories -> Row]
      /\ memory'[n].status = "active" /\ memory'[n].content = c
      /\ memory'[n].origin = origin /\ memory'[n].from = NoId /\ memory'[n].by = NoId
      /\ \A k \in Memories \ {n} : memory'[k] = memory[k]
  BY Entered
<1>2. memory[n] = NoRow
  BY DEF MemoryOK, InOrderMade, Fresh
<1>3. \A k \in Memories : memory[k].by # n /\ memory[k].from # n
  BY <1>2, MemoriesAssumption DEF MemoryOK, Lineage, NoRow, Row, NoId, None
<1>4. Lineage'
  <2>1. \A m \in Memories :
          /\ memory'[m].by # NoId <=> memory'[m].status = "superseded"
          /\ memory'[m].by # NoId => /\ memory'[m].by > m
                                     /\ memory'[memory'[m].by].from = m
          /\ memory'[m].from # NoId => memory'[memory'[m].from].by = m
    BY <1>1, <1>2, <1>3 DEF MemoryOK, Lineage, Row
  <2>2. \A m, k \in Memories :
          m # k /\ memory'[m].origin = memory'[k].origin => memory'[m].origin = NoOrigin
    BY <1>1 DEF MemoryOK, Lineage
  <2> QED BY <2>1, <2>2 DEF Lineage
<1>5. InOrderMade'
  <2>1. \A m \in Memories : Exists(m)' <=> Exists(m) \/ m = n
    BY <1>1 DEF Exists, None
  <2>2. \A m, k \in Memories : k < m /\ Exists(m)' => Exists(k)'
    BY <2>1 DEF MemoryOK, InOrderMade, Fresh
  <2>3. \A m \in Memories : ~Exists(m)' => memory'[m] = NoRow
    BY <1>1, <2>1 DEF MemoryOK, InOrderMade
  <2> QED BY <2>2, <2>3 DEF InOrderMade, Exists
<1>6. TextsKept
  BY <1>1, <1>2 DEF TextsKept, Exists, NoRow, None
<1> QED BY <1>1, <1>4, <1>5, <1>6 DEF MemoryOK

\* A correction: the original points to its replacement, and back.
LEMMA SupersedeKeeps ==
  ASSUME MemoryOK, NEW m \in Memories, NEW n \in Memories, NEW c \in Contents \cup {None},
         NEW origin \in Origin, Active(m), Fresh(n),
         memory' = Superseded(m, n, c, origin),
         \A k \in Memories : memory[k].origin = origin => origin = NoOrigin
  PROVE  MemoryOK' /\ TextsKept
<1>1. memory[n] = NoRow /\ m # n
  BY DEF MemoryOK, InOrderMade, Fresh, Active, Exists, None
<1>2. m < n
  BY <1>1, MemoriesAssumption DEF MemoryOK, InOrderMade, Fresh, Active, Exists, None
<1> DEFINE saved == Saved(n, c, origin)
<1>3. /\ saved \in [Memories -> Row]
      /\ saved[n].status = "active" /\ saved[n].content = c
      /\ saved[n].origin = origin /\ saved[n].from = NoId /\ saved[n].by = NoId
      /\ \A k \in Memories \ {n} : saved[k] = memory[k]
  BY Entered
<1>4. memory' = [saved EXCEPT ![m].status = "superseded", ![m].by = n,
                              ![n].from = m, ![n].category = memory[m].category]
  BY DEF Superseded
<1> HIDE DEF saved
<1>5. /\ memory'[m] = [memory[m] EXCEPT !.status = "superseded", !.by = n]
      /\ memory'[n] = [saved[n] EXCEPT !.from = m, !.category = memory[m].category]
      /\ \A k \in Memories \ {m, n} : memory'[k] = memory[k]
      /\ memory' = [k \in Memories |-> memory'[k]]
  BY <1>1, <1>3, <1>4
<1>6. memory[m] \in Row /\ saved[n] \in Row
  BY <1>3 DEF MemoryOK
<1>7. /\ memory'[m] \in Row /\ memory'[m].status = "superseded" /\ memory'[m].by = n
      /\ memory'[m].content = memory[m].content /\ memory'[m].origin = memory[m].origin
      /\ memory'[m].from = memory[m].from
  BY <1>5, <1>6 DEF Row
<1>8. /\ memory'[n] \in Row /\ memory'[n].status = "active" /\ memory'[n].by = NoId
      /\ memory'[n].content = c /\ memory'[n].origin = origin /\ memory'[n].from = m
  BY <1>3, <1>5, <1>6 DEF Row
<1>9. memory' \in [Memories -> Row]
  <2>1. \A k \in Memories : memory'[k] \in Row
    BY <1>5, <1>7, <1>8 DEF MemoryOK
  <2> QED BY <2>1, <1>5
<1>10. /\ memory[m].by = NoId
       /\ \A k \in Memories : memory[k].by # n /\ memory[k].from # n /\ memory[k].from # m
  BY <1>1, MemoriesAssumption DEF MemoryOK, Lineage, NoRow, Row, NoId, None, Active
<1>11. Lineage'
  <2>1. \A k \in Memories :
          /\ memory'[k].by # NoId <=> memory'[k].status = "superseded"
          /\ memory'[k].by # NoId => /\ memory'[k].by > k
                                     /\ memory'[memory'[k].by].from = k
    <3> TAKE k \in Memories
    <3>1. CASE k = m
      BY <3>1, <1>2, <1>7, <1>8, MemoriesAssumption DEF NoId
    <3>2. CASE k = n
      BY <3>2, <1>8
    <3>3. CASE k \notin {m, n}
      <4>1. memory'[k] = memory[k]
        BY <3>3, <1>5
      <4>2. memory[k].by # NoId => memory[k].by \in Memories /\ memory[k].by # n
        BY <1>10 DEF MemoryOK, Row
      <4>3. memory[k].by # NoId => memory'[memory[k].by].from = memory[memory[k].by].from
        BY <4>2, <1>5, <1>7
      <4> QED BY <4>1, <4>3 DEF MemoryOK, Lineage
    <3> QED BY <3>1, <3>2, <3>3
  <2>2. \A k \in Memories : memory'[k].from # NoId => memory'[memory'[k].from].by = k
    <3> TAKE k \in Memories
    <3>1. CASE k = n
      BY <3>1, <1>7, <1>8
    <3>2. CASE k # n
      <4>1. memory'[k].from = memory[k].from
        BY <3>2, <1>5, <1>7
      <4>2. memory[k].from # NoId => memory[k].from \in Memories \ {m, n}
        BY <1>10 DEF MemoryOK, Row
      <4> QED BY <4>1, <4>2, <1>5 DEF MemoryOK, Lineage
    <3> QED BY <3>1, <3>2
  <2>3. \A k, l \in Memories :
          k # l /\ memory'[k].origin = memory'[l].origin => memory'[k].origin = NoOrigin
    <3>1. \A k \in Memories \ {n} : memory'[k].origin = memory[k].origin
      BY <1>5, <1>7
    <3> QED BY <3>1, <1>8 DEF MemoryOK, Lineage
  <2> QED BY <2>1, <2>2, <2>3 DEF Lineage
<1>12. InOrderMade'
  <2>1. \A k \in Memories : Exists(k)' <=> Exists(k) \/ k = n
    <3>1. Exists(m) /\ Exists(m)' /\ Exists(n)'
      BY <1>7, <1>8 DEF Exists, None, Active
    <3>2. \A k \in Memories \ {m, n} : Exists(k)' <=> Exists(k)
      BY <1>5 DEF Exists
    <3> QED BY <3>1, <3>2
  <2>2. \A k, l \in Memories : l < k /\ Exists(k)' => Exists(l)'
    BY <2>1 DEF MemoryOK, InOrderMade, Fresh
  <2>3. \A k \in Memories : ~Exists(k)' => memory'[k] = NoRow
    BY <1>5, <2>1 DEF MemoryOK, InOrderMade, Active, Exists, None
  <2> QED BY <2>2, <2>3 DEF InOrderMade, Exists
<1>13. TextsKept
  <2>1. \A k \in Memories : Exists(k) => k # n
    BY <1>1 DEF Exists, NoRow
  <2> QED BY <2>1, <1>5, <1>7 DEF TextsKept, Exists, None
<1> QED BY <1>9, <1>11, <1>12, <1>13 DEF MemoryOK

\* A status or a category is written, and no memory becomes or was superseded.
LEMMA RewriteKeeps ==
  ASSUME MemoryOK, NEW m \in Memories, NEW row \in Row,
         memory' = [memory EXCEPT ![m] = row], Active(m),
         row.status \in {"active", "retracted"}, row.content = memory[m].content,
         row.from = memory[m].from, row.by = memory[m].by, row.origin = memory[m].origin
  PROVE  MemoryOK' /\ TextsKept
<1>1. memory' \in [Memories -> Row]
  BY DEF MemoryOK
<1>2. /\ memory'[m] = row
      /\ \A k \in Memories \ {m} : memory'[k] = memory[k]
  BY DEF MemoryOK
<1>3. \A k \in Memories :
        /\ memory'[k].from = memory[k].from /\ memory'[k].by = memory[k].by
        /\ memory'[k].origin = memory[k].origin
        /\ memory'[k].content = memory[k].content
        /\ memory'[k].status = "superseded" <=> memory[k].status = "superseded"
        /\ Exists(k)' <=> Exists(k)
  BY <1>2 DEF Active, Exists, None
<1>4. Lineage'
  <2>1. \A k \in Memories : /\ memory[k].by \in Memories \cup {NoId}
                             /\ memory[k].from \in Memories \cup {NoId}
    BY DEF MemoryOK, Row
  <2> QED BY <1>3, <2>1 DEF MemoryOK, Lineage
<1>5. InOrderMade'
  BY <1>2, <1>3 DEF MemoryOK, InOrderMade, Exists, Active, None
<1> QED BY <1>1, <1>3, <1>4, <1>5 DEF MemoryOK, TextsKept

\* The pages that are being read do not change with the memories.
LEMMA PagesKept ==
  ASSUME RecordsTypeOK, PagesRead, TextsKept, reviewer' = reviewer
  PROVE  PagesRead'
<1>1. \A k \in Reviewers : reviewer[k].pc = "reading" =>
        reviewer[k].left \in Memories /\ reviewer[k].right \in Memories
  BY DEF RecordsTypeOK, Page, Away
<1> QED BY <1>1 DEF PagesRead, TextsKept, Exists

\* Memories are changed, and an operation id is used with them or not.
LEMMA OperationKeeps ==
  ASSUME RecordsInv, MemoryOK', TextsKept,
         NEW n \in Memories, NEW origin \in Origin,
         \A k \in Memories : memory'[k].origin = IF k = n THEN origin ELSE memory[k].origin,
         UNCHANGED <<live, lifecycle, candidate, reviewer>>,
         \/ origin \in {NoOrigin, memory[n].origin} /\ request' = request
         \/ \E o \in Operations, row \in Request :
              /\ row.kind # None /\ request' = [request EXCEPT ![o] = row]
              /\ origin \in {NoOrigin, memory[n].origin, [kind |-> "operation", id |-> o]}
  PROVE  RecordsInv'
<1>1. RecordsTypeOK'
  BY DEF RecordsInv, RecordsTypeOK, MemoryOK
<1>2. \A o \in Operations : ~Unused(o) => request'[o].kind # None
  BY DEF RecordsInv, RecordsTypeOK, Unused
<1>3. OriginsUsed'
  <2> SUFFICES ASSUME NEW k \in Memories
               PROVE  /\ memory'[k].origin.kind = "operation" =>
                           /\ memory'[k].origin.id \in Operations
                           /\ request'[memory'[k].origin.id].kind # None
                      /\ memory'[k].origin.kind = "candidate" =>
                           /\ memory'[k].origin.id \in Generations0
                           /\ candidate[memory'[k].origin.id] = "accepted"
    BY DEF OriginsUsed, Unused
  <2>1. CASE memory'[k].origin = memory[k].origin
    BY <2>1, <1>2 DEF RecordsInv, OriginsUsed
  <2>2. CASE memory'[k].origin = NoOrigin
    BY <2>2 DEF NoOrigin, None
  <2>3. CASE \E o \in Operations, row \in Request :
               /\ row.kind # None /\ request' = [request EXCEPT ![o] = row]
               /\ memory'[k].origin = [kind |-> "operation", id |-> o]
    BY <2>3 DEF RecordsInv, RecordsTypeOK, Unused
  <2> QED BY <2>1, <2>2, <2>3
<1>4. PagesRead'
  BY PagesKept DEF RecordsInv
<1> QED BY <1>1, <1>3, <1>4 DEF RecordsInv, MemoryOK

\* The invariant says of the memories what one new memory needs.
LEMMA InvMemory == RecordsInv => MemoryOK
BY DEF RecordsInv, MemoryOK, RecordsTypeOK

\* An operation id that was not used made no memory.
LEMMA FreshOperation ==
  ASSUME RecordsInv, NEW o \in Operations, Unused(o), NEW k \in Memories
  PROVE  memory[k].origin # [kind |-> "operation", id |-> o]
BY DEF RecordsInv, OriginsUsed

\* The origins a memory can have.
LEMMA OperationOrigins ==
  /\ NoOrigin \in Origin
  /\ \A o \in Operations : [kind |-> "operation", id |-> o] \in Origin
  /\ \A g \in Generations0 : [kind |-> "candidate", id |-> g] \in Origin
BY OperationsAssumption DEF NoOrigin, Origin, Generations0

\* What a correction enters and what it leaves.
LEMMA SupersededOrigins ==
  ASSUME MemoryOK, NEW m \in Memories, NEW n \in Memories, NEW c \in Contents \cup {None},
         NEW origin \in Origin, m # n, NEW k \in Memories
  PROVE  Superseded(m, n, c, origin)[k].origin = IF k = n THEN origin ELSE memory[k].origin
<1> DEFINE saved == Saved(n, c, origin)
<1>1. /\ saved \in [Memories -> Row] /\ saved[n].origin = origin
      /\ \A l \in Memories \ {n} : saved[l] = memory[l]
  BY Entered
<1>2. Superseded(m, n, c, origin) =
        [saved EXCEPT ![m].status = "superseded", ![m].by = n,
                      ![n].from = m, ![n].category = memory[m].category]
  BY DEF Superseded
<1> HIDE DEF saved
<1>3. saved[k] \in Row
  BY <1>1
<1> QED BY <1>1, <1>2, <1>3 DEF Row

\* saveMemory keeps the invariant: an operation id makes one memory.
LEMMA SaveStep ==
  ASSUME RecordsInv, NEW o \in Operations, NEW c \in Contents, NEW m \in Memories,
         Save(o, c, m)
  PROVE  RecordsInv'
<1> DEFINE origin == [kind |-> "operation", id |-> o]
<1>1. MemoryOK /\ origin \in Origin
  BY InvMemory, OperationOrigins
<1>2. Unused(o) /\ Fresh(m) /\ memory' = Saved(m, c, origin)
  BY DEF Save, MaySave
<1>3. \A k \in Memories : memory[k].origin # origin
  BY <1>2, FreshOperation
<1>4. \A k \in Memories : memory'[k].origin = IF k = m THEN origin ELSE memory[k].origin
  BY <1>1, <1>2, Entered
<1>5. \E row \in Request : row.kind # None /\ request' = [request EXCEPT ![o] = row]
  <2>1. [kind |-> "save", target |-> m, content |-> c] \in Request
    BY DEF Request
  <2> QED BY <2>1 DEF Save, Recorded, None
<1> HIDE DEF origin
<1>6. MemoryOK' /\ TextsKept
  BY <1>1, <1>2, <1>3, SaveKeeps
<1>7. UNCHANGED <<live, lifecycle, candidate, reviewer>>
  BY DEF Save
<1> QED BY <1>1, <1>4, <1>5, <1>6, <1>7, OperationKeeps DEF origin

\* supersedeMemory keeps the invariant.
LEMMA SupersedeStep ==
  ASSUME RecordsInv, NEW m \in Memories, NEW n \in Memories, NEW c \in Contents,
         Supersede(m, n, c)
  PROVE  RecordsInv'
<1>1. MemoryOK /\ NoOrigin \in Origin
  BY InvMemory, OperationOrigins
<1>2. /\ Active(m) /\ Fresh(n) /\ memory' = Superseded(m, n, c, NoOrigin)
      /\ UNCHANGED <<live, lifecycle, request, candidate, reviewer>>
  BY DEF Supersede, MaySupersede
<1>3. MemoryOK' /\ TextsKept
  BY <1>1, <1>2, SupersedeKeeps
<1>4. m # n
  BY <1>2 DEF Active, Fresh, Exists, None
<1>5. \A k \in Memories : memory'[k].origin = IF k = n THEN NoOrigin ELSE memory[k].origin
  BY <1>1, <1>2, <1>4, SupersededOrigins
<1> QED BY <1>1, <1>2, <1>3, <1>5, OperationKeeps

\* What a retraction and another category write.
LEMMA Rewritten ==
  ASSUME MemoryOK, NEW m \in Memories, Active(m),
         \/ memory' = Retracted(m)
         \/ \E c \in Categories : memory' = [memory EXCEPT ![m].category = c]
  PROVE  /\ MemoryOK' /\ TextsKept
         /\ \A k \in Memories : memory'[k].origin = memory[k].origin
<1>0. memory[m] \in Row
  BY DEF MemoryOK
<1>1. \E row \in Row :
        /\ memory' = [memory EXCEPT ![m] = row]
        /\ row.status \in {"active", "retracted"} /\ row.content = memory[m].content
        /\ row.from = memory[m].from /\ row.by = memory[m].by
        /\ row.origin = memory[m].origin
  <2>1. CASE memory' = Retracted(m)
    <3> DEFINE row == [memory[m] EXCEPT !.status = "retracted"]
    <3>1. row \in Row /\ row.status = "retracted" /\ row.content = memory[m].content
          /\ row.from = memory[m].from /\ row.by = memory[m].by
          /\ row.origin = memory[m].origin
      BY <1>0 DEF Row
    <3>2. memory' = [memory EXCEPT ![m] = row]
      BY <2>1 DEF Retracted
    <3> QED BY <3>1, <3>2
  <2>2. ASSUME NEW c \in Categories, memory' = [memory EXCEPT ![m].category = c]
        PROVE  \E row \in Row :
                 /\ memory' = [memory EXCEPT ![m] = row]
                 /\ row.status \in {"active", "retracted"} /\ row.content = memory[m].content
                 /\ row.from = memory[m].from /\ row.by = memory[m].by
                 /\ row.origin = memory[m].origin
    <3> DEFINE row == [memory[m] EXCEPT !.category = c]
    <3>1. row \in Row /\ row.status = "active" /\ row.content = memory[m].content
          /\ row.from = memory[m].from /\ row.by = memory[m].by
          /\ row.origin = memory[m].origin
      BY <1>0 DEF Row, Active
    <3>2. memory' = [memory EXCEPT ![m] = row]
      BY <2>2
    <3> QED BY <3>1, <3>2
  <2> QED BY <2>1, <2>2
<1>2. PICK row \in Row :
        /\ memory' = [memory EXCEPT ![m] = row]
        /\ row.status \in {"active", "retracted"} /\ row.content = memory[m].content
        /\ row.from = memory[m].from /\ row.by = memory[m].by
        /\ row.origin = memory[m].origin
  BY <1>1
<1>3. MemoryOK' /\ TextsKept
  BY <1>2, RewriteKeeps
<1>4. \A k \in Memories : memory'[k].origin = memory[k].origin
  BY <1>2 DEF MemoryOK
<1> QED BY <1>3, <1>4

\* retractMemory keeps the invariant.
LEMMA RetractStep ==
  ASSUME RecordsInv, NEW m \in Memories, Retract(m)
  PROVE  RecordsInv'
<1>1. MemoryOK /\ Active(m) /\ memory' = Retracted(m)
      /\ UNCHANGED <<live, lifecycle, request, candidate, reviewer>>
  BY InvMemory DEF Retract, MaySupersede
<1>2. MemoryOK' /\ TextsKept /\ \A k \in Memories : memory'[k].origin = memory[k].origin
  BY <1>1, Rewritten
<1>3. memory[m].origin \in Origin
  BY <1>1 DEF MemoryOK, Row
<1> QED BY <1>1, <1>2, <1>3, OperationKeeps

\* setMemoryCategory keeps the invariant.
LEMMA SetCategoryStep ==
  ASSUME RecordsInv, NEW m \in Memories, NEW c \in Categories, SetCategory(m, c)
  PROVE  RecordsInv'
<1>1. MemoryOK /\ Active(m) /\ memory' = [memory EXCEPT ![m].category = c]
      /\ UNCHANGED <<live, lifecycle, request, candidate, reviewer>>
  BY InvMemory DEF SetCategory, Current
<1>2. MemoryOK' /\ TextsKept /\ \A k \in Memories : memory'[k].origin = memory[k].origin
  BY <1>1, Rewritten
<1>3. memory[m].origin \in Origin
  BY <1>1 DEF MemoryOK, Row
<1> QED BY <1>1, <1>2, <1>3, OperationKeeps

\* The cloud's retraction keeps the invariant and uses up its operation id.
LEMMA CloudRetractStep ==
  ASSUME RecordsInv, NEW o \in Operations, NEW m \in Memories, NEW r \in 1..2,
         CloudRetract(o, m, r)
  PROVE  RecordsInv'
<1>1. MemoryOK /\ Active(m) /\ memory' = Retracted(m)
      /\ UNCHANGED <<live, lifecycle, candidate, reviewer>>
  BY InvMemory DEF CloudRetract, MaySupersede
<1>2. MemoryOK' /\ TextsKept /\ \A k \in Memories : memory'[k].origin = memory[k].origin
  BY <1>1, Rewritten
<1>3. memory[m].origin \in Origin
  BY <1>1 DEF MemoryOK, Row
<1>4. \E row \in Request : row.kind # None /\ request' = [request EXCEPT ![o] = row]
  <2>1. [kind |-> "retract", target |-> m, content |-> None] \in Request
    BY DEF Request
  <2> QED BY <2>1 DEF CloudRetract, Recorded, None
<1> DEFINE origin == memory[m].origin
<1>5. \A k \in Memories : memory'[k].origin = IF k = m THEN origin ELSE memory[k].origin
  BY <1>2
<1>6. origin \in {NoOrigin, memory[m].origin}
  OBVIOUS
<1> HIDE DEF origin
<1> QED BY <1>1, <1>2, <1>3, <1>4, <1>5, <1>6, OperationKeeps DEF origin

\* The cloud's correction keeps the invariant and uses up its operation id.
LEMMA CloudSupersedeStep ==
  ASSUME RecordsInv, NEW o \in Operations, NEW m \in Memories, NEW n \in Memories,
         NEW r \in 1..2, NEW c \in Contents, CloudSupersede(o, m, r, n, c)
  PROVE  RecordsInv'
<1> DEFINE origin == [kind |-> "operation", id |-> o]
<1>1. MemoryOK /\ origin \in Origin
  BY InvMemory, OperationOrigins
<1>2. /\ Unused(o) /\ Active(m) /\ Fresh(n) /\ memory' = Superseded(m, n, c, origin)
      /\ UNCHANGED <<live, lifecycle, candidate, reviewer>>
  BY DEF CloudSupersede, MaySupersede
<1>3. \A k \in Memories : memory[k].origin # origin
  BY <1>2, FreshOperation
<1>4. m # n
  BY <1>2 DEF Active, Fresh, Exists, None
<1>5. \E row \in Request : row.kind # None /\ request' = [request EXCEPT ![o] = row]
  <2>1. [kind |-> "supersede", target |-> m, content |-> c] \in Request
    BY DEF Request
  <2> QED BY <2>1 DEF CloudSupersede, Recorded, None
<1> HIDE DEF origin
<1>6. MemoryOK' /\ TextsKept
  BY <1>1, <1>2, <1>3, SupersedeKeeps
<1>7. \A k \in Memories : memory'[k].origin = IF k = n THEN origin ELSE memory[k].origin
  BY <1>1, <1>2, <1>4, SupersededOrigins
<1> QED BY <1>1, <1>2, <1>5, <1>6, <1>7, OperationKeeps DEF origin

\* Steps that leave the memories alone, and decide nothing on a page.
LEMMA LifecycleStep ==
  ASSUME RecordsInv, DeleteProject \/ RestoreProject
  PROVE  RecordsInv'
<1>1. /\ lifecycle < MaxLifecycle /\ lifecycle' = lifecycle + 1 /\ live' \in BOOLEAN
      /\ UNCHANGED <<memory, request, candidate, reviewer>>
  BY DEF DeleteProject, RestoreProject
<1>2. lifecycle' \in Generations0
  BY <1>1, LifecycleAssumption DEF RecordsInv, RecordsTypeOK, Generations0
<1>3. RecordsTypeOK'
  BY <1>1, <1>2 DEF RecordsInv, RecordsTypeOK
<1>4. Lineage' /\ InOrderMade' /\ OriginsUsed' /\ PagesRead'
  BY <1>1 DEF RecordsInv, Lineage, InOrderMade, OriginsUsed, PagesRead, Exists, Unused
<1> QED BY <1>3, <1>4 DEF RecordsInv

\* Extracting and dismissing candidates keeps the invariant.
LEMMA CandidateStep ==
  ASSUME RecordsInv, Extract \/ \E g \in Generations0 : Dismiss(g)
  PROVE  RecordsInv'
<1>1. PICK g \in Generations0, decision \in {"pending", "dismissed"} :
        /\ candidate[g] # "accepted" /\ candidate' = [candidate EXCEPT ![g] = decision]
  BY DEF Extract, Dismiss, OpenCandidate, RecordsInv, RecordsTypeOK, None
<1>2. UNCHANGED <<memory, live, lifecycle, request, reviewer>>
  BY DEF Extract, Dismiss
<1>3. RecordsTypeOK'
  BY <1>1, <1>2 DEF RecordsInv, RecordsTypeOK
<1>4. OriginsUsed'
  BY <1>1, <1>2 DEF RecordsInv, RecordsTypeOK, OriginsUsed, Unused
<1>5. Lineage' /\ InOrderMade' /\ PagesRead'
  BY <1>2 DEF RecordsInv, Lineage, InOrderMade, PagesRead, Exists
<1> QED BY <1>3, <1>4, <1>5 DEF RecordsInv

\* An accepted candidate makes one memory.
LEMMA AcceptStep ==
  ASSUME RecordsInv, NEW g \in Generations0, NEW c \in Contents, NEW m \in Memories,
         Accept(g, c, m)
  PROVE  RecordsInv'
<1> DEFINE origin == [kind |-> "candidate", id |-> g]
<1>1. MemoryOK /\ origin \in Origin
  BY InvMemory, OperationOrigins
<1>2. /\ candidate[g] = "pending" /\ Fresh(m) /\ memory' = Saved(m, c, origin)
      /\ candidate' = [candidate EXCEPT ![g] = "accepted"]
      /\ UNCHANGED <<live, lifecycle, request, reviewer>>
  BY DEF Accept, OpenCandidate
<1>3. \A k \in Memories : memory[k].origin # origin
  BY <1>2 DEF RecordsInv, OriginsUsed
<1>4. \A k \in Memories : memory'[k].origin = IF k = m THEN origin ELSE memory[k].origin
  BY <1>1, <1>2, Entered
<1>5. origin.kind = "candidate" /\ origin.id = g
  OBVIOUS
<1> HIDE DEF origin
<1>6. MemoryOK' /\ TextsKept
  BY <1>1, <1>2, <1>3, SaveKeeps
<1>7. RecordsTypeOK'
  BY <1>2, <1>6 DEF RecordsInv, RecordsTypeOK, MemoryOK
<1>8. OriginsUsed'
  BY <1>2, <1>4, <1>5 DEF RecordsInv, RecordsTypeOK, OriginsUsed, Unused
<1>9. PagesRead'
  BY <1>2, <1>6, PagesKept DEF RecordsInv
<1> QED BY <1>6, <1>7, <1>8, <1>9 DEF RecordsInv, MemoryOK

\* A reader sees two current memories at their versions.
LEMMA LookStep ==
  ASSUME RecordsInv, NEW k \in Reviewers, NEW l \in Memories, NEW r \in Memories,
         Look(k, l, r)
  PROVE  RecordsInv'
<1> DEFINE page == [pc |-> "reading", left |-> l, right |-> r,
                    versions |-> <<SourceVersion(l), SourceVersion(r)>>,
                    rows |-> <<memory[l], memory[r]>>, at |-> lifecycle]
<1>1. /\ Current(l) /\ Current(r) /\ reviewer' = [reviewer EXCEPT ![k] = page]
      /\ UNCHANGED <<memory, live, lifecycle, request, candidate>>
  BY DEF Look
<1>2. /\ SourceVersion(l) = [revision |-> 1, lifecycle |-> lifecycle]
      /\ SourceVersion(r) = [revision |-> 1, lifecycle |-> lifecycle]
  BY <1>1 DEF SourceVersion, Current, Revision
<1>3. [revision |-> 1, lifecycle |-> lifecycle] \in Version
  BY DEF RecordsInv, RecordsTypeOK, Version
<1>4. memory[l] \in Row /\ memory[r] \in Row /\ lifecycle \in Generations0
  BY DEF RecordsInv, RecordsTypeOK
<1>5. page \in Page
  <2>1. <<SourceVersion(l), SourceVersion(r)>> \in Version \X Version
    BY <1>2, <1>3
  <2>2. <<memory[l], memory[r]>> \in Row \X Row
    BY <1>4
  <2> QED BY <2>1, <2>2, <1>4 DEF Page
<1>6. /\ page.pc = "reading" /\ page.left = l /\ page.right = r /\ page.at = lifecycle
      /\ page.rows[1] = memory[l] /\ page.rows[2] = memory[r]
      /\ page.versions[1] = [revision |-> 1, lifecycle |-> lifecycle]
      /\ page.versions[2] = [revision |-> 1, lifecycle |-> lifecycle]
  BY <1>2
<1> HIDE DEF page
<1>7. RecordsTypeOK'
  BY <1>1, <1>5 DEF RecordsInv, RecordsTypeOK
<1>8. PagesRead'
  <2> SUFFICES ASSUME NEW j \in Reviewers, reviewer'[j].pc = "reading"
               PROVE  /\ \A i \in 1..2 :
                           /\ reviewer'[j].rows[i].status = "active"
                           /\ reviewer'[j].rows[i].by = NoId
                           /\ reviewer'[j].versions[i].revision = 1
                           /\ reviewer'[j].versions[i].lifecycle = reviewer'[j].at
                      /\ Exists(reviewer'[j].left) /\ Exists(reviewer'[j].right)
                      /\ reviewer'[j].rows[1].content = memory[reviewer'[j].left].content
                      /\ reviewer'[j].rows[2].content = memory[reviewer'[j].right].content
    BY <1>1 DEF PagesRead, Exists
  <2>1. CASE j = k
    <3>1. reviewer'[j] = page
      BY <2>1, <1>1 DEF RecordsInv, RecordsTypeOK
    <3>2. Active(l) /\ Active(r) /\ Exists(l) /\ Exists(r)
      BY <1>1 DEF Current, Active, Exists, None
    <3>3. memory[l].by = NoId /\ memory[r].by = NoId
      BY <3>2 DEF RecordsInv, Lineage, Active
    <3>4. \A i \in 1..2 : i = 1 \/ i = 2
      OBVIOUS
    <3> QED BY <3>1, <3>2, <3>3, <3>4, <1>6 DEF Active
  <2>2. CASE j # k
    <3>1. reviewer'[j] = reviewer[j]
      BY <2>2, <1>1 DEF RecordsInv, RecordsTypeOK
    <3> QED BY <3>1 DEF RecordsInv, PagesRead
  <2> QED BY <2>1, <2>2
<1>9. Lineage' /\ InOrderMade' /\ OriginsUsed'
  BY <1>1 DEF RecordsInv, Lineage, InOrderMade, OriginsUsed, Exists, Unused
<1> QED BY <1>7, <1>8, <1>9 DEF RecordsInv

\* A decision ends the page and changes the left memory, by a correction or a
\* retraction.
LEMMA DecisionStep ==
  ASSUME RecordsInv, NEW k \in Reviewers, RetractDuplicate(k) \/ \E n \in Memories : Replace(k, n)
  PROVE  RecordsInv'
<1> DEFINE l == reviewer[k].left
           r == reviewer[k].right
<1>1. /\ reviewer[k].pc = "reading" /\ Active(l) /\ Active(r)
      /\ reviewer' = [reviewer EXCEPT ![k].pc = "decided"]
      /\ UNCHANGED <<live, lifecycle, request, candidate>>
  BY DEF RetractDuplicate, Replace, AsRead, Current
<1>2. reviewer[k] \in Page /\ l \in Memories /\ r \in Memories
  BY <1>1 DEF RecordsInv, RecordsTypeOK, Away, Page
<1>3. MemoryOK /\ NoOrigin \in Origin
  BY InvMemory, OperationOrigins
<1>4. /\ MemoryOK' /\ TextsKept
      /\ \A j \in Memories : memory'[j].origin \in {memory[j].origin, NoOrigin}
  <2>1. CASE RetractDuplicate(k)
    <3>1. memory' = Retracted(l)
      BY <2>1 DEF RetractDuplicate
    <3> QED BY <3>1, <1>1, <1>2, <1>3, Rewritten
  <2>2. ASSUME NEW n \in Memories, Replace(k, n)
        PROVE  /\ MemoryOK' /\ TextsKept
               /\ \A j \in Memories : memory'[j].origin \in {memory[j].origin, NoOrigin}
    <3> DEFINE c == memory[r].content
    <3>1. Fresh(n) /\ memory' = Superseded(l, n, c, NoOrigin)
      BY <2>2 DEF Replace
    <3>2. c \in Contents \cup {None}
      BY <1>2, <1>3 DEF MemoryOK, Row
    <3>3. l # n
      BY <3>1, <1>1 DEF Active, Fresh, Exists, None
    <3> HIDE DEF c, l, r
    <3>4. MemoryOK' /\ TextsKept
      BY <1>1, <1>2, <1>3, <3>1, <3>2, SupersedeKeeps
    <3>5. \A j \in Memories : memory'[j].origin = IF j = n THEN NoOrigin ELSE memory[j].origin
      BY <1>2, <1>3, <3>1, <3>2, <3>3, SupersededOrigins
    <3> QED BY <3>4, <3>5
  <2> QED BY <2>1, <2>2, <1>1
<1> DEFINE page == [reviewer[k] EXCEPT !.pc = "decided"]
<1>5. page \in Page /\ page.pc = "decided"
  BY <1>2 DEF Page
<1>6. reviewer' = [reviewer EXCEPT ![k] = page]
  BY <1>1
<1> HIDE DEF page
<1>7. RecordsTypeOK'
  BY <1>1, <1>4, <1>5, <1>6 DEF RecordsInv, RecordsTypeOK, MemoryOK
<1>8. OriginsUsed'
  <2>1. NoOrigin.kind = None
    BY DEF NoOrigin
  <2> QED BY <2>1, <1>1, <1>4 DEF RecordsInv, OriginsUsed, Unused, None
<1>9. PagesRead'
  <2>1. \A j \in Reviewers : reviewer'[j].pc = "reading" =>
          /\ reviewer'[j] = reviewer[j]
          /\ reviewer[j].left \in Memories /\ reviewer[j].right \in Memories
    BY <1>5, <1>6 DEF RecordsInv, RecordsTypeOK, Page, Away
  <2> QED BY <2>1, <1>4 DEF RecordsInv, PagesRead, TextsKept, Exists
<1> QED BY <1>4, <1>7, <1>8, <1>9 DEF RecordsInv, MemoryOK

\* The memories keep their invariant whatever is done to them.
LEMMA RecordsKeep ==
  ASSUME RecordsInv, RecordStep \/ ReviewStep \/ SourceStep
  PROVE  RecordsInv'
<1>1. CASE RecordStep
  BY <1>1, SaveStep, SupersedeStep, RetractStep, CloudSupersedeStep, CloudRetractStep
     DEF RecordStep
<1>2. CASE ReviewStep
  BY <1>2, CandidateStep, AcceptStep, LookStep, DecisionStep DEF ReviewStep
<1>3. CASE SourceStep
  BY <1>3, SetCategoryStep, LifecycleStep DEF SourceStep
<1> QED BY <1>1, <1>2, <1>3

\* The invariant holds of an empty database.
LEMMA RecordsStart == InitRecords => RecordsInv
<1> SUFFICES ASSUME InitRecords PROVE RecordsInv
  OBVIOUS
<1>1. \A m \in Memories : memory[m] = NoRow
  BY DEF InitRecords
<1>2. NoRow \in Row
  BY DEF NoRow, Row, NoOrigin, Origin
<1>3. RecordsTypeOK
  BY <1>2, LifecycleAssumption DEF InitRecords, RecordsTypeOK, NoRequest, Request, Generations0
<1>4. Lineage /\ InOrderMade /\ OriginsUsed
  BY <1>1 DEF Lineage, InOrderMade, OriginsUsed, Exists, NoRow, NoOrigin, NoId, None
<1>5. PagesRead
  BY DEF InitRecords, PagesRead, Away
<1> QED BY <1>3, <1>4, <1>5 DEF RecordsInv

\* A page is decided only by its own reader, on memories it was read of.
LEMMA DecidesAsSeen ==
  ASSUME RecordsInv, ReviewStep
  PROVE  AsSeenStep
<1> SUFFICES ASSUME NEW k \in Reviewers, reviewer[k].pc = "reading",
                    reviewer'[k].pc = "decided"
             PROVE  /\ live /\ reviewer[k].at = lifecycle
                    /\ Unchanged(reviewer[k].rows[1], memory[reviewer[k].left])
                    /\ Unchanged(reviewer[k].rows[2], memory[reviewer[k].right])
  BY DEF AsSeenStep
<1>1. reviewer \in [Reviewers -> {Away} \cup Page]
  BY DEF RecordsInv, RecordsTypeOK
<1>2. PICK j \in Reviewers :
        \/ \E l, r \in Memories : Look(j, l, r)
        \/ RetractDuplicate(j) \/ \E n \in Memories : Replace(j, n)
  BY DEF ReviewStep, Extract, Dismiss, Accept
<1>3. RetractDuplicate(j) \/ \E n \in Memories : Replace(j, n)
  <2> SUFFICES ASSUME NEW l \in Memories, NEW r \in Memories, Look(j, l, r) PROVE FALSE
    BY <1>2
  <2>1. reviewer'[k] # reviewer[k]
    OBVIOUS
  <2>2. j = k /\ reviewer[j].pc = "away"
    BY <2>1, <1>1 DEF Look
  <2> QED BY <2>2
<1>4. AsRead(j) /\ reviewer' = [reviewer EXCEPT ![j].pc = "decided"]
  BY <1>3 DEF RetractDuplicate, Replace
<1>5. j = k
  BY <1>1, <1>4
<1>6. /\ Current(reviewer[k].left) /\ Current(reviewer[k].right)
      /\ SourceVersion(reviewer[k].left) = reviewer[k].versions[1]
  BY <1>4, <1>5 DEF AsRead
<1>7. reviewer[k].left \in Memories /\ reviewer[k].right \in Memories
  BY <1>1 DEF Page, Away
<1>8. memory[reviewer[k].left].by = NoId /\ memory[reviewer[k].right].by = NoId
  BY <1>6, <1>7 DEF RecordsInv, Lineage, Current, Active
<1> QED BY <1>6, <1>8 DEF RecordsInv, PagesRead, Unchanged, SourceVersion, Current, Active

-----------------------------------------------------------------------------
(* The index: its invariant *)

GenerationRow ==
  [state : {None, "building", "ready", "active", "retired"}, fence : Nat,
   owner : Callers \cup {Nobody}, lease : {"null", "future", "past"}]
DocumentRow == [state : {None, "building", "indexed", "hidden"}, source : Source]
ItemRow == [state : {None, "pending", "indexed", "stale"}, source : Source]

LocalOK ==
  /\ generation \in [Generations -> GenerationRow]
  /\ serving \in Generations \cup {NoGeneration}
  /\ \A g \in Generations : generation[g].state = "active" <=> serving = g
  /\ document \in [Generations -> [Memories -> DocumentRow]]
  /\ manifest \in [Generations -> [Memories -> ItemRow]]
  /\ mapped \in [Generations -> SUBSET Points]
RemoteOK ==
  /\ published \in [Generations -> SUBSET Points]
  /\ building \in [Generations -> SUBSET Points]
  /\ \A g \in Generations : published[g] \cap building[g] = {}
  /\ quiet \in BOOLEAN /\ lost \in [Generations -> SUBSET Points]
OnMemory == {"prune", "drop", "embed", "upsert", "publish"}
RowOK(row) ==
  /\ row \in CallerRow
  /\ row.pc # "idle" => row.generation \in Generations
  /\ row.pc \in OnMemory \cup {"hide"} => row.memory \in Memories
  /\ row.pc \in OnMemory => row.layout \in Layouts
CallersOK == caller \in [Callers -> CallerRow] /\ \A w \in Callers : RowOK(caller[w])
RestOK == layout \in Layouts /\ calls \in Nat /\ pauses \in Nat
IndexInv ==
  /\ LocalOK /\ RemoteOK /\ CallersOK /\ stray \in SUBSET RequestRow /\ RestOK
  /\ FencesApart /\ Located /\ Underway /\ LateUpserts /\ QuietComplete

\* The parts of the invariant give the types the runs check.
LEMMA IndexTyped == IndexInv => IndexTypeOK
<1> SUFFICES ASSUME IndexInv PROVE IndexTypeOK
  OBVIOUS
<1>1. LocalOK /\ RemoteOK /\ CallersOK /\ stray \in SUBSET RequestRow /\ RestOK
  BY DEF IndexInv
<1>2. /\ \A w \in Callers : caller[w].pc # "idle" => caller[w].generation \in Generations
      /\ \A w \in Callers :
           caller[w].pc \in {"prune", "drop", "embed", "upsert", "publish", "hide"} =>
             caller[w].memory \in Memories
      /\ \A w \in Callers :
           caller[w].pc \in {"prune", "drop", "embed", "upsert", "publish"} =>
             caller[w].layout \in Layouts
  BY <1>1 DEF CallersOK, RowOK, OnMemory
<1> QED BY <1>1, <1>2 DEF IndexTypeOK, LocalOK, RemoteOK, CallersOK, RestOK, GenerationRow,
                          DocumentRow, ItemRow

-----------------------------------------------------------------------------
(* What a request does when it arrives *)

\* Whether a request deletes a point.
Struck(r, p) ==
  \/ r.kind = "prune" /\ p.memory = r.memory /\ p.source.revision # r.keep
  \/ r.kind \in {"drop", "remove", "upsert"} /\ p \in r.points
  \/ r.kind = "hide" /\ p.memory = r.memory
\* The points a request writes, all of them not yet published.
Dark(r) == IF r.kind = "upsert" THEN r.points ELSE {}

\* A request deletes point by point.
LEMMA DoomedStruck ==
  ASSUME NEW r, NEW S
  PROVE  Doomed(r, S) = {p \in S : Struck(r, p)}
BY DEF Doomed, Struck, PointsOf

\* A mapped point is where it was, or it is among the lost ones; only points
\* that the request itself writes stop being published.
Arrived(r) ==
  LET g == r.generation IN
  /\ \A h \in Generations \ {g} :
       published'[h] = published[h] /\ building'[h] = building[h] /\ lost'[h] = lost[h]
  /\ \A p \in mapped'[g] :
       p \in published[g] \cup building[g] \cup lost[g] \cup Dark(r) =>
         p \in published'[g] \cup building'[g] \cup lost'[g]
  /\ \A p \in mapped'[g] :
       p \in published[g] \cup lost[g] /\ p \notin Dark(r) => p \in published'[g] \cup lost'[g]
  /\ r.kind = "publish" =>
       \A p \in mapped'[g] \cap r.points :
         p \in published[g] \cup building[g] \cup lost[g] => p \in published'[g] \cup lost'[g]
  /\ quiet' => quiet /\ generation[g].fence = r.fence

\* Whatever a request does, it keeps the types and does what Arrived says.
LEMMA Arrival ==
  ASSUME RemoteOK, NEW r \in RequestRow, Arrives(r), Loses(r),
         mapped' \in [Generations -> SUBSET Points]
  PROVE  RemoteOK' /\ Arrived(r)
<1> DEFINE g == r.generation
           lit == IF r.kind = "publish" THEN building[g] \cap r.points ELSE {}
           gone == {p \in Points : Struck(r, p)}
<1>1. g \in Generations /\ r.points \subseteq Points
  BY DEF RequestRow
<1>2. /\ published' = [published EXCEPT ![g] = (published[g] \ gone) \cup lit]
      /\ building' = [building EXCEPT ![g] = ((building[g] \ gone) \ lit) \cup Dark(r)]
      /\ quiet' = (quiet /\ generation[g].fence = r.fence /\ generation[g].lease = "future")
  <2>1. /\ Doomed(r, published[g]) = published[g] \cap gone
        /\ Doomed(r, building[g]) = building[g] \cap gone
    BY <1>1, DoomedStruck DEF RemoteOK
  <2>2. /\ published' = [published EXCEPT ![g] = (published[g] \ Doomed(r, published[g])) \cup lit]
        /\ building' = [building EXCEPT ![g] =
                          ((building[g] \ Doomed(r, building[g])) \ lit) \cup Dark(r)]
        /\ quiet' = (quiet /\ generation[g].fence = r.fence /\ generation[g].lease = "future")
    BY DEF Arrives, Dark
  <2>3. /\ published[g] \ Doomed(r, published[g]) = published[g] \ gone
        /\ building[g] \ Doomed(r, building[g]) = building[g] \ gone
    BY <2>1
  <2> HIDE DEF gone, lit
  <2> QED BY <2>2, <2>3
<1>3. lost' = [lost EXCEPT ![g] =
        ((lost[g] \cup ((published[g] \cup building[g]) \cap gone)) \ Dark(r)) \cap mapped'[g]]
  <2>1. Doomed(r, published[g] \cup building[g]) = (published[g] \cup building[g]) \cap gone
    BY <1>1, DoomedStruck DEF RemoteOK
  <2>2. lost' = [lost EXCEPT ![g] =
          ((lost[g] \cup Doomed(r, published[g] \cup building[g])) \ Dark(r)) \cap mapped'[g]]
    BY DEF Loses, Dark
  <2> HIDE DEF gone
  <2> QED BY <2>1, <2>2
<1>4. /\ Dark(r) \subseteq gone /\ Dark(r) \subseteq Points
      /\ lit \subseteq building[g]
      /\ r.kind = "publish" => gone = {} /\ Dark(r) = {} /\ lit = building[g] \cap r.points
      /\ r.kind # "publish" => lit = {}
  BY <1>1 DEF Dark, Struck
<1>5. /\ published[g] \subseteq Points /\ building[g] \subseteq Points /\ lost[g] \subseteq Points
      /\ published[g] \cap building[g] = {}
  BY <1>1 DEF RemoteOK
<1> HIDE DEF g, lit, gone
<1>6. /\ published'[g] = (published[g] \ gone) \cup lit
      /\ building'[g] = ((building[g] \ gone) \ lit) \cup Dark(r)
      /\ lost'[g] = ((lost[g] \cup ((published[g] \cup building[g]) \cap gone)) \ Dark(r))
                    \cap mapped'[g]
      /\ \A h \in Generations \ {g} :
           published'[h] = published[h] /\ building'[h] = building[h] /\ lost'[h] = lost[h]
  BY <1>1, <1>2, <1>3 DEF RemoteOK
<1>7. RemoteOK'
  <2>1. mapped'[g] \subseteq Points
    BY <1>1
  <2>2. published'[g] \subseteq Points /\ building'[g] \subseteq Points /\ lost'[g] \subseteq Points
    BY <2>1, <1>4, <1>5, <1>6
  <2>3. published'[g] \cap building'[g] = {}
    <3>1. lit = {} \/ Dark(r) = {}
      BY <1>4
    <3>2. published'[g] \cap Dark(r) = {}
      BY <3>1, <1>4, <1>6
    <3> QED BY <3>2, <1>4, <1>5, <1>6
  <2>4. /\ published' \in [Generations -> SUBSET Points]
        /\ building' \in [Generations -> SUBSET Points]
        /\ lost' \in [Generations -> SUBSET Points]
    BY <2>2, <1>1, <1>2, <1>3, <1>6 DEF RemoteOK
  <2>5. \A h \in Generations : published'[h] \cap building'[h] = {}
    BY <2>3, <1>6 DEF RemoteOK
  <2>6. quiet' \in BOOLEAN
    BY <1>2 DEF RemoteOK
  <2> QED BY <2>4, <2>5, <2>6 DEF RemoteOK
<1>8. \A p \in mapped'[g] :
        p \in published[g] \cup building[g] \cup lost[g] \cup Dark(r) =>
          p \in published'[g] \cup building'[g] \cup lost'[g]
  BY <1>4, <1>6
<1>9. \A p \in mapped'[g] :
        p \in published[g] \cup lost[g] /\ p \notin Dark(r) => p \in published'[g] \cup lost'[g]
  BY <1>6
<1>10. r.kind = "publish" =>
         \A p \in mapped'[g] \cap r.points :
           p \in published[g] \cup building[g] \cup lost[g] => p \in published'[g] \cup lost'[g]
  BY <1>4, <1>6
<1>11. quiet' => quiet /\ generation[g].fence = r.fence
  BY <1>2
<1> QED BY <1>6, <1>7, <1>8, <1>9, <1>10, <1>11 DEF Arrived, g

\* A request deletes nothing that is mapped without counting it as lost.
LEMMA LocatedKept ==
  ASSUME Located, NEW r \in RequestRow, Arrived(r),
         \A h \in Generations :
           mapped'[h] \subseteq mapped[h] \cup (IF h = r.generation THEN Dark(r) ELSE {})
  PROVE  Located'
<1> SUFFICES ASSUME NEW h \in Generations, NEW p \in mapped'[h]
             PROVE  p \in published'[h] \cup building'[h] \cup lost'[h]
  BY DEF Located
<1>1. CASE h = r.generation
  <2>1. p \in published[h] \cup building[h] \cup lost[h] \cup Dark(r)
    BY <1>1 DEF Located
  <2> QED BY <2>1, <1>1 DEF Arrived
<1>2. CASE h # r.generation
  BY <1>2 DEF Located, Arrived
<1> QED BY <1>1, <1>2

\* A document that a request does not write stays complete.
LEMMA CompleteKept ==
  ASSUME NEW g \in Generations, NEW m \in Memories, Complete(g, m),
         NEW r \in RequestRow, Arrived(r),
         document'[g][m] = document[g][m],
         PointsOf(m, mapped'[g]) = PointsOf(m, mapped[g]),
         r.generation = g =>
           \/ document[g][m].state # "indexed"
           \/ \A p \in Dark(r) : p.memory # m
  PROVE  Complete(g, m)'
<1> SUFFICES ASSUME document'[g][m].state = "indexed"
             PROVE  /\ \E l \in Layouts :
                         PointsOf(m, mapped'[g]) = Build(m, document'[g][m].source, l)
                    /\ PointsOf(m, mapped'[g]) \ lost'[g] \subseteq published'[g]
  BY DEF Complete, Build, Point, PointsOf
<1>1. /\ \E l \in Layouts : PointsOf(m, mapped'[g]) = Build(m, document'[g][m].source, l)
      /\ PointsOf(m, mapped[g]) \ lost[g] \subseteq published[g]
  BY DEF Complete
<1>2. ASSUME NEW p \in PointsOf(m, mapped'[g])
      PROVE  p \in published'[g] \cup lost'[g]
  <2>1. p \in mapped'[g] /\ p.memory = m /\ p \in published[g] \cup lost[g]
    BY <1>1, <1>2 DEF PointsOf
  <2>2. r.generation = g => p \notin Dark(r)
    BY <2>1
  <2> QED BY <2>1, <2>2 DEF Arrived
<1> QED BY <1>1, <1>2

\* A request keeps complete documents complete, if its sender had the lease
\* and the document it writes is not indexed.
LEMMA QuietKept ==
  ASSUME QuietComplete, NEW r \in RequestRow, Arrived(r),
         \A g \in Generations, m \in Memories :
           (g = r.generation /\ m = r.memory) \/
             /\ document'[g][m] = document[g][m]
             /\ PointsOf(m, mapped'[g]) = PointsOf(m, mapped[g]),
         quiet' /\ r.memory \in Memories =>
           \/ /\ document'[r.generation][r.memory] = document[r.generation][r.memory]
              /\ PointsOf(r.memory, mapped'[r.generation])
                   = PointsOf(r.memory, mapped[r.generation])
           \/ Complete(r.generation, r.memory)',
         quiet' /\ r.kind = "upsert" =>
           /\ document[r.generation][r.memory].state # "indexed"
           /\ \A p \in r.points : p.memory = r.memory
  PROVE  QuietComplete'
<1> SUFFICES ASSUME quiet', NEW g \in Generations, NEW m \in Memories
             PROVE  Complete(g, m)'
  BY DEF QuietComplete
<1>1. Complete(g, m)
  BY DEF QuietComplete, Arrived
<1>2. r.generation = g =>
        \/ document[g][m].state # "indexed"
        \/ \A p \in Dark(r) : p.memory # m
  BY DEF Dark
<1>3. \/ /\ document'[g][m] = document[g][m]
         /\ PointsOf(m, mapped'[g]) = PointsOf(m, mapped[g])
      \/ Complete(g, m)'
  <2>1. CASE g = r.generation /\ m = r.memory
    BY <2>1
  <2>2. CASE ~(g = r.generation /\ m = r.memory)
    BY <2>2
  <2> QED BY <2>1, <2>2
<1> QED BY <1>1, <1>2, <1>3, CompleteKept

-----------------------------------------------------------------------------
(* What a call may do *)

\* A call with this row is at the point its document says.
RowUnderway(row, doc, map) ==
  LET has == PointsOf(row.memory, map)
      build == Build(row.memory, row.source, row.layout)
  IN
  /\ doc = [state |-> "building", source |-> row.source]
  /\ \A p \in row.points : p.memory = row.memory
  /\ row.pc \in {"prune", "drop"} => has \ row.points \subseteq build
  /\ row.pc \in {"embed", "upsert", "publish"} =>
       has \subseteq build /\ row.points \subseteq build
  /\ row.pc = "publish" => has = build /\ row.points = build

\* RowUnderway is UnderwayBy of a row that is not yet the caller's.
LEMMA UnderwayIs ==
  ASSUME NEW w \in Callers
  PROVE  UnderwayBy(w) <=>
           (caller[w].pc \in OnMemory /\ generation[caller[w].generation].fence = caller[w].fence =>
              RowUnderway(caller[w], document[caller[w].generation][caller[w].memory],
                          mapped[caller[w].generation]))
BY DEF UnderwayBy, RowUnderway, OnMemory, Expected

\* Documents and mappings change only under the current fence, and of the
\* memory the call is at.
Writes(w) ==
  LET g == caller[w].generation  m == caller[w].memory IN
  \/ document' = document /\ mapped' = mapped
  \/ /\ generation[g].fence = caller[w].fence
     /\ \A h \in Generations \ {g} : document'[h] = document[h] /\ mapped'[h] = mapped[h]

\* What the steps of a call have in common: it keeps its fence or ends, and a
\* request of it is only under way without it when it has ended.
CallMoves(w, row) ==
  /\ Goes(w, row) /\ RowOK(row)
  /\ \/ row.pc = "idle"
     \/ row.generation = caller[w].generation /\ row.fence = caller[w].fence
  /\ \A h \in Generations : generation'[h].fence = generation[h].fence
  /\ \/ stray' = stray
     \/ /\ row.pc = "idle" /\ Requesting(w) /\ stray' = stray \cup {Sent(w)}
        /\ document' = document
  /\ Writes(w)

\* The request of a call names the call's generation, fence and memory.
LEMMA SentTyped ==
  ASSUME CallersOK, NEW w \in Callers, Requesting(w)
  PROVE  /\ Sent(w) \in RequestRow
         /\ Sent(w).generation = caller[w].generation /\ Sent(w).fence = caller[w].fence
         /\ Sent(w).memory = caller[w].memory /\ Sent(w).kind = caller[w].pc
         /\ Sent(w).points = caller[w].points
<1>1. caller[w] \in CallerRow /\ caller[w].generation \in Generations
  BY DEF CallersOK, RowOK, Requesting
<1>2. caller[w].pc \in Requests
  BY DEF Requesting, Requests
<1>3. /\ caller[w].fence \in Nat /\ caller[w].memory \in Memories \cup {NoId}
      /\ caller[w].points \in SUBSET Points /\ caller[w].source.revision \in 0..2
  BY <1>1 DEF CallerRow, Source
<1> QED BY <1>1, <1>2, <1>3 DEF Sent, RequestRow

\* A step of a call keeps the calls and the requests apart and underway.
LEMMA CallKeeps ==
  ASSUME IndexInv, NEW w \in Callers, Busy(w), NEW row, CallMoves(w, row),
         row.pc \in OnMemory /\ generation[row.generation].fence = row.fence =>
           RowUnderway(row, document'[row.generation][row.memory], mapped'[row.generation])
  PROVE  /\ CallersOK' /\ stray' \in SUBSET RequestRow
         /\ FencesApart' /\ Underway' /\ LateUpserts'
<1> DEFINE g == caller[w].generation
<1>1. /\ caller' \in [Callers -> CallerRow]
      /\ caller'[w] = row
      /\ \A v \in Callers \ {w} : caller'[v] = caller[v]
  BY DEF IndexInv, CallersOK, CallMoves, Goes, RowOK
<1>2. CallersOK'
  <2>1. \A v \in Callers : RowOK(caller'[v])
    BY <1>1 DEF IndexInv, CallersOK, CallMoves
  <2>2. \A v \in Callers : RowOK(caller'[v]) <=> RowOK(caller[v])'
    BY DEF RowOK
  <2> QED BY <1>1, <2>1, <2>2 DEF CallersOK
<1>3. /\ \A v \in Callers : caller'[v].pc # "idle" =>
           /\ Busy(v) /\ caller'[v].generation = caller[v].generation
           /\ caller'[v].fence = caller[v].fence
           /\ caller[v].generation \in Generations
      /\ \A v \in Callers : Busy(v) => caller[v].generation \in Generations
  BY <1>1 DEF CallMoves, Busy, IndexInv, CallersOK, RowOK
<1>4. \A h \in Generations : generation'[h].fence = generation[h].fence
  BY DEF CallMoves
<1>5. FencesApart
  BY DEF IndexInv
<1>6. \A r \in stray' :
        /\ r \in RequestRow
        /\ \/ r \in stray
           \/ Requesting(w) /\ r = Sent(w) /\ row.pc = "idle" /\ document' = document
  BY SentTyped DEF CallMoves, IndexInv
<1>7. FencesApart'
  <2>1. \A v \in Callers :
          caller'[v].pc # "idle" => caller'[v].fence <= generation'[caller'[v].generation].fence
    BY <1>3, <1>4, <1>5 DEF FencesApart
  <2>2. \A u, v \in Callers :
          /\ u # v /\ caller'[u].pc # "idle" /\ caller'[v].pc # "idle"
          /\ caller'[u].generation = caller'[v].generation
          => caller'[u].fence # caller'[v].fence
    BY <1>3, <1>5 DEF FencesApart
  <2>3. ASSUME NEW r \in stray'
        PROVE  /\ r.fence <= generation'[r.generation].fence
               /\ \A v \in Callers :
                    caller'[v].pc # "idle" /\ caller'[v].generation = r.generation =>
                      caller'[v].fence # r.fence
    <3>0. r.generation \in Generations
      BY <1>6, <2>3 DEF RequestRow
    <3>1. CASE r \in stray
      BY <3>0, <3>1, <1>3, <1>4, <1>5 DEF FencesApart
    <3>2. CASE Requesting(w) /\ r = Sent(w) /\ row.pc = "idle"
      <4>1. r.generation = g /\ r.fence = caller[w].fence
        BY <3>2, SentTyped DEF IndexInv
      <4>2. r.fence <= generation'[r.generation].fence
        BY <4>1, <3>0, <1>4, <1>5 DEF FencesApart
      <4>3. caller'[w].pc = "idle"
        BY <3>2, <1>1
      <4> QED BY <4>1, <4>2, <4>3, <1>1, <1>5 DEF FencesApart, Busy
    <3> QED BY <3>1, <3>2, <1>6, <2>3
  <2> QED BY <2>1, <2>2, <2>3 DEF FencesApart, Busy
<1>8. Underway'
  <2> SUFFICES ASSUME NEW v \in Callers PROVE UnderwayBy(v)'
    BY DEF Underway
  <2> SUFFICES ASSUME caller'[v].pc \in OnMemory,
                      generation'[caller'[v].generation].fence = caller'[v].fence
               PROVE  RowUnderway(caller'[v], document'[caller'[v].generation][caller'[v].memory],
                                  mapped'[caller'[v].generation])
    BY DEF UnderwayBy, RowUnderway, OnMemory, Expected
  <2>1. CASE v = w
    <3>1. generation[row.generation].fence = row.fence
      BY <2>1, <1>1, <1>3, <1>4 DEF OnMemory
    <3> QED BY <2>1, <3>1, <1>1
  <2>2. CASE v # w
    <3> DEFINE h == caller[v].generation
    <3>1. caller'[v] = caller[v] /\ Busy(v) /\ h \in Generations
          /\ generation[h].fence = caller[v].fence
      BY <2>2, <1>1, <1>3, <1>4 DEF OnMemory
    <3>2. RowUnderway(caller[v], document[h][caller[v].memory], mapped[h])
      BY <3>1, UnderwayIs DEF IndexInv, Underway
    <3>3. document'[h] = document[h] /\ mapped'[h] = mapped[h]
      BY <2>2, <3>1, <1>5 DEF CallMoves, Writes, FencesApart
    <3> QED BY <3>1, <3>2, <3>3
  <2> QED BY <2>1, <2>2
<1>9. LateUpserts'
  <2> SUFFICES ASSUME NEW r \in stray', r.kind = "upsert",
                      r.fence = generation'[r.generation].fence
               PROVE  /\ document'[r.generation][r.memory].state = "building"
                      /\ \A p \in r.points : p.memory = r.memory
    BY DEF LateUpserts
  <2>0. r.generation \in Generations
    BY <1>6 DEF RequestRow
  <2>1. CASE r \in stray
    <3>1. /\ document[r.generation][r.memory].state = "building"
          /\ \A p \in r.points : p.memory = r.memory
      BY <2>0, <2>1, <1>4 DEF IndexInv, LateUpserts
    <3>2. document'[r.generation] = document[r.generation]
      BY <2>0, <2>1, <1>4, <1>5 DEF CallMoves, Writes, FencesApart
    <3> QED BY <3>1, <3>2
  <2>2. CASE Requesting(w) /\ r = Sent(w) /\ document' = document
    <3>1. /\ r.generation = g /\ r.fence = caller[w].fence /\ caller[w].pc = "upsert"
          /\ r.memory = caller[w].memory /\ r.points = caller[w].points
      BY <2>2, SentTyped DEF IndexInv
    <3>2. RowUnderway(caller[w], document[g][caller[w].memory], mapped[g])
      BY <3>1, <2>0, <1>4, UnderwayIs DEF IndexInv, Underway, OnMemory
    <3> QED BY <2>2, <3>1, <3>2 DEF RowUnderway
  <2> QED BY <2>1, <2>2, <1>6
<1> QED BY <1>2, <1>6, <1>7, <1>8, <1>9

\* A generation keeps its state and its fence, whoever leases it.
GenerationKept ==
  /\ generation' \in [Generations -> GenerationRow]
  /\ \A h \in Generations : /\ generation'[h].fence = generation[h].fence
                            /\ generation'[h].state = generation[h].state

\* The tables keep their types if a generation keeps its state.
LEMMA LocalKept ==
  ASSUME LocalOK, GenerationKept, serving' = serving,
         document' \in [Generations -> [Memories -> DocumentRow]],
         manifest' \in [Generations -> [Memories -> ItemRow]],
         mapped' \in [Generations -> SUBSET Points]
  PROVE  LocalOK'
BY DEF LocalOK, GenerationKept

\* Releasing a lease keeps the state and the fence of every generation.
LEMMA ReleasedOK ==
  ASSUME LocalOK, NEW w \in Callers, caller[w].generation \in Generations
  PROVE  /\ Released(w) \in [Generations -> GenerationRow]
         /\ \A h \in Generations : /\ Released(w)[h].fence = generation[h].fence
                                   /\ Released(w)[h].state = generation[h].state
<1> DEFINE g == caller[w].generation
           row == [generation[g] EXCEPT !.owner = Nobody, !.lease = "null"]
<1>1. generation \in [Generations -> GenerationRow] /\ generation[g] \in GenerationRow
  BY DEF LocalOK
<1>2. /\ row \in GenerationRow /\ row.fence = generation[g].fence
      /\ row.state = generation[g].state
  BY <1>1 DEF GenerationRow
<1>3. Released(w) = generation \/ Released(w) = [generation EXCEPT ![g] = row]
  BY DEF Released
<1> HIDE DEF g, row
<1> QED BY <1>1, <1>2, <1>3

\* A call that is over has no generation and no memory.
LEMMA IdleOK ==
  /\ RowOK(Idle) /\ Idle.pc = "idle" /\ Idle \in CallerRow
  /\ Idle.generation = NoGeneration /\ Idle.memory = NoId
<1>1. NoSource \in Source /\ NoPins \in Pins
  <2>1. NoSource \in Source
    BY DEF NoSource, Source
  <2>2. NoPins \in [{} -> Source] /\ {} \in SUBSET Memories
    BY DEF NoPins
  <2>3. NoPins \in Pins
    BY <2>2 DEF Pins
  <2> QED BY <2>1, <2>3
<1> QED BY <1>1 DEF RowOK, Idle, CallerRow, OnMemory

\* What stands in a row when the call is at another point.
LEMMA RowAt ==
  ASSUME NEW row, RowOK(row), row.pc # "idle",
         NEW pc \in {"loop", "embed", "sweep", "drop", "upsert", "publish", "hide"},
         pc \in OnMemory => row.pc \in OnMemory,
         pc = "hide" => row.memory \in Memories
  PROVE  /\ RowOK([row EXCEPT !.pc = pc])
         /\ [row EXCEPT !.pc = pc].pc = pc
         /\ [row EXCEPT !.pc = pc].generation = row.generation
         /\ [row EXCEPT !.pc = pc].fence = row.fence
         /\ [row EXCEPT !.pc = pc].memory = row.memory
         /\ [row EXCEPT !.pc = pc].source = row.source
         /\ [row EXCEPT !.pc = pc].layout = row.layout
         /\ [row EXCEPT !.pc = pc].points = row.points
<1> DEFINE new == [row EXCEPT !.pc = pc]
<1>1. /\ new \in CallerRow /\ new.pc = pc /\ new.generation = row.generation
      /\ new.fence = row.fence /\ new.memory = row.memory /\ new.source = row.source
      /\ new.layout = row.layout /\ new.points = row.points
  BY DEF RowOK, CallerRow, Requests
<1> HIDE DEF new
<1>2. RowOK(new)
  BY <1>1 DEF RowOK, OnMemory
<1> QED BY <1>1, <1>2 DEF new

\* The end of a call.
LEMMA EndsAs ==
  ASSUME IndexInv, NEW w \in Callers, Busy(w), Ends(w)
  PROVE  Goes(w, Idle) /\ GenerationKept
<1>1. caller[w].generation \in Generations
  BY DEF IndexInv, CallersOK, RowOK, Busy
<1> QED BY <1>1, ReleasedOK DEF Ends, GenerationKept, IndexInv

\* A call that does not go on ends, or hides the memory it was at.
Halts(w) ==
  \E row \in CallerRow :
    /\ Goes(w, row) /\ RowOK(row) /\ row.pc \in {"idle", "hide"}
    /\ \/ row.pc = "idle"
       \/ row.generation = caller[w].generation /\ row.fence = caller[w].fence

\* Both ways of halting keep the generations.
LEMMA Halting ==
  ASSUME IndexInv, NEW w \in Callers, Busy(w),
         Ends(w) \/ (Stops(w) /\ caller[w].memory \in Memories)
  PROVE  Halts(w) /\ GenerationKept
<1>1. CASE Ends(w)
  BY <1>1, EndsAs, IdleOK DEF Halts
<1>2. CASE ~Ends(w)
  <2> DEFINE row == [caller[w] EXCEPT !.pc = "hide"]
  <2>1. Goes(w, row) /\ UNCHANGED generation /\ caller[w].memory \in Memories
    BY <1>2 DEF Stops
  <2>2. RowOK(caller[w]) /\ caller[w].pc # "idle"
    BY DEF IndexInv, CallersOK, Busy
  <2>3. /\ RowOK(row) /\ row.pc = "hide" /\ row.generation = caller[w].generation
        /\ row.fence = caller[w].fence
    BY <2>1, <2>2, RowAt DEF OnMemory
  <2> HIDE DEF row
  <2>4. row \in CallerRow
    BY <2>3 DEF RowOK
  <2>5. Halts(w)
    BY <2>1, <2>3, <2>4 DEF Halts
  <2>6. GenerationKept
    BY <2>1 DEF IndexInv, LocalOK, GenerationKept
  <2> QED BY <2>5, <2>6
<1> QED BY <1>1, <1>2

\* Between two requests: nothing is remote, and no document becomes indexed.
LEMMA LocalKeeps ==
  ASSUME IndexInv, NEW w \in Callers, Busy(w), NEW row, CallMoves(w, row),
         row.pc \in OnMemory /\ generation[row.generation].fence = row.fence =>
           RowUnderway(row, document'[row.generation][row.memory], mapped'[row.generation]),
         LocalOK', RestOK', UNCHANGED <<remote, history, mapped>>,
         \A g \in Generations, m \in Memories :
           document'[g][m] = document[g][m] \/ document'[g][m].state # "indexed"
  PROVE  IndexInv'
<1>1. /\ CallersOK' /\ stray' \in SUBSET RequestRow
      /\ FencesApart' /\ Underway' /\ LateUpserts'
  BY CallKeeps
<1>2. RemoteOK' /\ Located'
  BY DEF IndexInv, RemoteOK, Located, remote, history
<1>3. QuietComplete'
  <2> SUFFICES ASSUME quiet', NEW g \in Generations, NEW m \in Memories,
                      document'[g][m].state = "indexed"
               PROVE  /\ \E l \in Layouts :
                           PointsOf(m, mapped'[g]) = Build(m, document'[g][m].source, l)
                      /\ PointsOf(m, mapped'[g]) \ lost'[g] \subseteq published'[g]
    BY DEF QuietComplete, Complete, Build, Point, PointsOf
  <2>1. quiet /\ document'[g][m] = document[g][m]
    BY DEF history
  <2>2. Complete(g, m)
    BY <2>1 DEF IndexInv, QuietComplete
  <2> QED BY <2>1, <2>2 DEF Complete, remote, history
<1> QED BY <1>1, <1>2, <1>3 DEF IndexInv

\* Where the document of the call's memory stays as it is, or is written.
Elsewhere(w) ==
  \A g \in Generations, m \in Memories :
    (g = caller[w].generation /\ m = caller[w].memory) \/
      /\ document'[g][m] = document[g][m]
      /\ PointsOf(m, mapped'[g]) = PointsOf(m, mapped[g])
AsBefore(w) ==
  LET g == caller[w].generation  m == caller[w].memory IN
  document'[g][m] = document[g][m] /\ PointsOf(m, mapped'[g]) = PointsOf(m, mapped[g])

\* A request of a call arrives; the call goes on, or is over.
LEMMA RequestKeeps ==
  ASSUME IndexInv, NEW w \in Callers, Requesting(w), NEW row, CallMoves(w, row),
         NEW gw, NEW mw, gw = caller[w].generation, mw = caller[w].memory,
         row.pc \in OnMemory /\ generation[row.generation].fence = row.fence =>
           RowUnderway(row, document'[row.generation][row.memory], mapped'[row.generation]),
         LocalOK', RestOK', Arrives(Sent(w)), Loses(Sent(w)),
         \A h \in Generations :
           mapped'[h] \subseteq mapped[h] \cup
             (IF h = caller[w].generation THEN Dark(Sent(w)) ELSE {}),
         Elsewhere(w),
         quiet' /\ mw \in Memories => AsBefore(w) \/ Complete(gw, mw)'
  PROVE  IndexInv'
<1>1. Busy(w)
  BY DEF Requesting, Busy
<1>2. /\ CallersOK' /\ stray' \in SUBSET RequestRow
      /\ FencesApart' /\ Underway' /\ LateUpserts'
  BY <1>1, CallKeeps
<1>3. PICK r \in RequestRow :
        /\ r = Sent(w) /\ r.generation = caller[w].generation /\ r.fence = caller[w].fence
        /\ r.memory = caller[w].memory /\ r.kind = caller[w].pc /\ r.points = caller[w].points
  BY SentTyped DEF IndexInv
<1>4. RemoteOK' /\ Arrived(r)
  BY <1>3, Arrival DEF IndexInv, LocalOK
<1>5. Located'
  BY <1>3, <1>4, LocatedKept DEF IndexInv
<1>6. quiet' /\ r.kind = "upsert" =>
        /\ document[r.generation][r.memory].state # "indexed"
        /\ \A p \in r.points : p.memory = r.memory
  <2> SUFFICES ASSUME quiet', r.kind = "upsert"
               PROVE  /\ document[r.generation][r.memory].state # "indexed"
                      /\ \A p \in r.points : p.memory = r.memory
    OBVIOUS
  <2>1. generation[r.generation].fence = caller[w].fence
    BY <1>3, <1>4 DEF Arrived
  <2>2. RowUnderway(caller[w], document[r.generation][r.memory], mapped[r.generation])
    BY <1>3, <2>1, UnderwayIs DEF IndexInv, Underway, OnMemory
  <2> QED BY <1>3, <2>2 DEF RowUnderway
<1>7. \A g \in Generations, m \in Memories :
        (g = r.generation /\ m = r.memory) \/
          /\ document'[g][m] = document[g][m]
          /\ PointsOf(m, mapped'[g]) = PointsOf(m, mapped[g])
  BY <1>3 DEF Elsewhere
<1>8. quiet' /\ r.memory \in Memories =>
        \/ /\ document'[r.generation][r.memory] = document[r.generation][r.memory]
           /\ PointsOf(r.memory, mapped'[r.generation])
                = PointsOf(r.memory, mapped[r.generation])
        \/ Complete(r.generation, r.memory)'
  <2> SUFFICES ASSUME quiet', r.memory \in Memories
               PROVE  \/ /\ document'[r.generation][r.memory] = document[r.generation][r.memory]
                         /\ PointsOf(r.memory, mapped'[r.generation])
                              = PointsOf(r.memory, mapped[r.generation])
                      \/ Complete(r.generation, r.memory)'
    OBVIOUS
  <2>1. CASE AsBefore(w)
    BY <2>1, <1>3 DEF AsBefore
  <2>2. CASE Complete(gw, mw)'
    <3>1. r.generation = gw /\ r.memory = mw
      BY <1>3
    <3> QED BY <2>2, <3>1 DEF Complete, PointsOf
  <2> QED BY <2>1, <2>2, <1>3
<1>9. QuietComplete'
  BY <1>4, <1>6, <1>7, <1>8, QuietKept DEF IndexInv
<1> QED BY <1>2, <1>4, <1>5, <1>9 DEF IndexInv

\* A build consists of points of its memory.
LEMMA BuildTyped ==
  ASSUME NEW m \in Memories, NEW s \in Source, NEW l \in Layouts
  PROVE  Build(m, s, l) \subseteq Points /\ \A p \in Build(m, s, l) : p.memory = m
<1>1. \A c \in 1..l : c \in Nat /\ Point(m, s, l, c) \in Points /\ Point(m, s, l, c).memory = m
  BY LayoutsAssumption DEF Point, Points
<1> QED BY <1>1 DEF Build

\* What the types say of a call.
LEMMA AtWork ==
  ASSUME IndexInv, NEW w \in Callers
  PROVE  /\ RowOK(caller[w]) /\ caller[w] \in CallerRow
         /\ caller[w].pc # "idle" => caller[w].generation \in Generations
         /\ caller[w].source \in Source /\ caller[w].points \subseteq Points
         /\ caller[w].fence \in Nat /\ caller[w].todo \subseteq Memories
         /\ caller[w].pc \in OnMemory =>
              /\ caller[w].memory \in Memories /\ caller[w].layout \in Layouts
              /\ Expected(w) \subseteq Points
              /\ \A p \in Expected(w) : p.memory = caller[w].memory
         /\ caller[w].pc = "hide" => caller[w].memory \in Memories
<1>1. RowOK(caller[w]) /\ caller[w] \in CallerRow
  BY DEF IndexInv, CallersOK
<1>2. /\ caller[w].source \in Source /\ caller[w].points \subseteq Points
      /\ caller[w].fence \in Nat /\ caller[w].todo \subseteq Memories
  BY <1>1 DEF CallerRow
<1> QED BY <1>1, <1>2, BuildTyped DEF RowOK, Expected

\* The place a call goes on to, when its points are `done`.
LEMMA GoesOnward ==
  ASSUME IndexInv, NEW w \in Callers, caller[w].pc \in OnMemory, NEW done, Onward(w, done)
  PROVE  \E row \in CallerRow :
           /\ Goes(w, row) /\ RowOK(row) /\ row.pc \in {"embed", "publish"}
           /\ row.generation = caller[w].generation /\ row.fence = caller[w].fence
           /\ row.memory = caller[w].memory /\ row.source = caller[w].source
           /\ row.layout = caller[w].layout
           /\ row.points \subseteq Expected(w)
           /\ row.pc = "publish" => Expected(w) \subseteq done /\ row.points = Expected(w)
<1>1. RowOK(caller[w]) /\ caller[w] \in CallerRow /\ Expected(w) \subseteq Points
  BY AtWork
<1>2. \E S \in SUBSET Expected(w), pc \in {"embed", "publish"} :
        /\ Goes(w, [caller[w] EXCEPT !.pc = pc, !.points = S])
        /\ pc = "publish" => Expected(w) \subseteq done /\ S = Expected(w)
  BY DEF Onward
<1>3. PICK S \in SUBSET Expected(w), pc \in {"embed", "publish"} :
        /\ Goes(w, [caller[w] EXCEPT !.pc = pc, !.points = S])
        /\ pc = "publish" => Expected(w) \subseteq done /\ S = Expected(w)
  BY <1>2
<1> DEFINE row == [caller[w] EXCEPT !.pc = pc, !.points = S]
<1>4. /\ row \in CallerRow /\ row.pc = pc /\ row.points = S
      /\ row.generation = caller[w].generation /\ row.fence = caller[w].fence
      /\ row.memory = caller[w].memory /\ row.source = caller[w].source
      /\ row.layout = caller[w].layout
  BY <1>1 DEF CallerRow, Requests
<1>5. Goes(w, row)
  BY <1>3
<1> HIDE DEF row
<1>6. RowOK(row)
  BY <1>1, <1>4 DEF RowOK, OnMemory
<1> QED BY <1>3, <1>4, <1>5, <1>6

\* A call that halts between two requests.
LEMMA HaltsLocally ==
  ASSUME IndexInv, NEW w \in Callers, Busy(w),
         Ends(w) \/ (Stops(w) /\ caller[w].memory \in Memories),
         UNCHANGED <<serving, document, mapped, manifest, remote, stray, history, layout,
                     calls, pauses>>
  PROVE  IndexInv'
<1>1. Halts(w) /\ GenerationKept
  BY Halting
<1>2. PICK row \in CallerRow :
        /\ Goes(w, row) /\ RowOK(row) /\ row.pc \in {"idle", "hide"}
        /\ \/ row.pc = "idle"
           \/ row.generation = caller[w].generation /\ row.fence = caller[w].fence
  BY <1>1 DEF Halts
<1>3. CallMoves(w, row)
  BY <1>1, <1>2 DEF CallMoves, Writes, GenerationKept
<1>4. LocalOK' /\ RestOK'
  BY <1>1, LocalKept DEF IndexInv, LocalOK, RestOK
<1> QED BY <1>2, <1>3, <1>4, LocalKeeps DEF OnMemory

\* A call that halts at the answer to a request.
LEMMA HaltsAnswered ==
  ASSUME IndexInv, NEW w \in Callers, Requesting(w), Arrives(Sent(w)), Loses(Sent(w)),
         Ends(w) \/ (Stops(w) /\ caller[w].memory \in Memories),
         UNCHANGED <<serving, document, mapped, manifest, stray, layout, calls, pauses>>
  PROVE  IndexInv'
<1>0. Busy(w)
  BY DEF Busy, Requesting
<1>1. Halts(w) /\ GenerationKept
  BY <1>0, Halting
<1>2. PICK row \in CallerRow :
        /\ Goes(w, row) /\ RowOK(row) /\ row.pc \in {"idle", "hide"}
        /\ \/ row.pc = "idle"
           \/ row.generation = caller[w].generation /\ row.fence = caller[w].fence
  BY <1>1 DEF Halts
<1>3. CallMoves(w, row)
  BY <1>1, <1>2 DEF CallMoves, Writes, GenerationKept
<1>4. LocalOK' /\ RestOK'
  BY <1>1, LocalKept DEF IndexInv, LocalOK, RestOK
<1>5. Elsewhere(w) /\ AsBefore(w)
  BY DEF Elsewhere, AsBefore
<1> QED BY <1>2, <1>3, <1>4, <1>5, RequestKeeps DEF OnMemory

-----------------------------------------------------------------------------
(* The steps of indexSource *)

\* The vectors of a chunk have come.
LEMMA EmbeddedStep ==
  ASSUME IndexInv, NEW w \in Callers, Embedded(w)
  PROVE  IndexInv'
<1>1. /\ caller[w].pc = "embed"
      /\ UNCHANGED <<serving, document, mapped, manifest, remote, stray, history, layout,
                     calls, pauses>>
  BY DEF Embedded, Bare
<1>2. /\ Busy(w) /\ caller[w].memory \in Memories /\ RowOK(caller[w])
      /\ caller[w].generation \in Generations
  BY <1>1, AtWork DEF Busy, OnMemory
<1>3. CASE ~Checked(w)
  BY <1>1, <1>2, <1>3, HaltsLocally DEF Embedded
<1>4. CASE Checked(w)
  <2> DEFINE row == [caller[w] EXCEPT !.pc = "upsert"]
  <2>1. Goes(w, row) /\ UNCHANGED generation
    BY <1>4 DEF Embedded
  <2>2. /\ RowOK(row) /\ row.pc = "upsert"
        /\ row.generation = caller[w].generation /\ row.fence = caller[w].fence
        /\ row.memory = caller[w].memory /\ row.source = caller[w].source
        /\ row.layout = caller[w].layout /\ row.points = caller[w].points
    BY <1>1, <1>2, RowAt DEF OnMemory
  <2> HIDE DEF row
  <2>3. CallMoves(w, row)
    BY <1>1, <2>1, <2>2 DEF CallMoves, Writes
  <2>4. generation[row.generation].fence = row.fence =>
          RowUnderway(row, document'[row.generation][row.memory], mapped'[row.generation])
    <3>1. generation[row.generation].fence = row.fence =>
            RowUnderway(caller[w], document[row.generation][row.memory], mapped[row.generation])
      BY <1>1, <2>2, UnderwayIs DEF IndexInv, Underway, OnMemory
    <3> QED BY <1>1, <2>2, <3>1 DEF RowUnderway
  <2>5. LocalOK' /\ RestOK'
    BY <1>1, <2>1 DEF IndexInv, LocalOK, RestOK
  <2> QED BY <1>1, <1>2, <2>3, <2>4, <2>5, LocalKeeps
<1> QED BY <1>3, <1>4

\* The current fence of a call that acts on an answer, and its document.
LEMMA OwnsUnderway ==
  ASSUME IndexInv, NEW w \in Callers, caller[w].pc \in OnMemory, Owns(w)
  PROVE  /\ generation[caller[w].generation].fence = caller[w].fence
         /\ RowUnderway(caller[w], document[caller[w].generation][caller[w].memory],
                        mapped[caller[w].generation])
BY UnderwayIs DEF IndexInv, Underway, Owns

\* The points of other revisions are deleted.
LEMMA PrunedStep ==
  ASSUME IndexInv, NEW w \in Callers, Pruned(w)
  PROVE  IndexInv'
<1> DEFINE g == caller[w].generation
           m == caller[w].memory
<1>1. /\ caller[w].pc = "prune" /\ Arrives(Sent(w)) /\ Loses(Sent(w))
      /\ UNCHANGED <<serving, document, mapped, manifest, stray, layout, calls, pauses>>
  BY DEF Pruned, Bare
<1>2. /\ Requesting(w) /\ Busy(w) /\ m \in Memories /\ RowOK(caller[w])
      /\ g \in Generations
  BY <1>1, AtWork DEF Busy, OnMemory, Requesting
<1>3. CASE ~Checked(w)
  BY <1>1, <1>2, <1>3, HaltsAnswered DEF Pruned
<1>4. CASE Checked(w)
  <2>1. /\ generation[g].fence = caller[w].fence
        /\ RowUnderway(caller[w], document[g][m], mapped[g])
    BY <1>1, <1>4, OwnsUnderway DEF Checked, OnMemory
  <2>2. UNCHANGED generation
    BY <1>4 DEF Pruned
  <2>3. \E row \in CallerRow :
          /\ Goes(w, row) /\ RowOK(row)
          /\ row.generation = g /\ row.fence = caller[w].fence
          /\ RowUnderway(row, document[g][row.memory], mapped[g])
    <3>1. CASE caller[w].points # {}
      <4> DEFINE row == [caller[w] EXCEPT !.pc = "drop"]
      <4>1. Goes(w, row)
        BY <1>4, <3>1 DEF Pruned
      <4>2. /\ RowOK(row) /\ row.pc = "drop"
            /\ row.generation = g /\ row.fence = caller[w].fence
            /\ row.memory = m /\ row.source = caller[w].source
            /\ row.layout = caller[w].layout /\ row.points = caller[w].points
        BY <1>1, <1>2, RowAt DEF OnMemory
      <4> HIDE DEF row, g, m
      <4>3. RowUnderway(row, document[g][row.memory], mapped[g])
        BY <1>1, <2>1, <4>2 DEF RowUnderway, m
      <4> QED BY <4>1, <4>2, <4>3 DEF RowOK
    <3>2. CASE caller[w].points = {}
      <4>1. Onward(w, mapped[g])
        BY <1>4, <3>2 DEF Pruned
      <4>2. PICK row \in CallerRow :
              /\ Goes(w, row) /\ RowOK(row) /\ row.pc \in {"embed", "publish"}
              /\ row.generation = g /\ row.fence = caller[w].fence
              /\ row.memory = m /\ row.source = caller[w].source
              /\ row.layout = caller[w].layout
              /\ row.points \subseteq Expected(w)
              /\ row.pc = "publish" =>
                   Expected(w) \subseteq mapped[g] /\ row.points = Expected(w)
        BY <1>1, <4>1, GoesOnward DEF OnMemory
      <4>3. /\ \A p \in Expected(w) : p.memory = m
            /\ Expected(w) = Build(m, caller[w].source, caller[w].layout)
        BY <1>1, AtWork DEF Expected, OnMemory
      <4>4. PointsOf(m, mapped[g]) \subseteq Expected(w)
        BY <1>1, <2>1, <3>2, <4>3 DEF RowUnderway
      <4>5. row.pc = "publish" => PointsOf(m, mapped[g]) = Expected(w)
        BY <4>2, <4>3, <4>4 DEF PointsOf
      <4> HIDE DEF g, m
      <4>6. RowUnderway(row, document[g][row.memory], mapped[g])
        BY <2>1, <4>2, <4>3, <4>4, <4>5 DEF RowUnderway, m
      <4> QED BY <4>2, <4>6
    <3> QED BY <3>1, <3>2
  <2>4. PICK row \in CallerRow :
          /\ Goes(w, row) /\ RowOK(row)
          /\ row.generation = g /\ row.fence = caller[w].fence
          /\ RowUnderway(row, document[g][row.memory], mapped[g])
    BY <2>3
  <2>5. CallMoves(w, row)
    BY <1>1, <2>2, <2>4 DEF CallMoves, Writes
  <2>6. LocalOK' /\ RestOK'
    BY <1>1, <2>2 DEF IndexInv, LocalOK, RestOK
  <2>7. Elsewhere(w) /\ AsBefore(w)
    BY <1>1 DEF Elsewhere, AsBefore
  <2> QED BY <1>1, <1>2, <2>4, <2>5, <2>6, <2>7, RequestKeeps
<1> QED BY <1>3, <1>4

\* A call goes on with its build when its request changed its own points in
\* the mapping, and what is mapped then belongs to the build.
LEMMA OnwardKeeps ==
  ASSUME IndexInv, NEW w \in Callers, Requesting(w), caller[w].pc \in OnMemory, Owns(w),
         Arrives(Sent(w)), Loses(Sent(w)), NEW map \in SUBSET Points,
         mapped' = [mapped EXCEPT ![caller[w].generation] = map],
         map \subseteq mapped[caller[w].generation] \cup Dark(Sent(w)),
         \A n \in Memories \ {caller[w].memory} :
           PointsOf(n, map) = PointsOf(n, mapped[caller[w].generation]),
         PointsOf(caller[w].memory, map) \subseteq Expected(w),
         Onward(w, map),
         UNCHANGED <<generation, serving, document, manifest, stray, layout, calls, pauses>>
  PROVE  IndexInv'
<1> DEFINE g == caller[w].generation
           m == caller[w].memory
<1>1. /\ m \in Memories /\ g \in Generations /\ Busy(w)
  BY AtWork DEF Busy, Requesting
<1>2. /\ generation[g].fence = caller[w].fence
      /\ RowUnderway(caller[w], document[g][m], mapped[g])
  BY OwnsUnderway
<1>3. /\ mapped'[g] = map
      /\ \A h \in Generations \ {g} : mapped'[h] = mapped[h]
      /\ mapped' \in [Generations -> SUBSET Points]
  BY <1>1 DEF IndexInv, LocalOK
<1>4. PICK row \in CallerRow :
        /\ Goes(w, row) /\ RowOK(row) /\ row.pc \in {"embed", "publish"}
        /\ row.generation = g /\ row.fence = caller[w].fence
        /\ row.memory = m /\ row.source = caller[w].source
        /\ row.layout = caller[w].layout
        /\ row.points \subseteq Expected(w)
        /\ row.pc = "publish" => Expected(w) \subseteq map /\ row.points = Expected(w)
  BY GoesOnward
<1>5. /\ \A p \in Expected(w) : p.memory = m
      /\ Expected(w) = Build(m, caller[w].source, caller[w].layout)
  BY AtWork DEF Expected
<1>6. PointsOf(m, map) \subseteq Expected(w)
  OBVIOUS
<1>7. row.pc = "publish" => PointsOf(m, map) = Expected(w)
  BY <1>4, <1>5, <1>6 DEF PointsOf
<1>8. document[g][m] = [state |-> "building", source |-> caller[w].source]
  BY <1>2 DEF RowUnderway
<1>9. CallMoves(w, row)
  BY <1>2, <1>3, <1>4 DEF CallMoves, Writes
<1>10. LocalOK' /\ RestOK'
  BY <1>3 DEF IndexInv, LocalOK, RestOK
<1>11. Elsewhere(w)
  BY <1>3 DEF Elsewhere
<1>12. PICK gw, mw : gw = g /\ mw = m
  OBVIOUS
<1>13. Complete(gw, mw)'
  <2>1. document'[gw][mw].state # "indexed"
    BY <1>8, <1>12
  <2> QED BY <2>1 DEF Complete
<1>14. \A h \in Generations :
         mapped'[h] \subseteq mapped[h] \cup (IF h = g THEN Dark(Sent(w)) ELSE {})
  BY <1>3
<1>15. document' = document
  OBVIOUS
<1> HIDE DEF g, m
<1>16. RowUnderway(row, document'[row.generation][row.memory], mapped'[row.generation])
  BY ONLY <1>3, <1>4, <1>5, <1>6, <1>7, <1>8, <1>15 DEF RowUnderway
<1> USE DEF g, m
<1> QED BY <1>4, <1>9, <1>10, <1>11, <1>12, <1>13, <1>14, <1>16, RequestKeeps

\* A call drops the points of an earlier build.
LEMMA DroppedStep ==
  ASSUME IndexInv, NEW w \in Callers, Dropped(w)
  PROVE  IndexInv'
<1> DEFINE g == caller[w].generation
           m == caller[w].memory
           map == mapped[g] \ caller[w].points
<1>1. /\ caller[w].pc = "drop" /\ Arrives(Sent(w)) /\ Loses(Sent(w))
      /\ UNCHANGED <<serving, document, manifest, stray, layout, calls, pauses>>
  BY DEF Dropped, Bare
<1>2. /\ Requesting(w) /\ m \in Memories /\ g \in Generations
  BY <1>1, AtWork DEF OnMemory, Requesting
<1>3. CASE ~Checked(w)
  BY <1>1, <1>2, <1>3, HaltsAnswered DEF Dropped
<1>4. CASE Checked(w)
  <2>1. /\ mapped' = [mapped EXCEPT ![g] = map] /\ Onward(w, map) /\ UNCHANGED generation
    BY <1>4 DEF Dropped
  <2>2. RowUnderway(caller[w], document[g][m], mapped[g])
    BY <1>1, <1>4, OwnsUnderway DEF Checked, OnMemory
  <2>3. /\ \A p \in caller[w].points : p.memory = m
        /\ PointsOf(m, mapped[g]) \ caller[w].points \subseteq Expected(w)
    BY <1>1, <2>2 DEF RowUnderway, Expected
  <2>4. PointsOf(m, map) \subseteq Expected(w)
    BY <2>3 DEF PointsOf
  <2>5. \A n \in Memories \ {m} : PointsOf(n, map) = PointsOf(n, mapped[g])
    BY <2>3 DEF PointsOf
  <2>6. map \in SUBSET Points /\ map \subseteq mapped[g] \cup Dark(Sent(w))
    BY <1>2 DEF IndexInv, LocalOK
  <2>7. Owns(w) /\ caller[w].pc \in OnMemory
    BY <1>1, <1>4 DEF Checked, OnMemory
  <2> HIDE DEF map
  <2> QED BY <1>1, <1>2, <2>1, <2>4, <2>5, <2>6, <2>7, OnwardKeeps
<1> QED BY <1>3, <1>4

\* A call writes the next points of its build.
LEMMA UpsertedStep ==
  ASSUME IndexInv, NEW w \in Callers, Upserted(w)
  PROVE  IndexInv'
<1> DEFINE g == caller[w].generation
           m == caller[w].memory
           map == mapped[g] \cup caller[w].points
<1>1. /\ caller[w].pc = "upsert" /\ Arrives(Sent(w)) /\ Loses(Sent(w))
      /\ UNCHANGED <<serving, document, manifest, stray, layout, calls, pauses>>
  BY DEF Upserted, Bare
<1>2. /\ Requesting(w) /\ m \in Memories /\ g \in Generations
  BY <1>1, AtWork DEF OnMemory, Requesting
<1>3. CASE ~Checked(w)
  BY <1>1, <1>2, <1>3, HaltsAnswered DEF Upserted
<1>4. CASE Checked(w)
  <2>1. /\ mapped' = [mapped EXCEPT ![g] = map] /\ Onward(w, map) /\ UNCHANGED generation
    BY <1>4 DEF Upserted
  <2>2. RowUnderway(caller[w], document[g][m], mapped[g])
    BY <1>1, <1>4, OwnsUnderway DEF Checked, OnMemory
  <2>3. /\ \A p \in caller[w].points : p.memory = m
        /\ PointsOf(m, mapped[g]) \subseteq Expected(w)
        /\ caller[w].points \subseteq Expected(w)
    BY <1>1, <2>2 DEF RowUnderway, Expected
  <2>4. PointsOf(m, map) \subseteq Expected(w)
    BY <2>3 DEF PointsOf
  <2>5. \A n \in Memories \ {m} : PointsOf(n, map) = PointsOf(n, mapped[g])
    BY <2>3 DEF PointsOf
  <2>6. Dark(Sent(w)) = caller[w].points
    BY <1>1, <1>2, SentTyped DEF IndexInv, Dark
  <2>7. map \in SUBSET Points /\ map \subseteq mapped[g] \cup Dark(Sent(w))
    BY <1>2, <2>6, AtWork DEF IndexInv, LocalOK
  <2>8. Owns(w) /\ caller[w].pc \in OnMemory
    BY <1>1, <1>4 DEF Checked, OnMemory
  <2> HIDE DEF map
  <2> QED BY <1>1, <1>2, <2>1, <2>4, <2>5, <2>7, <2>8, OnwardKeeps
<1> QED BY <1>3, <1>4

\* A call is done with a memory and goes on to the next one.
LEMMA VisitedRow ==
  ASSUME IndexInv, NEW w \in Callers, Busy(w), NEW m, Visited(w, m)
  PROVE  \E row \in CallerRow :
           /\ Goes(w, row) /\ RowOK(row) /\ row.pc = "loop"
           /\ row.generation = caller[w].generation /\ row.fence = caller[w].fence
<1> DEFINE old == caller[w]
           row == [old EXCEPT !.pc = "loop", !.todo = @ \ {m}, !.memory = NoId,
                              !.source = NoSource, !.layout = 0, !.points = {}]
<1>1. old \in CallerRow /\ old.generation \in Generations
  BY AtWork DEF Busy
<1>2. NoSource \in Source
  BY DEF NoSource, Source
<1>3. row \in CallerRow /\ row.pc = "loop" /\ row.generation = old.generation
      /\ row.fence = old.fence
  BY <1>1, <1>2 DEF CallerRow
<1>4. Goes(w, row)
  BY DEF Visited
<1> HIDE DEF row
<1>5. RowOK(row)
  BY <1>1, <1>3 DEF RowOK, OnMemory
<1> QED BY <1>3, <1>4, <1>5

\* A source that a document is entered with.
LEMMA SourceTyped ==
  ASSUME RecordsTypeOK, NEW m \in Memories
  PROVE  /\ SourceOf(m) \in Source
         /\ [revision |-> Revision(m), category |-> None] \in Source
<1>1. memory[m].category \in Categories \cup {None}
  BY DEF RecordsTypeOK, Row
<1>2. Revision(m) \in 0..2
  BY DEF Revision
<1> QED BY <1>1, <1>2 DEF SourceOf, Source

\* An item of the manifest keeps its source.
LEMMA MarkedTyped ==
  ASSUME LocalOK, NEW w \in Callers, NEW g \in Generations, caller[w].memory \in Memories,
         NEW state \in {"indexed", "stale"}, Marked(g, w, state)
  PROVE  manifest' \in [Generations -> [Memories -> ItemRow]]
<1> DEFINE m == caller[w].memory
           item == [manifest[g][m] EXCEPT !.state = state]
           items == [manifest[g] EXCEPT ![m] = item]
<1>1. manifest' = manifest \/ manifest' = [manifest EXCEPT ![g] = items]
  BY DEF Marked
<1>2. manifest \in [Generations -> [Memories -> ItemRow]] /\ manifest[g][m] \in ItemRow
  BY DEF LocalOK
<1>3. item \in ItemRow
  BY <1>2 DEF ItemRow
<1> HIDE DEF item
<1>4. items \in [Memories -> ItemRow]
  BY <1>2, <1>3
<1> HIDE DEF items
<1> QED BY <1>1, <1>2, <1>4

\* The build is complete when its document becomes 'indexed'.
LEMMA PublishedStep ==
  ASSUME IndexInv, NEW w \in Callers, Published(w)
  PROVE  IndexInv'
<1> DEFINE g == caller[w].generation
           m == caller[w].memory
<1>1. /\ caller[w].pc = "publish" /\ Arrives(Sent(w)) /\ Loses(Sent(w))
      /\ UNCHANGED <<serving, mapped, stray, layout, calls, pauses>>
  BY DEF Published, Bare
<1>2. /\ Requesting(w) /\ Busy(w) /\ m \in Memories /\ g \in Generations
  BY <1>1, AtWork DEF OnMemory, Requesting, Busy
<1>3. CASE ~Checked(w)
  BY <1>1, <1>2, <1>3, HaltsAnswered DEF Published
<1>4. CASE Checked(w)
  <2> DEFINE doc == [document[g][m] EXCEPT !.state = "indexed"]
             docs == [document[g] EXCEPT ![m] = doc]
  <2>1. /\ document' = [document EXCEPT ![g] = docs] /\ Marked(g, w, "indexed")
        /\ Visited(w, m) /\ UNCHANGED generation
    BY <1>4 DEF Published
  <2>2. PICK row \in CallerRow :
          /\ Goes(w, row) /\ RowOK(row) /\ row.pc = "loop"
          /\ row.generation = caller[w].generation /\ row.fence = caller[w].fence
    BY <1>2, <2>1, VisitedRow
  <2>3. /\ generation[g].fence = caller[w].fence
        /\ RowUnderway(caller[w], document[g][m], mapped[g])
    BY <1>1, <1>4, OwnsUnderway DEF Checked, OnMemory
  <2>4. /\ document[g][m] = [state |-> "building", source |-> caller[w].source]
        /\ PointsOf(m, mapped[g]) = Expected(w) /\ caller[w].points = Expected(w)
    BY <1>1, <2>3 DEF RowUnderway, Expected
  <2>5. doc = [state |-> "indexed", source |-> caller[w].source] /\ doc \in DocumentRow
    BY <2>4, AtWork DEF DocumentRow
  <2> HIDE DEF doc
  <2>6. /\ document \in [Generations -> [Memories -> DocumentRow]]
        /\ document[g] \in [Memories -> DocumentRow]
    BY <1>2 DEF IndexInv, LocalOK
  <2>7. /\ docs \in [Memories -> DocumentRow] /\ docs[m] = doc
        /\ \A n \in Memories \ {m} : docs[n] = document[g][n]
    BY <1>2, <2>5, <2>6
  <2> HIDE DEF docs
  <2>8. /\ document' \in [Generations -> [Memories -> DocumentRow]]
        /\ document'[g] = docs /\ \A h \in Generations \ {g} : document'[h] = document[h]
    BY <1>2, <2>1, <2>6, <2>7
  <2>9. LocalOK' /\ RestOK'
    <3>1. manifest' \in [Generations -> [Memories -> ItemRow]]
      BY <1>2, <2>1, MarkedTyped DEF IndexInv
    <3> QED BY <1>1, <2>1, <2>8, <3>1 DEF IndexInv, LocalOK, RestOK
  <2>10. CallMoves(w, row)
    BY <1>1, <2>1, <2>2, <2>3, <2>8 DEF CallMoves, Writes
  <2>11. Elsewhere(w)
    BY <1>1, <2>7, <2>8 DEF Elsewhere
  <2>12. PICK r \in RequestRow :
          /\ r = Sent(w) /\ r.generation = g /\ r.kind = "publish" /\ r.points = Expected(w)
    BY <1>1, <1>2, <2>4, SentTyped DEF IndexInv
  <2>13. Arrived(r)
    BY <1>1, <2>9, <2>12, Arrival DEF IndexInv, LocalOK
  <2>14. PointsOf(m, mapped[g]) \ lost'[g] \subseteq published'[g]
    <3> SUFFICES ASSUME NEW p \in PointsOf(m, mapped[g])
                 PROVE  p \in published'[g] \cup lost'[g]
      OBVIOUS
    <3>1. p \in mapped'[g] \cap r.points
      BY <1>1, <2>4, <2>12 DEF PointsOf
    <3>2. p \in published[g] \cup building[g] \cup lost[g]
      BY <1>1, <1>2, <3>1 DEF IndexInv, Located
    <3> QED BY <2>12, <2>13, <3>1, <3>2 DEF Arrived
  <2>15. PICK gw, mw : gw = g /\ mw = m
    OBVIOUS
  <2>16. Complete(gw, mw)'
    <3>1. caller[w].layout \in Layouts
      BY <1>1, AtWork DEF OnMemory
    <3>2. document'[gw][mw].source = caller[w].source
      BY <2>5, <2>7, <2>8, <2>15
    <3>3. PointsOf(mw, mapped'[gw]) = Build(mw, document'[gw][mw].source, caller[w].layout)
      BY <1>1, <2>4, <2>15, <3>2 DEF Expected
    <3>4. PointsOf(mw, mapped'[gw]) \ lost'[gw] \subseteq published'[gw]
      BY <1>1, <2>14, <2>15
    <3> HIDE DEF g, m
    <3> QED BY <3>1, <3>3, <3>4 DEF Complete, PointsOf, Build, Point
  <2>17. \A h \in Generations :
           mapped'[h] \subseteq mapped[h] \cup (IF h = g THEN Dark(Sent(w)) ELSE {})
    BY <1>1
  <2> QED BY <1>1, <1>2, <2>2, <2>9, <2>10, <2>11, <2>15, <2>16, <2>17, RequestKeeps DEF OnMemory
<1> QED BY <1>3, <1>4

\* A memory whose source is gone loses all its points, and its document is
\* hidden.
LEMMA HiddenStep ==
  ASSUME RecordsInv, IndexInv, NEW w \in Callers, Hidden(w)
  PROVE  IndexInv'
<1> DEFINE g == caller[w].generation
           m == caller[w].memory
<1>1. /\ caller[w].pc = "hide" /\ Arrives(Sent(w)) /\ Loses(Sent(w))
      /\ UNCHANGED <<serving, stray, layout, calls, pauses>>
  BY DEF Hidden, Bare
<1>2. /\ Requesting(w) /\ Busy(w) /\ m \in Memories /\ g \in Generations
  BY <1>1, AtWork DEF Requesting, Busy
<1>3. CASE ~Owns(w)
  BY <1>1, <1>2, <1>3, HaltsAnswered DEF Hidden
<1>4. CASE Owns(w)
  <2> DEFINE doc == [state |-> "hidden", source |-> [revision |-> Revision(m), category |-> None]]
             docs == [document[g] EXCEPT ![m] = doc]
             map == mapped[g] \ PointsOf(m, mapped[g])
  <2>1. /\ document' = [document EXCEPT ![g] = docs] /\ mapped' = [mapped EXCEPT ![g] = map]
        /\ Marked(g, w, "stale") /\ Visited(w, m) /\ UNCHANGED generation
    BY <1>4 DEF Hidden
  <2>2. PICK row \in CallerRow :
          /\ Goes(w, row) /\ RowOK(row) /\ row.pc = "loop"
          /\ row.generation = caller[w].generation /\ row.fence = caller[w].fence
    BY <1>2, <2>1, VisitedRow
  <2>3. generation[g].fence = caller[w].fence
    BY <1>4 DEF Owns
  <2>4. doc \in DocumentRow /\ doc.state # "indexed"
    BY <1>2, SourceTyped DEF DocumentRow, RecordsInv
  <2> HIDE DEF doc
  <2>5. /\ document \in [Generations -> [Memories -> DocumentRow]]
        /\ document[g] \in [Memories -> DocumentRow]
        /\ mapped \in [Generations -> SUBSET Points] /\ map \in SUBSET Points
    BY <1>2 DEF IndexInv, LocalOK
  <2>6. /\ docs \in [Memories -> DocumentRow] /\ docs[m] = doc
        /\ \A n \in Memories \ {m} : docs[n] = document[g][n]
    BY <1>2, <2>4, <2>5
  <2>7. \A n \in Memories \ {m} : PointsOf(n, map) = PointsOf(n, mapped[g])
    BY DEF PointsOf
  <2>8. map \subseteq mapped[g]
    OBVIOUS
  <2> HIDE DEF docs, map
  <2>9. /\ document' \in [Generations -> [Memories -> DocumentRow]]
        /\ document'[g] = docs /\ \A h \in Generations \ {g} : document'[h] = document[h]
        /\ mapped' \in [Generations -> SUBSET Points]
        /\ mapped'[g] = map /\ \A h \in Generations \ {g} : mapped'[h] = mapped[h]
    BY <1>2, <2>1, <2>5, <2>6
  <2>10. LocalOK' /\ RestOK'
    <3>1. manifest' \in [Generations -> [Memories -> ItemRow]]
      BY <1>2, <2>1, MarkedTyped DEF IndexInv
    <3> QED BY <1>1, <2>1, <2>9, <3>1 DEF IndexInv, LocalOK, RestOK
  <2>11. CallMoves(w, row)
    BY <1>1, <2>1, <2>2, <2>3, <2>9 DEF CallMoves, Writes
  <2>12. Elsewhere(w)
    BY <2>6, <2>7, <2>9 DEF Elsewhere
  <2>13. PICK gw, mw : gw = g /\ mw = m
    OBVIOUS
  <2>14. Complete(gw, mw)'
    <3>1. document'[gw][mw].state # "indexed"
      BY <2>4, <2>6, <2>9, <2>13
    <3> QED BY <3>1 DEF Complete
  <2>15. \A h \in Generations :
           mapped'[h] \subseteq mapped[h] \cup (IF h = g THEN Dark(Sent(w)) ELSE {})
    BY <2>8, <2>9
  <2> QED BY <1>1, <1>2, <2>2, <2>10, <2>11, <2>12, <2>13, <2>14, <2>15, RequestKeeps
          DEF OnMemory
<1> QED BY <1>3, <1>4

-----------------------------------------------------------------------------
(* The steps of reconcile *)

\* A point that nothing maps is deleted.
LEMMA RemovedStep ==
  ASSUME IndexInv, NEW w \in Callers, Removed(w)
  PROVE  IndexInv'
<1>1. /\ caller[w].pc = "remove" /\ Arrives(Sent(w)) /\ Loses(Sent(w))
      /\ UNCHANGED <<serving, document, mapped, manifest, stray, layout, calls, pauses>>
  BY DEF Removed, Bare
<1>2. /\ Requesting(w) /\ Busy(w) /\ caller[w].generation \in Generations
      /\ caller[w] \in CallerRow
  BY <1>1, AtWork DEF Requesting, Busy
<1>3. CASE ~Owns(w)
  BY <1>1, <1>2, <1>3, HaltsAnswered DEF Removed
<1>4. CASE Owns(w)
  <2> DEFINE row == [caller[w] EXCEPT !.pc = "sweep", !.points = {}]
  <2>1. Goes(w, row) /\ UNCHANGED generation
    BY <1>4 DEF Removed
  <2>2. /\ row \in CallerRow /\ row.pc = "sweep"
        /\ row.generation = caller[w].generation /\ row.fence = caller[w].fence
    BY <1>2 DEF CallerRow
  <2> HIDE DEF row
  <2>3. RowOK(row)
    BY <1>2, <2>2 DEF RowOK, OnMemory
  <2>4. CallMoves(w, row)
    BY <1>1, <2>1, <2>2, <2>3 DEF CallMoves, Writes
  <2>5. LocalOK' /\ RestOK'
    BY <1>1, <2>1 DEF IndexInv, LocalOK, RestOK
  <2>6. Elsewhere(w) /\ AsBefore(w)
    BY <1>1 DEF Elsewhere, AsBefore
  <2> QED BY <1>1, <1>2, <2>2, <2>4, <2>5, <2>6, RequestKeeps DEF OnMemory
<1> QED BY <1>3, <1>4

\* A call goes on locally, at a point where it has no build.
LEMMA TurnsLocally ==
  ASSUME IndexInv, NEW w \in Callers, Busy(w), NEW row \in CallerRow, Goes(w, row), RowOK(row),
         row.pc \notin OnMemory,
         row.generation = caller[w].generation, row.fence = caller[w].fence,
         UNCHANGED <<generation, serving, document, mapped, manifest, remote, stray, history,
                     layout, calls, pauses>>
  PROVE  IndexInv'
<1>1. CallMoves(w, row)
  BY DEF CallMoves, Writes
<1>2. LocalOK' /\ RestOK'
  BY DEF IndexInv, LocalOK, RestOK
<1> QED BY <1>1, <1>2, LocalKeeps

\* The collection is listed.
LEMMA ScrolledStep ==
  ASSUME IndexInv, NEW w \in Callers, Scrolled(w)
  PROVE  IndexInv'
<1> DEFINE g == caller[w].generation
<1>1. /\ caller[w].pc = "scroll"
      /\ UNCHANGED <<serving, document, mapped, manifest, remote, stray, history, layout,
                     calls, pauses>>
  BY DEF Scrolled, Bare
<1>2. Busy(w) /\ g \in Generations /\ caller[w] \in CallerRow
  BY <1>1, AtWork DEF Busy
<1>3. CASE ~Owns(w)
  BY <1>1, <1>2, <1>3, HaltsLocally DEF Scrolled
<1>4. CASE Owns(w)
  <2> DEFINE page == published[g] \cup building[g]
             row == [caller[w] EXCEPT !.pc = "sweep", !.page = page]
  <2>1. Goes(w, row) /\ UNCHANGED generation
    BY <1>4 DEF Scrolled
  <2>2. page \in SUBSET Points
    BY <1>2 DEF IndexInv, RemoteOK
  <2> HIDE DEF page
  <2>3. /\ row \in CallerRow /\ row.pc = "sweep"
        /\ row.generation = caller[w].generation /\ row.fence = caller[w].fence
    BY <1>2, <2>2 DEF CallerRow
  <2> HIDE DEF row
  <2>4. RowOK(row)
    BY <1>2, <2>3 DEF RowOK, OnMemory
  <2> QED BY <1>1, <1>2, <2>1, <2>3, <2>4, TurnsLocally DEF OnMemory
<1> QED BY <1>3, <1>4

\* The next point of the listing is chosen, or none is left.
LEMMA SweepStep ==
  ASSUME IndexInv, NEW w \in Callers, Sweep(w)
  PROVE  IndexInv'
<1>1. /\ caller[w].pc = "sweep"
      /\ UNCHANGED <<serving, document, mapped, manifest, remote, stray, history, layout,
                     calls, pauses>>
  BY DEF Sweep, Bare
<1>2. Busy(w) /\ caller[w].generation \in Generations /\ caller[w] \in CallerRow
  BY <1>1, AtWork DEF Busy
<1>3. CASE Ends(w)
  BY <1>1, <1>2, <1>3, HaltsLocally
<1>4. CASE ~Ends(w)
  <2>1. PICK p \in caller[w].page :
          /\ Goes(w, [caller[w] EXCEPT !.pc = "remove", !.points = {p}, !.page = @ \ {p}])
          /\ UNCHANGED generation
    BY <1>4 DEF Sweep
  <2> DEFINE row == [caller[w] EXCEPT !.pc = "remove", !.points = {p}, !.page = @ \ {p}]
  <2>2. p \in Points
    BY <1>2 DEF CallerRow
  <2>3. /\ row \in CallerRow /\ row.pc = "remove"
        /\ row.generation = caller[w].generation /\ row.fence = caller[w].fence
    BY <1>2, <2>2 DEF CallerRow, Requests
  <2> HIDE DEF row
  <2>4. RowOK(row)
    BY <1>2, <2>3 DEF RowOK, OnMemory
  <2>5. Goes(w, row)
    BY <2>1 DEF row
  <2> QED BY <1>1, <1>2, <2>1, <2>3, <2>4, <2>5, TurnsLocally DEF OnMemory
<1> QED BY <1>3, <1>4

\* The collection exists, and the call reads what there is to do.
LEMMA EnsuredStep ==
  ASSUME IndexInv, NEW w \in Callers, Ensured(w)
  PROVE  IndexInv'
<1> DEFINE g == caller[w].generation
           todo == CASE caller[w].kind = "sync" -> {m \in Memories : Exists(m)}
                     [] caller[w].kind = "manifest" ->
                          {m \in Memories : manifest[g][m].state = "pending"}
                     [] OTHER -> caller[w].todo
           row == [caller[w] EXCEPT !.pc = "loop", !.todo = todo]
<1>1. /\ caller[w].pc = "ensure" /\ Goes(w, row)
      /\ UNCHANGED <<generation, serving, document, mapped, manifest, remote, stray, history,
                     layout, calls, pauses>>
  BY DEF Ensured, Bare, local
<1>2. Busy(w) /\ g \in Generations /\ caller[w] \in CallerRow /\ caller[w].todo \in SUBSET Memories
  BY <1>1, AtWork DEF Busy
<1>3. todo \in SUBSET Memories
  BY <1>2
<1> HIDE DEF todo
<1>4. /\ row \in CallerRow /\ row.pc = "loop"
      /\ row.generation = caller[w].generation /\ row.fence = caller[w].fence
  BY <1>2, <1>3 DEF CallerRow
<1> HIDE DEF row
<1>5. RowOK(row)
  BY <1>2, <1>4 DEF RowOK, OnMemory
<1> QED BY <1>1, <1>2, <1>4, <1>5, TurnsLocally DEF OnMemory

\* The first deletion of indexSource takes all that is mapped and does not
\* belong to the build.
LEMMA BeginsBuild ==
  ASSUME RecordsInv, IndexInv, NEW w \in Callers, Busy(w), Owns(w), NEW m \in Memories,
         document' = [document EXCEPT ![caller[w].generation][m] =
                        [state |-> "building", source |-> SourceOf(m)]],
         Goes(w, [caller[w] EXCEPT !.pc = "prune", !.memory = m, !.source = SourceOf(m),
                                   !.layout = layout,
                                   !.points = Obsolete(caller[w].generation, m)]),
         UNCHANGED <<generation, serving, mapped, manifest, remote, stray, history,
                     layout, calls, pauses>>
  PROVE  IndexInv'
<1> DEFINE g == caller[w].generation
           s == SourceOf(m)
           S == Obsolete(g, m)
           doc == [state |-> "building", source |-> s]
           docs == [document[g] EXCEPT ![m] = doc]
           row == [caller[w] EXCEPT !.pc = "prune", !.memory = m, !.source = s,
                                    !.layout = layout, !.points = S]
<1>1. g \in Generations /\ caller[w] \in CallerRow /\ RowOK(caller[w]) /\ layout \in Layouts
  BY AtWork DEF Busy, IndexInv, RestOK
<1>2. s \in Source
  BY SourceTyped DEF RecordsInv
<1>3. /\ S \subseteq Points /\ \A p \in S : p.memory = m
      /\ PointsOf(m, mapped[g]) \ S \subseteq Build(m, s, layout)
  <2>1. mapped[g] \subseteq Points
    BY <1>1 DEF IndexInv, LocalOK
  <2> QED BY <2>1 DEF Obsolete, PointsOf
<1>4. document' = [document EXCEPT ![g] = docs] /\ Goes(w, row)
  OBVIOUS
<1>5. doc \in DocumentRow /\ doc.state = "building"
  BY <1>2 DEF DocumentRow
<1>6. /\ document \in [Generations -> [Memories -> DocumentRow]]
      /\ document[g] \in [Memories -> DocumentRow]
  BY <1>1 DEF IndexInv, LocalOK
<1> HIDE DEF S, s
<1>7. /\ row \in CallerRow /\ row.pc = "prune"
      /\ row.generation = caller[w].generation /\ row.fence = caller[w].fence
      /\ row.memory = m /\ row.source = s /\ row.layout = layout /\ row.points = S
  BY <1>1, <1>2, <1>3 DEF CallerRow, Requests
<1> HIDE DEF row
<1>8. RowOK(row)
  BY <1>1, <1>7 DEF RowOK, OnMemory
<1>9. docs \in [Memories -> DocumentRow] /\ docs[m] = doc
      /\ \A n \in Memories \ {m} : docs[n] = document[g][n]
  BY <1>5, <1>6
<1>10. doc = [state |-> "building", source |-> s]
  OBVIOUS
<1> HIDE DEF doc, docs
<1>11. /\ document' \in [Generations -> [Memories -> DocumentRow]] /\ document'[g] = docs
       /\ \A h \in Generations \ {g} : document'[h] = document[h]
  BY <1>1, <1>4, <1>6, <1>9
<1>12. LocalOK' /\ RestOK'
  BY <1>11 DEF IndexInv, LocalOK, RestOK
<1>13. generation[g].fence = caller[w].fence
  BY DEF Owns
<1>14. CallMoves(w, row)
  BY <1>4, <1>7, <1>8, <1>11, <1>13 DEF CallMoves, Writes
<1>15. mapped'[g] = mapped[g] /\ document'[g][m] = doc
  BY <1>9, <1>11
<1>16. \A h \in Generations, n \in Memories :
         document'[h][n] = document[h][n] \/ document'[h][n].state # "indexed"
  BY <1>5, <1>9, <1>11
<1> HIDE DEF g
<1>17. RowUnderway(row, document'[row.generation][row.memory], mapped'[row.generation])
  <2>1. row.generation = g
    BY <1>7 DEF g
  <2> QED BY ONLY <1>3, <1>7, <1>10, <1>15, <2>1 DEF RowUnderway
<1> QED BY <1>12, <1>14, <1>16, <1>17, LocalKeeps

\* A memory is passed by, hidden or indexed.
LEMMA VisitStep ==
  ASSUME RecordsInv, IndexInv, NEW w \in Callers, NEW m \in Memories, Visit(w, m)
  PROVE  IndexInv'
<1> DEFINE g == caller[w].generation
<1>1. /\ caller[w].pc = "loop"
      /\ UNCHANGED <<remote, stray, quiet, layout, calls, pauses>>
  BY DEF Visit, Bare
<1>2. Busy(w) /\ g \in Generations /\ caller[w] \in CallerRow
  BY <1>1, AtWork DEF Busy
<1>3. CASE Visited(w, m) /\ UNCHANGED <<local, lost>>
  <2>1. PICK row \in CallerRow :
          /\ Goes(w, row) /\ RowOK(row) /\ row.pc = "loop"
          /\ row.generation = caller[w].generation /\ row.fence = caller[w].fence
    BY <1>2, <1>3, VisitedRow
  <2> QED BY <1>1, <1>2, <1>3, <2>1, TurnsLocally DEF OnMemory, local, history
<1>4. CASE /\ Goes(w, [caller[w] EXCEPT !.pc = "hide", !.memory = m])
           /\ UNCHANGED <<local, lost>>
  <2> DEFINE row == [caller[w] EXCEPT !.pc = "hide", !.memory = m]
  <2>1. /\ row \in CallerRow /\ row.pc = "hide" /\ row.memory = m
        /\ row.generation = caller[w].generation /\ row.fence = caller[w].fence
    BY <1>2 DEF CallerRow, Requests
  <2>2. Goes(w, row)
    BY <1>4
  <2> HIDE DEF row
  <2>3. RowOK(row)
    BY <1>2, <2>1 DEF RowOK, OnMemory
  <2> QED BY <1>1, <1>2, <1>4, <2>1, <2>2, <2>3, TurnsLocally DEF OnMemory, local, history
<1>5. CASE /\ Owns(w)
           /\ document' = [document EXCEPT ![g][m] =
                [state |-> "building", source |-> SourceOf(m)]]
           /\ Goes(w, [caller[w] EXCEPT !.pc = "prune", !.memory = m, !.source = SourceOf(m),
                                        !.layout = layout, !.points = Obsolete(g, m)])
           /\ UNCHANGED <<generation, serving, mapped, manifest, lost>>
  BY <1>1, <1>2, <1>5, BeginsBuild DEF history
<1>6. CASE Ends(w) /\ UNCHANGED <<serving, document, mapped, manifest, lost>>
  BY <1>1, <1>2, <1>6, HaltsLocally DEF history
<1> QED BY <1>3, <1>4, <1>5, <1>6 DEF Visit

\* A generation that is not active becomes ready.
LEMMA FinishStep ==
  ASSUME IndexInv, NEW w \in Callers, Finish(w)
  PROVE  IndexInv'
<1> DEFINE g == caller[w].generation
           row == [Released(w)[g] EXCEPT !.state = "ready"]
<1>1. /\ caller[w].pc = "loop" /\ Goes(w, Idle)
      /\ UNCHANGED <<serving, document, mapped, manifest, remote, stray, history, layout,
                     calls, pauses>>
  BY DEF Finish, Bare
<1>2. Busy(w) /\ g \in Generations
  BY <1>1, AtWork DEF Busy
<1>3. /\ Released(w) \in [Generations -> GenerationRow]
      /\ \A h \in Generations : /\ Released(w)[h].fence = generation[h].fence
                                /\ Released(w)[h].state = generation[h].state
  BY <1>2, ReleasedOK DEF IndexInv
<1>4. \/ generation' = Released(w)
      \/ generation' = [Released(w) EXCEPT ![g] = row] /\ generation[g].state # "active"
  BY DEF Finish
<1>5. row \in GenerationRow /\ row.fence = generation[g].fence /\ row.state = "ready"
  <2>1. Released(w)[g] \in GenerationRow /\ Released(w)[g].fence = generation[g].fence
    BY <1>2, <1>3
  <2> QED BY <2>1 DEF GenerationRow
<1> HIDE DEF row
<1>6. /\ generation' \in [Generations -> GenerationRow]
      /\ \A h \in Generations : generation'[h].fence = generation[h].fence
      /\ \A h \in Generations : generation'[h].state = "active" <=> generation[h].state = "active"
  <2>1. CASE generation' = Released(w)
    BY <1>3, <2>1
  <2>2. CASE generation' = [Released(w) EXCEPT ![g] = row] /\ generation[g].state # "active"
    BY <1>2, <1>3, <1>5, <2>2
  <2> QED BY <1>4, <2>1, <2>2
<1>7. LocalOK' /\ RestOK'
  BY <1>1, <1>6 DEF IndexInv, LocalOK, RestOK
<1>8. CallMoves(w, Idle)
  BY <1>1, <1>6, IdleOK DEF CallMoves, Writes
<1> QED BY <1>1, <1>2, <1>7, <1>8, IdleOK, LocalKeeps DEF OnMemory

\* A call is over, whatever becomes of its last request.
LEMMA UnansweredStep ==
  ASSUME IndexInv, NEW w \in Callers, Busy(w), Goes(w, Idle), GenerationKept,
         UNCHANGED <<serving, document, mapped, manifest, layout, calls, pauses>>,
         Unanswered(w)
  PROVE  IndexInv'
<1>1. LocalOK' /\ RestOK'
  BY LocalKept DEF IndexInv, LocalOK, RestOK
<1>2. CASE stray' = stray
  <2>1. CallMoves(w, Idle)
    BY <1>2, IdleOK DEF CallMoves, Writes, GenerationKept
  <2>2. CASE UNCHANGED <<remote, history>>
    BY <1>1, <2>1, <2>2, IdleOK, LocalKeeps DEF OnMemory
  <2>3. CASE Requesting(w) /\ Arrives(Sent(w)) /\ Loses(Sent(w))
    <3>1. Elsewhere(w) /\ AsBefore(w)
      BY DEF Elsewhere, AsBefore
    <3> QED BY <1>1, <2>1, <2>3, <3>1, IdleOK, RequestKeeps DEF OnMemory
  <2>4. CASE UNCHANGED <<remote, stray, history>>
    BY <2>2, <2>4
  <2> QED BY <2>2, <2>3 DEF Unanswered
<1>3. CASE /\ Requesting(w) /\ stray' = stray \cup {Sent(w)}
           /\ UNCHANGED <<remote, history>>
  <2>1. CallMoves(w, Idle)
    BY <1>3, IdleOK DEF CallMoves, Writes, GenerationKept
  <2> QED BY <1>1, <1>3, <2>1, IdleOK, LocalKeeps DEF OnMemory
<1> QED BY <1>2, <1>3 DEF Unanswered

\* A request fails, and its call ends.
LEMMA FailsStep ==
  ASSUME IndexInv, NEW w \in Callers, Fails(w)
  PROVE  IndexInv'
<1>1. /\ Busy(w) /\ Ends(w) /\ Unanswered(w)
      /\ UNCHANGED <<serving, document, mapped, manifest, layout, calls, pauses>>
  BY DEF Fails, Busy, Bare
<1>2. Goes(w, Idle) /\ GenerationKept
  BY <1>1, EndsAs
<1> QED BY <1>1, <1>2, UnansweredStep

\* A process dies, and its lease stays behind.
LEMMA DiesStep ==
  ASSUME IndexInv, NEW w \in Callers, Dies(w)
  PROVE  IndexInv'
<1>1. /\ Busy(w) /\ Goes(w, Idle) /\ Unanswered(w)
      /\ UNCHANGED <<generation, serving, document, mapped, manifest, layout, calls, pauses>>
  BY DEF Dies, Busy, Bare, local
<1>2. GenerationKept
  BY <1>1 DEF IndexInv, LocalOK, GenerationKept
<1> QED BY <1>1, <1>2, UnansweredStep

\* Every step of a call keeps the invariant.
LEMMA CallStepKeeps ==
  ASSUME RecordsInv, IndexInv, NEW w \in Callers, CallStep(w)
  PROVE  IndexInv'
BY EnsuredStep, VisitStep, FinishStep, PrunedStep, DroppedStep, EmbeddedStep, UpsertedStep,
   PublishedStep, HiddenStep, ScrolledStep, SweepStep, RemovedStep, FailsStep, DiesStep
   DEF CallStep

-----------------------------------------------------------------------------
(* The other steps *)

\* What is late cannot undo a document: its sender's fence is gone, or the
\* document is not indexed yet.
LEMMA ArrivesLateStep ==
  ASSUME IndexInv, NEW r \in stray, ArrivesLate(r)
  PROVE  IndexInv'
<1>1. /\ Arrives(r) /\ Loses(r) /\ stray' = stray \ {r}
      /\ UNCHANGED <<generation, serving, document, mapped, manifest, caller, layout, calls,
                     pauses>>
  BY DEF ArrivesLate, Bare, local
<1>2. r \in RequestRow /\ stray \in SUBSET RequestRow
  BY DEF IndexInv
<1>3. RemoteOK' /\ Arrived(r)
  BY <1>1, <1>2, Arrival DEF IndexInv, LocalOK
<1>4. Located'
  BY <1>1, <1>2, <1>3, LocatedKept DEF IndexInv
<1>5. QuietComplete'
  <2>1. quiet' /\ r.kind = "upsert" =>
          /\ document[r.generation][r.memory].state # "indexed"
          /\ \A p \in r.points : p.memory = r.memory
    BY <1>3 DEF Arrived, IndexInv, LateUpserts
  <2>2. QuietComplete
    BY DEF IndexInv
  <2>3. \A g \in Generations, m \in Memories :
          /\ document'[g][m] = document[g][m]
          /\ PointsOf(m, mapped'[g]) = PointsOf(m, mapped[g])
    BY <1>1
  <2>4. quiet' /\ r.memory \in Memories =>
          /\ document'[r.generation][r.memory] = document[r.generation][r.memory]
          /\ PointsOf(r.memory, mapped'[r.generation])
               = PointsOf(r.memory, mapped[r.generation])
    BY <1>1
  <2> QED BY ONLY <1>2, <1>3, <2>1, <2>2, <2>3, <2>4, QuietKept
<1>6. LocalOK' /\ CallersOK' /\ stray' \in SUBSET RequestRow /\ RestOK'
  BY <1>1, <1>2 DEF IndexInv, LocalOK, CallersOK, RowOK, RestOK
<1>7. FencesApart' /\ LateUpserts'
  BY <1>1 DEF IndexInv, FencesApart, LateUpserts, Busy
<1>8. Underway'
  BY <1>1 DEF IndexInv, Underway, UnderwayBy, Expected
<1> QED BY <1>3, <1>4, <1>5, <1>6, <1>7, <1>8 DEF IndexInv

\* The owner and time change neither documents nor points, and a fence only
\* grows.
LEMMA FencesGrow ==
  ASSUME IndexInv, LocalOK', RestOK',
         UNCHANGED <<document, mapped, remote, caller, stray, history>>,
         \A g \in Generations : generation'[g].fence >= generation[g].fence
  PROVE  IndexInv'
<1>1. /\ RemoteOK' /\ Located' /\ QuietComplete' /\ stray' \in SUBSET RequestRow
  BY DEF IndexInv, RemoteOK, Located, QuietComplete, Complete, remote, history
<1>2. CallersOK'
  BY DEF IndexInv, CallersOK, RowOK
<1>3. /\ \A g \in Generations : generation[g].fence \in Nat /\ generation'[g].fence \in Nat
      /\ \A w \in Callers : /\ caller[w].fence \in Nat
                            /\ Busy(w) => caller[w].generation \in Generations
      /\ \A r \in stray : r.fence \in Nat /\ r.generation \in Generations
  BY AtWork DEF IndexInv, LocalOK, GenerationRow, CallerRow, RequestRow, Busy
<1>4. /\ \A w \in Callers :
           Busy(w) => caller[w].fence <= generation[caller[w].generation].fence
      /\ \A r \in stray : r.fence <= generation[r.generation].fence
  BY DEF IndexInv, FencesApart
<1>5. /\ \A w \in Callers :
           Busy(w) => caller[w].fence <= generation'[caller[w].generation].fence
      /\ \A r \in stray : r.fence <= generation'[r.generation].fence
      /\ \A w \in Callers :
           Busy(w) /\ generation'[caller[w].generation].fence = caller[w].fence =>
             generation[caller[w].generation].fence = caller[w].fence
      /\ \A r \in stray :
           r.fence = generation'[r.generation].fence => r.fence = generation[r.generation].fence
  BY <1>3, <1>4
<1>6. FencesApart'
  BY <1>5 DEF IndexInv, FencesApart, Busy
<1>7. Underway'
  BY <1>5 DEF IndexInv, Underway, UnderwayBy, Expected, Busy
<1>8. LateUpserts'
  BY <1>5 DEF IndexInv, LateUpserts
<1> QED BY <1>1, <1>2, <1>6, <1>7, <1>8 DEF IndexInv

\* The owner or time takes a lease away.
LEMMA PauseStep ==
  ASSUME IndexInv, NEW g \in Generations, Pause(g) \/ LeaseExpires(g)
  PROVE  IndexInv'
<1>0. generation \in [Generations -> GenerationRow] /\ generation[g] \in GenerationRow
  BY DEF IndexInv, LocalOK
<1>1. /\ UNCHANGED <<serving, document, mapped, manifest, remote, caller, stray, history,
                     layout, calls>>
      /\ pauses' \in Nat
  BY DEF Pause, LeaseExpires, Bare, IndexInv, RestOK
<1>2. PICK fence \in {generation[g].fence, generation[g].fence + 1},
           owner \in {generation[g].owner, Nobody}, lease \in {"null", "past"} :
        generation' = [generation EXCEPT ![g].fence = fence, ![g].owner = owner,
                                         ![g].lease = lease]
  <2>1. CASE Pause(g)
    BY <2>1 DEF Pause
  <2>2. CASE LeaseExpires(g)
    <3>1. generation' = [generation EXCEPT ![g].lease = "past"]
      BY <2>2 DEF LeaseExpires
    <3>2. generation' = [generation EXCEPT ![g].fence = generation[g].fence,
                                           ![g].owner = generation[g].owner,
                                           ![g].lease = "past"]
      BY <1>0, <3>1 DEF GenerationRow
    <3> QED BY <3>2
  <2> QED BY <2>1, <2>2
<1> DEFINE row == [generation[g] EXCEPT !.fence = fence, !.owner = owner, !.lease = lease]
<1>3. /\ row \in GenerationRow /\ row.fence >= generation[g].fence
      /\ row.state = generation[g].state
  <2>1. fence \in Nat /\ fence >= generation[g].fence
    BY <1>0 DEF GenerationRow
  <2> QED BY <1>0, <2>1 DEF GenerationRow
<1>4. generation' = [generation EXCEPT ![g] = row]
  BY <1>0, <1>2
<1> HIDE DEF row
<1>5. /\ generation' \in [Generations -> GenerationRow]
      /\ \A h \in Generations : generation[h].fence \in Nat
      /\ \A h \in Generations : generation'[h].fence >= generation[h].fence
      /\ \A h \in Generations : generation'[h].state = generation[h].state
  BY <1>0, <1>3, <1>4 DEF GenerationRow
<1>6. LocalOK' /\ RestOK'
  BY <1>1, <1>5 DEF IndexInv, LocalOK, RestOK
<1> QED BY <1>1, <1>5, <1>6, FencesGrow

\* The owner begins a generation.
LEMMA BeginStep ==
  ASSUME RecordsInv, IndexInv, NEW g \in Generations, NEW frozen \in BOOLEAN, Begin(g, frozen)
  PROVE  IndexInv'
<1> DEFINE row == [generation[g] EXCEPT !.state = "building"]
           items == [m \in Memories |-> IF frozen /\ Current(m)
                                        THEN [state |-> "pending", source |-> SourceOf(m)]
                                        ELSE NoItem]
<1>1. /\ generation[g].state = None /\ generation' = [generation EXCEPT ![g] = row]
      /\ manifest' = [manifest EXCEPT ![g] = items]
      /\ UNCHANGED <<serving, document, mapped, remote, caller, stray, history, layout, calls,
                     pauses>>
  BY DEF Begin, Bare
<1>2. /\ generation \in [Generations -> GenerationRow] /\ generation[g] \in GenerationRow
      /\ manifest \in [Generations -> [Memories -> ItemRow]]
  BY DEF IndexInv, LocalOK
<1>3. row \in GenerationRow /\ row.fence = generation[g].fence /\ row.state = "building"
      /\ row.fence \in Nat
  BY <1>2 DEF GenerationRow
<1>4. items \in [Memories -> ItemRow]
  <2>1. \A m \in Memories : SourceOf(m) \in Source
    BY SourceTyped DEF RecordsInv
  <2>2. NoSource \in Source
    BY DEF NoSource, Source
  <2> QED BY <2>1, <2>2 DEF ItemRow, NoItem
<1> HIDE DEF row, items
<1>5. /\ generation' \in [Generations -> GenerationRow]
      /\ manifest' \in [Generations -> [Memories -> ItemRow]]
      /\ \A h \in Generations : generation'[h].fence = generation[h].fence
                                /\ generation[h].fence \in Nat
      /\ \A h \in Generations : generation'[h].state = "active" <=> generation[h].state = "active"
  BY <1>1, <1>2, <1>3, <1>4 DEF GenerationRow, None
<1>6. LocalOK' /\ RestOK'
  BY <1>1, <1>5 DEF IndexInv, LocalOK, RestOK
<1> QED BY <1>1, <1>5, <1>6, FencesGrow

\* The owner switches the generation that serves.
LEMMA ActivateStep ==
  ASSUME IndexInv, NEW g \in Generations, Activate(g) \/ Deactivate(g)
  PROVE  IndexInv'
<1>0. generation \in [Generations -> GenerationRow]
  BY DEF IndexInv, LocalOK
<1>1. UNCHANGED <<document, mapped, manifest, remote, caller, stray, history, layout, calls,
                  pauses>>
  BY DEF Activate, Deactivate, Bare
<1>2. /\ generation' \in [Generations -> GenerationRow]
      /\ \A h \in Generations : generation'[h].fence = generation[h].fence
      /\ serving' \in Generations \cup {NoGeneration}
      /\ \A h \in Generations : generation'[h].state = "active" <=> serving' = h
  <2>1. CASE Activate(g)
    <3> DEFINE to(h) == IF h = g THEN "active"
                        ELSE IF generation[h].state = "active" THEN "retired"
                        ELSE generation[h].state
    <3>1. generation' = [h \in Generations |-> [generation[h] EXCEPT !.state = to(h)]]
      <4>1. \A h \in Generations :
              (IF h = g THEN [generation[h] EXCEPT !.state = "active"]
               ELSE IF generation[h].state = "active"
               THEN [generation[h] EXCEPT !.state = "retired"] ELSE generation[h])
              = [generation[h] EXCEPT !.state = to(h)]
        BY <1>0 DEF GenerationRow
      <4> HIDE DEF to
      <4> QED BY <2>1, <4>1 DEF Activate
    <3>2. \A h \in Generations :
            /\ [generation[h] EXCEPT !.state = to(h)] \in GenerationRow
            /\ [generation[h] EXCEPT !.state = to(h)].fence = generation[h].fence
            /\ [generation[h] EXCEPT !.state = to(h)].state = to(h)
            /\ to(h) = "active" <=> h = g
      BY <1>0 DEF GenerationRow
    <3>3. serving' = g
      BY <2>1 DEF Activate
    <3> HIDE DEF to
    <3> QED BY <3>1, <3>2, <3>3
  <2>2. CASE Deactivate(g)
    <3> DEFINE row == [generation[g] EXCEPT !.state = "ready"]
    <3>1. /\ serving = g /\ serving' = NoGeneration /\ generation' = [generation EXCEPT ![g] = row]
      BY <2>2 DEF Deactivate
    <3>2. row \in GenerationRow /\ row.fence = generation[g].fence /\ row.state = "ready"
      BY <1>0 DEF GenerationRow
    <3>3. \A h \in Generations : h # NoGeneration
      BY NamesAssumption DEF NoGeneration
    <3>4. \A h \in Generations : generation[h].state = "active" <=> serving = h
      BY DEF IndexInv, LocalOK
    <3> HIDE DEF row
    <3>5. /\ generation' \in [Generations -> GenerationRow] /\ generation'[g] = row
          /\ \A h \in Generations \ {g} : generation'[h] = generation[h]
      BY <1>0, <3>1, <3>2
    <3> QED BY <3>1, <3>2, <3>3, <3>4, <3>5
  <2> QED BY <2>1, <2>2
<1>3. LocalOK' /\ RestOK'
  BY <1>1, <1>2 DEF IndexInv, LocalOK, RestOK
<1>4. \A h \in Generations : generation'[h].fence >= generation[h].fence
  BY <1>0, <1>2 DEF GenerationRow
<1> QED BY <1>1, <1>3, <1>4, FencesGrow

\* The limits of the model change how a text is split.
LEMMA NewLimitsStep ==
  ASSUME IndexInv, NEW l \in Layouts, NewLimits(l)
  PROVE  IndexInv'
<1>1. /\ layout' = l /\ pauses' = pauses + 1
      /\ UNCHANGED <<generation, serving, document, mapped, manifest, remote, caller, stray,
                     history, calls>>
  BY DEF NewLimits, local
<1>2. LocalOK' /\ RestOK'
  BY <1>1 DEF IndexInv, LocalOK, RestOK
<1>3. \A h \in Generations : generation'[h].fence >= generation[h].fence
  BY <1>1 DEF IndexInv, LocalOK, GenerationRow
<1> QED BY <1>1, <1>2, <1>3, FencesGrow

\* A call that begins has a fence of its own.
LEMMA AcquiresStep ==
  ASSUME IndexInv, NEW w \in Callers, NEW g \in Generations,
         NEW kind \in {"sync", "manifest", "catchup", "repair", "reconcile"},
         NEW todo \in SUBSET Memories, NEW pins \in Pins, Acquires(w, g, kind, todo, pins)
  PROVE  IndexInv'
<1> DEFINE pc == IF kind = "reconcile" THEN "scroll" ELSE "ensure"
           f == generation[g].fence + 1
           row == [Idle EXCEPT !.pc = pc, !.kind = kind, !.generation = g, !.fence = f,
                               !.todo = todo, !.pins = pins]
           lease == [generation[g] EXCEPT !.fence = f, !.owner = w, !.lease = "future"]
<1>1. /\ caller[w].pc = "idle" /\ Goes(w, row) /\ generation' = [generation EXCEPT ![g] = lease]
      /\ calls' = calls + 1
      /\ UNCHANGED <<serving, document, mapped, manifest, remote, stray, history, layout, pauses>>
  BY DEF Acquires, Bare
<1>2. /\ generation \in [Generations -> GenerationRow] /\ generation[g] \in GenerationRow
      /\ \A h \in Generations : generation[h].fence \in Nat
      /\ \A v \in Callers : /\ caller[v].fence \in Nat
                            /\ Busy(v) => caller[v].generation \in Generations
      /\ \A r \in stray : r.fence \in Nat /\ r.generation \in Generations
  BY AtWork DEF IndexInv, LocalOK, GenerationRow, CallerRow, RequestRow, Busy
<1>3. f \in Nat /\ pc \in {"ensure", "scroll"}
  BY <1>2
<1> HIDE DEF f, pc
<1>3a. lease \in GenerationRow /\ lease.fence = f /\ lease.state = generation[g].state
  BY <1>2, <1>3 DEF GenerationRow
<1>4. /\ row \in CallerRow /\ row.pc \in {"ensure", "scroll"} /\ row.generation = g
      /\ row.fence = f
  BY <1>3, IdleOK DEF CallerRow
<1> HIDE DEF row, lease
<1> USE DEF f
<1>5. RowOK(row)
  BY <1>4 DEF RowOK, OnMemory
<1>6. /\ generation' \in [Generations -> GenerationRow]
      /\ generation'[g].fence = f
      /\ \A h \in Generations \ {g} : generation'[h].fence = generation[h].fence
      /\ \A h \in Generations : generation'[h].state = generation[h].state
  BY <1>1, <1>2, <1>3a
<1>7. /\ caller' \in [Callers -> CallerRow] /\ caller'[w] = row
      /\ \A v \in Callers \ {w} : caller'[v] = caller[v]
  BY <1>1, <1>4 DEF Goes, IndexInv, CallersOK
<1>8. CallersOK'
  <2>1. \A v \in Callers : RowOK(caller'[v])
    BY <1>5, <1>7 DEF IndexInv, CallersOK
  <2>2. \A v \in Callers : RowOK(caller'[v]) <=> RowOK(caller[v])'
    BY DEF RowOK
  <2> QED BY <1>7, <2>1, <2>2 DEF CallersOK
<1>9. LocalOK' /\ RestOK'
  BY <1>1, <1>6 DEF IndexInv, LocalOK, RestOK
<1>10. /\ RemoteOK' /\ Located' /\ QuietComplete' /\ stray' \in SUBSET RequestRow
  BY <1>1 DEF IndexInv, RemoteOK, Located, QuietComplete, Complete, remote, history
<1>11. /\ \A v \in Callers :
            Busy(v) => caller[v].fence <= generation[caller[v].generation].fence
       /\ \A r \in stray : r.fence <= generation[r.generation].fence
  BY DEF IndexInv, FencesApart
<1>12. /\ \A v \in Callers : Busy(v) =>
            /\ caller[v].fence <= generation'[caller[v].generation].fence
            /\ caller[v].generation = g => caller[v].fence # f
       /\ \A r \in stray :
            /\ r.fence <= generation'[r.generation].fence
            /\ r.generation = g => r.fence # f
       /\ f <= generation'[g].fence
  BY <1>2, <1>6, <1>11
<1> HIDE DEF f
<1>13. FencesApart'
  <2>1. \A v \in Callers \ {w} : Busy(v)' <=> Busy(v)
    BY <1>7 DEF Busy
  <2>2. \A v \in Callers :
          Busy(v)' => caller'[v].fence <= generation'[caller'[v].generation].fence
    BY <1>4, <1>7, <1>12, <2>1
  <2>3. \A u, v \in Callers :
          /\ u # v /\ Busy(u)' /\ Busy(v)' /\ caller'[u].generation = caller'[v].generation
          => caller'[u].fence # caller'[v].fence
    BY <1>4, <1>7, <1>12, <2>1 DEF IndexInv, FencesApart
  <2>4. \A r \in stray' :
          /\ r.fence <= generation'[r.generation].fence
          /\ \A v \in Callers :
               Busy(v)' /\ caller'[v].generation = r.generation => caller'[v].fence # r.fence
    BY <1>1, <1>4, <1>7, <1>12, <2>1 DEF IndexInv, FencesApart
  <2> QED BY <2>2, <2>3, <2>4 DEF FencesApart
<1>14. Underway'
  <2> SUFFICES ASSUME NEW v \in Callers PROVE UnderwayBy(v)'
    BY DEF Underway
  <2>1. CASE v = w
    BY <1>4, <1>7, <2>1 DEF UnderwayBy
  <2>2. CASE v # w
    <3>1. caller'[v] = caller[v] /\ UnderwayBy(v)
      BY <1>7, <2>2 DEF IndexInv, Underway
    <3>2. caller[v].pc # "idle" /\ generation'[caller[v].generation].fence = caller[v].fence =>
            generation[caller[v].generation].fence = caller[v].fence
      BY <1>2, <1>6, <1>12 DEF Busy
    <3> QED BY <1>1, <3>1, <3>2 DEF UnderwayBy, Expected
  <2> QED BY <2>1, <2>2
<1>15. LateUpserts'
  <2>1. \A r \in stray :
          r.fence = generation'[r.generation].fence => r.fence = generation[r.generation].fence
    BY <1>2, <1>6, <1>12
  <2> QED BY <1>1, <2>1 DEF IndexInv, LateUpserts
<1> QED BY <1>8, <1>9, <1>10, <1>13, <1>14, <1>15 DEF IndexInv

\* Every call begins with a fence of its own.
LEMMA CallBeginsStep ==
  ASSUME RecordsInv, IndexInv, NEW w \in Callers, NEW g \in Generations, CallBegins(w, g)
  PROVE  IndexInv'
<1>1. NoPins \in Pins
  <2>1. NoPins \in [{} -> Source] /\ {} \in SUBSET Memories
    BY DEF NoPins
  <2> QED BY <2>1 DEF Pins
<1>2. CASE Sync(w, g)
  BY <1>1, <1>2, AcquiresStep DEF Sync
<1>3. CASE CatchUp(w, g)
  <2>1. Pending(g) \in SUBSET Memories
    BY DEF Pending
  <2> QED BY <1>1, <1>3, <2>1, AcquiresStep DEF CatchUp
<1>4. CASE Reconcile(w, g)
  BY <1>1, <1>4, AcquiresStep DEF Reconcile
<1>5. CASE \E items \in SUBSET Memories : Repair(w, g, items)
  <2>1. PICK items \in SUBSET Memories : Repair(w, g, items)
    BY <1>5
  <2> DEFINE pins == [m \in items |-> SourceOf(m)]
             todo == {m \in items : ~UpToDate(g, m)}
  <2>2. pins \in [items -> Source]
    BY SourceTyped DEF RecordsInv
  <2>3. pins \in Pins /\ todo \in SUBSET Memories
    BY <2>2 DEF Pins
  <2>4. Acquires(w, g, "repair", todo, pins)
    BY <2>1 DEF Repair
  <2> HIDE DEF pins, todo
  <2> QED BY <2>3, <2>4, AcquiresStep
<1> QED BY <1>2, <1>3, <1>4, <1>5 DEF CallBegins

-----------------------------------------------------------------------------
(* The theorems *)

\* A step of the index leaves the memories as they are.
LEMMA IndexKeepsRecords ==
  ASSUME \/ IndexStep
         \/ \E w \in Callers, g \in Generations : CallBegins(w, g)
         \/ OwnerStep
  PROVE  UNCHANGED records
<1>1. ASSUME NEW w \in Callers, CallStep(w) PROVE UNCHANGED records
  BY <1>1 DEF CallStep, Ensured, Visit, Finish, Pruned, Dropped, Embedded, Upserted, Published,
              Hidden, Scrolled, Sweep, Removed, Fails, Dies, Bare
<1>2. CASE IndexStep
  BY <1>1, <1>2 DEF IndexStep, ArrivesLate, Pause, LeaseExpires, Bare
<1>3. CASE \E w \in Callers, g \in Generations : CallBegins(w, g)
  <2>1. PICK w \in Callers, g \in Generations : CallBegins(w, g)
    BY <1>3
  <2>2. \E kind, todo, pins : Acquires(w, g, kind, todo, pins)
    BY <2>1 DEF CallBegins, Sync, CatchUp, Reconcile, Repair
  <2> QED BY <2>2 DEF Acquires, Bare
<1>4. CASE OwnerStep
  BY <1>4 DEF OwnerStep, Begin, Activate, Deactivate, NewLimits, Bare
<1> QED BY <1>2, <1>3, <1>4

\* A step elsewhere keeps the invariant of the index.
LEMMA IndexStands ==
  ASSUME IndexInv, UNCHANGED index
  PROVE  IndexInv'
<1>1. /\ UNCHANGED <<generation, serving, document, mapped, manifest>>
      /\ UNCHANGED <<remote, caller, stray, layout, history, calls, pauses>>
  BY DEF index, local
<1>2. LocalOK' /\ RestOK'
  BY <1>1 DEF IndexInv, LocalOK, RestOK
<1>3. \A g \in Generations : generation'[g].fence >= generation[g].fence
  BY <1>1 DEF IndexInv, LocalOK, GenerationRow
<1> QED BY <1>1, <1>2, <1>3, FencesGrow

\* The invariant holds of an index without generations.
LEMMA IndexStarts == InitIndex => IndexInv
<1> SUFFICES ASSUME InitIndex PROVE IndexInv
  OBVIOUS
<1>1. NoSource \in Source
  BY DEF NoSource, Source
<1>2. NewGeneration \in GenerationRow /\ NoDocument \in DocumentRow /\ NoItem \in ItemRow
  BY <1>1 DEF NewGeneration, GenerationRow, NoDocument, DocumentRow, NoItem, ItemRow
<1>3. LocalOK
  <2>1. \A g \in Generations : generation[g].state # "active" /\ serving # g
    BY NamesAssumption DEF InitIndex, NewGeneration, None, NoGeneration
  <2> QED BY <1>2, <2>1 DEF InitIndex, LocalOK
<1>4. RemoteOK /\ RestOK /\ stray \in SUBSET RequestRow
  BY DEF InitIndex, RemoteOK, RestOK
<1>5. CallersOK
  BY IdleOK DEF InitIndex, CallersOK
<1>6. \A w \in Callers : caller[w].pc = "idle"
  BY IdleOK DEF InitIndex
<1>7. FencesApart /\ Underway /\ LateUpserts
  BY <1>6 DEF InitIndex, FencesApart, Underway, UnderwayBy, LateUpserts, Busy
<1>8. Located /\ QuietComplete
  BY DEF InitIndex, Located, QuietComplete, Complete, NoDocument, None
<1> QED BY <1>3, <1>4, <1>5, <1>7, <1>8 DEF IndexInv

\* The memories and the index together keep their invariant.
LEMMA VectorKeeps ==
  ASSUME RecordsInv, IndexInv, [Next]_vars
  PROVE  RecordsInv' /\ IndexInv'
<1>1. CASE (RecordStep \/ ReviewStep \/ SourceStep) /\ UNCHANGED index
  <2>1. RecordsInv'
    BY <1>1, RecordsKeep
  <2>2. UNCHANGED index
    BY <1>1
  <2> QED BY <2>1, <2>2, IndexStands
<1>2. CASE UNCHANGED vars
  <2>1. UNCHANGED records /\ UNCHANGED index
    BY <1>2 DEF vars
  <2>2. RecordsInv'
    BY <2>1 DEF records, RecordsInv, RecordsTypeOK, Lineage, InOrderMade, OriginsUsed, PagesRead,
                Exists, Unused
  <2>3. IndexInv'
    BY <2>1, IndexStands
  <2> QED BY <2>2, <2>3
<1>3. CASE \/ IndexStep
           \/ \E w \in Callers, g \in Generations : CallBegins(w, g)
           \/ OwnerStep
  <2>1. UNCHANGED records
    BY <1>3, IndexKeepsRecords
  <2>2. RecordsInv'
    BY <2>1 DEF records, RecordsInv, RecordsTypeOK, Lineage, InOrderMade, OriginsUsed, PagesRead,
                Exists, Unused
  <2>3. CASE IndexStep
    <3>1. CASE \E w \in Callers : CallStep(w)
      BY <2>2, <3>1, CallStepKeeps
    <3>2. CASE \E r \in stray : ArrivesLate(r)
      BY <2>2, <3>2, ArrivesLateStep
    <3>3. CASE \E g \in Generations : Pause(g) \/ LeaseExpires(g)
      BY <2>2, <3>3, PauseStep
    <3> QED BY <2>3, <3>1, <3>2, <3>3 DEF IndexStep
  <2>4. CASE \E w \in Callers, g \in Generations : CallBegins(w, g)
    BY <2>2, <2>4, CallBeginsStep
  <2>5. CASE OwnerStep
    <3>1. ASSUME NEW g \in Generations, Begin(g, TRUE) \/ Begin(g, FALSE) PROVE IndexInv'
      BY <3>1, BeginStep
    <3>2. ASSUME NEW g \in Generations, Activate(g) \/ Deactivate(g) PROVE IndexInv'
      BY <3>2, ActivateStep
    <3>3. ASSUME NEW l \in Layouts, NewLimits(l) PROVE IndexInv'
      BY <3>3, NewLimitsStep
    <3> QED BY <2>2, <2>5, <3>1, <3>2, <3>3 DEF OwnerStep
  <2> QED BY <1>3, <2>2, <2>3, <2>4, <2>5
<1> QED BY <1>1, <1>2, <1>3 DEF Next

\* What is complete is found: nothing that is mapped for a current document is
\* missing, unless it was deleted after it was written.
LEMMA CompleteFound == QuietComplete => QuietIndexed
<1> SUFFICES ASSUME QuietComplete, quiet, NEW g \in Generations, NEW m \in Memories,
                    UpToDate(g, m), PointsOf(m, lost[g]) = {}
             PROVE  Stored(g, m)
  BY DEF QuietIndexed
<1>1. document[g][m].state = "indexed" /\ document[g][m].source = SourceOf(m)
  BY DEF UpToDate
<1>2. /\ \E l \in Layouts : PointsOf(m, mapped[g]) = Build(m, SourceOf(m), l)
      /\ PointsOf(m, mapped[g]) \ lost[g] \subseteq published[g]
  BY <1>1 DEF QuietComplete, Complete
<1>3. PointsOf(m, mapped[g]) \subseteq published[g]
  BY <1>2 DEF PointsOf
<1> QED BY <1>2, <1>3 DEF Stored

\* Every reachable state has the inductive invariant.
LEMMA VectorInvariant == Spec => [](RecordsInv /\ IndexInv)
<1>1. InitRecords /\ InitIndex => RecordsInv /\ IndexInv
  BY RecordsStart, IndexStarts
<1>2. RecordsInv /\ IndexInv /\ [Next]_vars => (RecordsInv /\ IndexInv)'
  BY VectorKeeps
<1> QED BY <1>1, <1>2, PTL DEF Spec

\* Memories, documents, points, calls and requests have the states the tables
\* and the code allow; corrections form chains, and one generation at most is
\* active, the one that serves (index.mjs, store.mjs).
THEOREM VectorTyped == Spec => []TypeOK
<1>1. RecordsInv /\ IndexInv => TypeOK
  BY IndexTyped DEF RecordsInv, TypeOK
<1> QED BY <1>1, VectorInvariant, PTL

\* A current memory whose document is 'indexed' is found, whatever crashed or
\* was lost in the calls that indexed it, unless a request arrived without its
\* sender's lease or one of its points was deleted afterwards.
THEOREM IndexedKept == Spec => []QuietIndexed
<1>1. RecordsInv /\ IndexInv => QuietIndexed
  BY CompleteFound DEF IndexInv
<1> QED BY <1>1, VectorInvariant, PTL

\* A decision on the review page changes the memories only as its reader saw
\* them (decideMemoryDuplicate compares the versions of both).
THEOREM DecidedAsSeen == Spec => AsSeen
<1>1. RecordsInv /\ IndexInv /\ [Next]_vars => [AsSeenStep]_vars
  <2> SUFFICES ASSUME RecordsInv, Next PROVE AsSeenStep
    OBVIOUS
  <2>1. CASE ReviewStep
    BY <2>1, DecidesAsSeen
  <2>2. CASE ~ReviewStep
    <3>1. reviewer' = reviewer
      <4>1. CASE RecordStep \/ SourceStep
        BY <4>1 DEF RecordStep, SourceStep, Save, Supersede, Retract, CloudSupersede,
                    CloudRetract, SetCategory, DeleteProject, RestoreProject
      <4>2. CASE \/ IndexStep
                 \/ \E w \in Callers, g \in Generations : CallBegins(w, g)
                 \/ OwnerStep
        BY <4>2, IndexKeepsRecords DEF records
      <4> QED BY <2>2, <4>1, <4>2 DEF Next
    <3> QED BY <3>1 DEF AsSeenStep
  <2> QED BY <2>1, <2>2
<1> QED BY <1>1, VectorInvariant, PTL DEF Spec, AsSeen
=============================================================================
