----------------------------- MODULE OutboxProofs -----------------------------
(***************************************************************************)
(* For any items, lanes, processes, faults and kills: no envelope is lost; *)
(* as long as no lane has had two holders, the server sees a session in    *)
(* order across its queues, and within a queue until flushes overlap or    *)
(* are killed; and until a kill an item with an unmatched answer waits for *)
(* a reconciliation.                                                       *)
(*                                                                         *)
(* The steps are first reduced to their effects on what the order depends  *)
(* on (Effects); each part of the invariant then has a lemma of its own.   *)
(***************************************************************************)
EXTENDS Outbox, TLAPS

RowOK(r) == r \in Flusher /\ (r.pc \notin {"idle", "next"} => r.item \in Items)

\* The fields the invariants are about.
Same(r, f, pc) == r.pc = pc /\ r.item = f.item /\ r.answer = f.answer

\* The markers and sidecars that are there before anything has failed.
LEMMA Nothing == NoMarker \in Marker /\ NoSidecar \in Sidecar
  BY DEF NoMarker, Marker, NoSidecar, Sidecar, States, Stopped

\* What flushQueue does to its local variables keeps them well typed.
Pcs == {"next", "check", "remove", "unpause", "clean", "mark", "settle"}
LEMMA UpdatePc ==
  ASSUME NEW f \in Flusher, NEW pc \in Pcs
  PROVE  [f EXCEPT !.pc = pc] \in Flusher /\ Same([f EXCEPT !.pc = pc], f, pc)
  BY DEF Flusher, Same, Pcs
\* The same for an item that is passed over,
LEMMA UpdateTodo ==
  ASSUME NEW f \in Flusher, NEW i \in Items
  PROVE  /\ [f EXCEPT !.todo = f.todo \ {i}] \in Flusher
         /\ Same([f EXCEPT !.todo = f.todo \ {i}], f, f.pc)
  BY DEF Flusher, Same
\* an item that was read,
LEMMA UpdateRead ==
  ASSUME NEW f \in Flusher, NEW m \in Marker, NEW s \in Sidecar
  PROVE  /\ [f EXCEPT !.pc = "test", !.marker = m, !.state = s] \in Flusher
         /\ Same([f EXCEPT !.pc = "test", !.marker = m, !.state = s], f, "test")
  BY DEF Flusher, Same
\* and one that was left,
LEMMA UpdateBetween ==
  ASSUME NEW p \in Processes, flusher[p] \in Flusher
  PROVE  Between(p) \in Flusher /\ Between(p).pc = "next"
  BY Nothing DEF Between, Flusher, Answers
\* a lane that is stopped,
LEMMA UpdateBlocked ==
  ASSUME NEW f \in Flusher, NEW l \in Lanes
  PROVE  /\ [f EXCEPT !.blocked = f.blocked \cup {l}] \in Flusher
         /\ [f EXCEPT !.blocked = f.blocked \cup {l}].pc = f.pc
  BY DEF Flusher
\* a request
LEMMA UpdateSent ==
  ASSUME NEW f \in Flusher, NEW v \in {"flush", "reconcile"}
  PROVE  /\ [f EXCEPT !.pc = "sent", !.sends = "some", !.via = v,
                      !.marker = NoMarker, !.state = NoSidecar] \in Flusher
         /\ Same([f EXCEPT !.pc = "sent", !.sends = "some", !.via = v,
                           !.marker = NoMarker, !.state = NoSidecar], f, "sent")
  BY Nothing DEF Flusher, Same
\* and its answer.
LEMMA UpdateAnswer ==
  ASSUME NEW f \in Flusher, NEW a \in Answers
  PROVE  /\ [f EXCEPT !.pc = "answered", !.answer = a] \in Flusher
         /\ [f EXCEPT !.pc = "answered", !.answer = a].pc = "answered"
         /\ [f EXCEPT !.pc = "answered", !.answer = a].item = f.item
         /\ [f EXCEPT !.pc = "answered", !.answer = a].answer = a
  BY DEF Flusher

\* A flush that ends or begins is well typed.
LEMMA IdleOK ==
  /\ RowOK(Idle) /\ Idle.pc = "idle"
  /\ \A m \in {"flush", "reconcile"}, c \in Creds, list \in SUBSET Items :
       /\ RowOK([Idle EXCEPT !.pc = "next", !.mode = m, !.cred = c, !.listed = list,
                            !.todo = list])
       /\ [Idle EXCEPT !.pc = "next", !.mode = m, !.cred = c, !.listed = list,
                      !.todo = list].pc = "next"
  <1>1. RowOK(Idle) /\ Idle.pc = "idle"
    BY Nothing DEF RowOK, Idle, Flusher, Answers, None
  <1>2. ASSUME NEW m \in {"flush", "reconcile"}, NEW c \in Creds, NEW list \in SUBSET Items
        PROVE  /\ RowOK([Idle EXCEPT !.pc = "next", !.mode = m, !.cred = c,
                                     !.listed = list, !.todo = list])
               /\ [Idle EXCEPT !.pc = "next", !.mode = m, !.cred = c,
                              !.listed = list, !.todo = list].pc = "next"
    <2> DEFINE f == [Idle EXCEPT !.pc = "next", !.mode = m]
               r == [f EXCEPT !.cred = c, !.listed = list, !.todo = list]
    <2>1. f \in Flusher /\ f.pc = "next"
      BY <1>1 DEF RowOK, Flusher
    <2> HIDE DEF f
    <2>2. r \in Flusher /\ r.pc = "next"
      BY <2>1 DEF Flusher
    <2>3. RowOK(r)
      BY <2>2 DEF RowOK
    <2> QED
      BY <2>2, <2>3 DEF f, r
  <1> QED
    BY <1>1, <1>2

\* The local variables of a flush, and what it may confirm: the row r a step
\* gives to process p.
Steps(p, r) ==
  /\ p \in Processes /\ Becomes(p, r) /\ RowOK(r)
  /\ \/ r.pc \in {"unpause", "remove", "clean"}
     \/ r.pc = "answered" /\ r.answer = "accepted"
     => r.item \in server'
  /\ r.pc \in {"mark", "settle"} => r.answer # "accepted"
  /\ server \subseteq server'

\* A step gives one process a row it may have, or none, and the server forgets nothing.
LEMMA FlusherSteps ==
  ASSUME TypeOK, RemovesConfirmed, [Next]_vars
  PROVE  \/ flusher' = flusher /\ server \subseteq server'
         \/ \E p \in Processes : \E r : Steps(p, r)
<1> USE DEF disk, remote, history
<1>0. /\ cred \in Creds /\ files \subseteq Items
      /\ \A p \in Processes : RowOK(flusher[p])
      /\ \A p \in Processes : flusher[p] \in Flusher
  BY DEF TypeOK, RowOK
<1>1. ASSUME NEW p \in Processes, NEW r, Becomes(p, r), RowOK(r),
             r.pc \notin {"unpause", "remove", "clean", "answered"}, server' = server,
             r.pc \in {"mark", "settle"} => r.answer # "accepted"
      PROVE  Steps(p, r)
  BY <1>1 DEF Steps
<1>2. ASSUME NEW p \in Processes, NEW r, Becomes(p, r), RowOK(r),
             r.item = flusher[p].item, flusher[p].item \in server, server' = server,
             r.pc \notin {"mark", "settle"}
      PROVE  Steps(p, r)
  BY <1>2 DEF Steps
<1>3. ASSUME NEW p \in Processes, NEW pc \in Pcs, flusher[p].pc \notin {"idle", "next"}
      PROVE  /\ RowOK([flusher[p] EXCEPT !.pc = pc])
             /\ Same([flusher[p] EXCEPT !.pc = pc], flusher[p], pc)
  <2>1. flusher[p].item \in Items
    BY <1>0, <1>3 DEF RowOK
  <2>2. /\ [flusher[p] EXCEPT !.pc = pc] \in Flusher
        /\ Same([flusher[p] EXCEPT !.pc = pc], flusher[p], pc)
    BY <1>0, UpdatePc
  <2> QED BY <2>1, <2>2 DEF RowOK, Same
<1>4. ASSUME NEW p \in Processes, NEW m \in {"flush", "reconcile"},
             NEW list \in SUBSET files, Begin(p, m, list)
      PROVE  \E r : Steps(p, r)
  <2> DEFINE r == [Idle EXCEPT !.pc = "next", !.mode = m, !.cred = cred, !.listed = list,
                         !.todo = list]
  <2>1. RowOK(r) /\ r.pc = "next"
    BY <1>0, IdleOK
  <2>2. Becomes(p, r) /\ server' = server
    BY <1>4 DEF Begin
  <2> HIDE DEF r
  <2> QED BY <1>1, <2>1, <2>2
<1>5. ASSUME NEW p \in Processes, Becomes(p, Idle), server' = server
      PROVE  \E r : Steps(p, r)
  BY <1>1, <1>5, IdleOK
<1>6. ASSUME NEW p \in Processes, NEW i \in Items, NEW pc \in {"check", "reap"},
             Claims(p, i, pc), server' = server
      PROVE  \E r : Steps(p, r)
  <2> DEFINE r == [flusher[p] EXCEPT !.todo = flusher[p].todo \ {i}, !.item = i, !.pc = pc]
  <2>1. r \in Flusher /\ r.item = i /\ r.pc = pc
    <3>1. flusher[p] \in Flusher
      BY <1>0
    <3> QED BY <3>1 DEF Flusher
  <2>2. Becomes(p, r)
    BY <1>6 DEF Claims
  <2> HIDE DEF r
  <2>3. RowOK(r)
    BY <2>1 DEF RowOK
  <2> QED BY <1>1, <1>6, <2>1, <2>2, <2>3
<1>7. ASSUME NEW p \in Processes, Take(p) PROVE \E r : Steps(p, r)
  <2>1. PICK i \in Items :
          \/ Becomes(p, [flusher[p] EXCEPT !.todo = @ \ {i}])
          \/ Claims(p, i, "check") \/ Claims(p, i, "reap")
    BY <1>7 DEF Take
  <2> DEFINE r == [flusher[p] EXCEPT !.todo = flusher[p].todo \ {i}]
  <2>2. flusher[p].pc = "next" /\ server' = server
    BY <1>7 DEF Take
  <2>3. CASE Becomes(p, r)
    <3>1. r \in Flusher /\ Same(r, flusher[p], flusher[p].pc)
      BY <1>0, UpdateTodo
    <3>2. RowOK(r) /\ r.pc = "next"
      BY <2>2, <3>1 DEF RowOK, Same
    <3> HIDE DEF r
    <3> QED BY <1>1, <2>2, <2>3, <3>2
  <2> QED BY <1>6, <2>1, <2>2, <2>3
<1>8. ASSUME NEW p \in Processes, NEW pc \in {"next", "check", "settle"},
             Reap(p) \/ Mark(p), Becomes(p, [flusher[p] EXCEPT !.pc = pc]),
             pc = "settle" => flusher[p].answer # "accepted"
      PROVE  \E r : Steps(p, r)
  <2> DEFINE r == [flusher[p] EXCEPT !.pc = pc]
  <2>1. flusher[p].pc \in {"reap", "mark"} /\ server' = server
    BY <1>8 DEF Reap, Mark
  <2>2. RowOK(r) /\ Same(r, flusher[p], pc)
    BY <1>3, <2>1 DEF Pcs
  <2>3. Becomes(p, r)
    BY <1>8
  <2> HIDE DEF r
  <2> QED BY <1>1, <1>8, <2>1, <2>2, <2>3 DEF Same
<1>9. ASSUME NEW p \in Processes, OnToNext(p), server' = server PROVE \E r : Steps(p, r)
  <2>1. Becomes(p, Between(p)) \/ Becomes(p, Idle)
    BY <1>9 DEF OnToNext, Leaves
  <2>2. Between(p) \in Flusher /\ Between(p).pc = "next"
    BY <1>0, UpdateBetween
  <2> QED BY <1>1, <1>5, <1>9, <2>1, <2>2 DEF RowOK
<1>10. ASSUME NEW p \in Processes, Stops(p), server' = server,
              flusher[p].pc \notin {"idle", "next"}
       PROVE  \E r : Steps(p, r)
  <2> DEFINE l == Lane[flusher[p].item]
             f == Between(p)
             r == [f EXCEPT !.blocked = f.blocked \cup {l}]
  <2>1. l \in Lanes
    BY <1>0, <1>10 DEF Lanes, RowOK
  <2>2. f \in Flusher /\ f.pc = "next"
    BY <1>0, UpdateBetween
  <2>3. Becomes(p, r) \/ Becomes(p, Idle)
    BY <1>10 DEF Stops, Leaves
  <2> HIDE DEF f, l
  <2>4. r \in Flusher /\ r.pc = f.pc
    BY <2>1, <2>2, UpdateBlocked
  <2> HIDE DEF r
  <2> QED BY <1>1, <1>5, <1>10, <2>2, <2>3, <2>4 DEF RowOK
<1>11. ASSUME NEW p \in Processes, Read(p) PROVE \E r : Steps(p, r)
  <2> DEFINE i == flusher[p].item
             r == [flusher[p] EXCEPT !.pc = "test", !.marker = marker[Lane[i]],
                                     !.state = sidecar[i]]
  <2>1. i \in Items /\ server' = server /\ Becomes(p, r)
    BY <1>0, <1>11 DEF Read, RowOK
  <2>2. marker[Lane[i]] \in Marker /\ sidecar[i] \in Sidecar
    BY <2>1 DEF TypeOK, Lanes
  <2>3. r \in Flusher /\ Same(r, flusher[p], "test")
    BY <1>0, <2>2, UpdateRead
  <2> HIDE DEF r
  <2>4. RowOK(r) /\ r.pc = "test"
    BY <2>1, <2>3 DEF RowOK, Same
  <2> QED BY <1>1, <2>1, <2>4
<1>12. ASSUME NEW p \in Processes, Send(p) PROVE \E r : Steps(p, r)
  <2>1. PICK v \in {"flush", "reconcile"} :
          Becomes(p, [flusher[p] EXCEPT !.pc = "sent", !.sends = "some", !.via = v,
                                        !.marker = NoMarker, !.state = NoSidecar])
    BY <1>12 DEF Send
  <2> DEFINE r == [flusher[p] EXCEPT !.pc = "sent", !.sends = "some", !.via = v,
                                     !.marker = NoMarker, !.state = NoSidecar]
  <2>2. flusher[p].pc = "test" /\ server' = server
    BY <1>12 DEF Send, Free
  <2>3. flusher[p].item \in Items
    BY <1>0, <2>2 DEF RowOK
  <2>4. r \in Flusher /\ Same(r, flusher[p], "sent")
    BY <1>0, UpdateSent
  <2>5. Becomes(p, r)
    BY <2>1
  <2> HIDE DEF r
  <2>6. RowOK(r) /\ r.pc = "sent"
    BY <2>3, <2>4 DEF RowOK, Same
  <2> QED BY <1>1, <2>2, <2>5, <2>6
<1>13. ASSUME NEW p \in Processes, NEW a \in Answers, Answered(p, a),
              flusher[p].pc \in {"sent", "unpause", "remove", "clean"}, server \subseteq server',
              a = "accepted" => flusher[p].item \in server'
       PROVE  \E r : Steps(p, r)
  <2> DEFINE r == [flusher[p] EXCEPT !.pc = "answered", !.answer = a]
  <2>1. flusher[p].item \in Items
    BY <1>0, <1>13 DEF RowOK
  <2>2. /\ r \in Flusher /\ r.pc = "answered" /\ r.answer = a
        /\ r.item = flusher[p].item
    BY <1>0, UpdateAnswer
  <2>3. Becomes(p, r)
    BY <1>13 DEF Answered
  <2> HIDE DEF r
  <2>4. Steps(p, r)
    BY <1>13, <2>1, <2>2, <2>3 DEF Steps, RowOK
  <2> QED BY <2>4
<1>14. ASSUME NEW p \in Processes, Answer(p) PROVE \E r : Steps(p, r)
  <2>1. flusher[p].pc = "sent" /\ server \subseteq server'
    BY <1>14 DEF Answer
  <2>2. \E a \in Answers : /\ Answered(p, a)
                           /\ a = "accepted" => flusher[p].item \in server'
    BY <1>14 DEF Answer, Answers, Stopped
  <2> QED BY <1>13, <2>1, <2>2
<1>15. ASSUME NEW p \in Processes, NEW pc \in {"remove", "unpause", "clean"},
              Accept(p) \/ Unpause(p) \/ Remove(p),
              Becomes(p, [flusher[p] EXCEPT !.pc = pc])
       PROVE  \E r : Steps(p, r)
  <2>1. /\ flusher[p].pc \in {"answered", "unpause", "remove"} /\ server' = server
        /\ flusher[p].item \in server
    BY <1>15 DEF Accept, Unpause, Remove, ValidAcceptance, RemovesConfirmed
  <2> DEFINE r == [flusher[p] EXCEPT !.pc = pc]
  <2>2. RowOK(r) /\ Same(r, flusher[p], pc)
    BY <1>3, <2>1 DEF Pcs
  <2>3. r.item = flusher[p].item /\ r.pc = pc
    BY <2>2 DEF Same
  <2>4. Becomes(p, r)
    BY <1>15
  <2> HIDE DEF r
  <2> QED BY <1>2, <2>1, <2>2, <2>3, <2>4
<1>16. ASSUME NEW p \in Processes, Accept(p) \/ Unpause(p) \/ Remove(p)
       PROVE  \E r : Steps(p, r)
  <2>1. CASE \E pc \in {"remove", "unpause", "clean"} : Becomes(p, [flusher[p] EXCEPT !.pc = pc])
    BY <1>15, <1>16, <2>1
  <2>2. CASE Answered(p, "retry_wait") /\ ~Accept(p)
    <3>1. flusher[p].pc \in {"unpause", "remove"} /\ server' = server
      BY <1>16, <2>2 DEF Unpause, Remove
    <3> QED BY <1>13, <2>2, <3>1 DEF Answers
  <2>3. Accept(p) => \E pc \in {"remove", "unpause", "clean"} :
                       Becomes(p, [flusher[p] EXCEPT !.pc = pc])
    BY DEF Accept
  <2>4. Unpause(p) \/ Remove(p) =>
          \/ \E pc \in {"remove", "unpause", "clean"} : Becomes(p, [flusher[p] EXCEPT !.pc = pc])
          \/ Answered(p, "retry_wait")
    BY DEF Unpause, Remove
  <2> QED BY <1>16, <2>1, <2>2, <2>3, <2>4
<1>17. ASSUME NEW p \in Processes, Fail(p) PROVE \E r : Steps(p, r)
  <2> DEFINE r == [flusher[p] EXCEPT !.pc = "mark"]
  <2>1. /\ flusher[p].pc = "answered" /\ flusher[p].answer # "accepted"
        /\ server' = server /\ Becomes(p, r)
    BY <1>17 DEF Fail, ValidAcceptance
  <2>2. RowOK(r) /\ r.pc = "mark" /\ r.answer = flusher[p].answer
    BY <1>3, <2>1 DEF Same, Pcs
  <2> HIDE DEF r
  <2> QED BY <1>1, <2>1, <2>2
<1>18. ASSUME NEW p \in Processes, Step(p) PROVE \E r : Steps(p, r)
  <2>1. End(p) \/ Vanished(p) => \E r : Steps(p, r)
    BY <1>5 DEF End, Vanished, Leaves
  <2>2. Gone(p) \/ Gap(p) => \E r : Steps(p, r)
    BY <1>9 DEF Gone, Gap
  <2>3. Clean(p) => \E r : Steps(p, r)
    BY <1>9, <1>13 DEF Clean, Answers
  <2>4. Reap(p) => \E r : Steps(p, r)
    BY <1>8 DEF Reap
  <2>5. Hold(p) => \E r : Steps(p, r)
    BY <1>10 DEF Hold, Free
  <2>6. Mark(p) => \E r : Steps(p, r)
    BY <1>8, <1>10 DEF Mark, RemovesConfirmed
  <2>7. Settle(p) => \E r : Steps(p, r)
    BY <1>5, <1>10 DEF Settle, Leaves
  <2> QED BY <1>7, <1>11, <1>12, <1>14, <1>16, <1>17, <1>18,
             <2>1, <2>2, <2>3, <2>4, <2>5, <2>6, <2>7 DEF Step
<1>19. ASSUME NEW p \in Processes, TimeIsUp(p) \/ Crash(p) \/ Stall(p) PROVE \E r : Steps(p, r)
  <2>1. TimeIsUp(p) \/ Crash(p) => \E r : Steps(p, r)
    BY <1>5 DEF TimeIsUp, Crash
  <2>2. Stall(p) => \E r : Steps(p, r)
    BY <1>6 DEF Stall
  <2> QED BY <1>19, <2>1, <2>2
<1>20. ASSUME NEW p \in Processes, Reconcile(p) \/ \E k \in Kinds : Flush(p, k)
       PROVE  \E r : Steps(p, r)
  <2>1. \E m \in {"flush", "reconcile"}, list \in SUBSET files : Begin(p, m, list)
    BY <1>20 DEF Reconcile, Flush
  <2> QED BY <1>4, <2>1
<1>21. CASE \/ \E i \in Items : Queue(i) \/ Due(i) \/ Repair(i)
            \/ Revoke \/ NewCredential \/ UNCHANGED vars
  BY <1>21 DEF Queue, Due, Repair, Revoke, NewCredential, vars
<1> QED BY <1>18, <1>19, <1>20, <1>21 DEF Next

FlusherOK ==
  /\ flusher \in [Processes -> Flusher]
  /\ \A p \in Processes : flusher[p].pc \notin {"idle", "next"} => flusher[p].item \in Items

\* The rows stay well typed, and what is removed has been accepted.
LEMMA FlusherStep ==
  TypeOK /\ RemovesConfirmed /\ [Next]_vars => FlusherOK' /\ RemovesConfirmed'
<1> SUFFICES ASSUME TypeOK, RemovesConfirmed, [Next]_vars
             PROVE  FlusherOK' /\ RemovesConfirmed'
  OBVIOUS
<1>0. FlusherOK
  BY DEF TypeOK, FlusherOK
<1>1. CASE flusher' = flusher /\ server \subseteq server'
  BY <1>0, <1>1 DEF FlusherOK, RemovesConfirmed
<1>2. ASSUME NEW p \in Processes, NEW r, Steps(p, r)
      PROVE  FlusherOK' /\ RemovesConfirmed'
  <2>1. flusher' = [flusher EXCEPT ![p] = r]
    BY <1>2 DEF Steps, Becomes
  <2>2. \A q \in Processes : flusher'[q] = IF q = p THEN r ELSE flusher[q]
    BY <1>0, <2>1 DEF FlusherOK
  <2>3. FlusherOK'
    BY <1>0, <1>2, <2>1, <2>2 DEF FlusherOK, Steps, RowOK
  <2>4. RemovesConfirmed'
    BY <1>2, <2>2 DEF RemovesConfirmed, Steps
  <2> QED BY <2>3, <2>4
<1> QED BY <1>1, <1>2, FlusherSteps

\* The other variables.
SidecarOK == sidecar \in [Items -> Sidecar]
LaneOK ==
  /\ marker \in [Lanes -> Marker]
  /\ lock \in [Lanes -> SUBSET (Processes \cup {"dead"})]
FilesOK ==
  /\ queued \in SUBSET Items
  /\ files \in SUBSET Items
  /\ quarantine \in SUBSET Items
  /\ server \in SUBSET Items
ServerOK ==
  /\ authFile \in Creds \cup {None}
  /\ cred \in Creds
  /\ refused \in SUBSET Creds
  /\ broken \in SUBSET Items
  /\ faults \in Nat /\ crashes \in Nat
  /\ overlap \in {"no", "yes"} /\ shared \in {"no", "yes"}

\* What is written to a sidecar.
LEMMA SidecarUpdates ==
  ASSUME NEW s \in Sidecar
  PROVE  /\ [s EXCEPT !.state = "blocked_gap"] \in Sidecar
         /\ [s EXCEPT !.state = "pending"] \in Sidecar
         /\ [s EXCEPT !.wait = "no"] \in Sidecar
         /\ NoSidecar \in Sidecar
  BY DEF Sidecar, NoSidecar, States, Stopped

\* A failure has one of the states of a sidecar.
LEMMA FailedStates ==
  ASSUME TypeOK, NEW p \in Processes, flusher[p].answer # "accepted"
  PROVE  FailedState(p) \in States
  BY DEF FailedState, TypeOK, Flusher, Answers, States, Stopped

\* Who writes sidecars.
LEMMA SidecarStep ==
  TypeOK /\ RemovesConfirmed /\ [Next]_vars => SidecarOK'
<1> SUFFICES ASSUME TypeOK, RemovesConfirmed, [Next]_vars PROVE SidecarOK'
  OBVIOUS
<1> USE DEF disk, remote, history
<1>0. SidecarOK
  BY DEF TypeOK, SidecarOK
<1>1. ASSUME sidecar' = sidecar PROVE SidecarOK'
  BY <1>0, <1>1 DEF SidecarOK
<1>2. ASSUME NEW i \in Items, NEW s \in Sidecar, sidecar' = [sidecar EXCEPT ![i] = s]
      PROVE  SidecarOK'
  BY <1>0, <1>2 DEF SidecarOK
<1>3. ASSUME NEW p \in Processes, flusher[p].pc \notin {"idle", "next"}
      PROVE  flusher[p].item \in Items
  BY <1>3 DEF TypeOK
<1>4. ASSUME NEW p \in Processes, Gap(p) \/ Send(p) \/ Clean(p) PROVE SidecarOK'
  <2> DEFINE i == flusher[p].item
             s == flusher[p].state
  <2>1. i \in Items
    BY <1>3, <1>4 DEF Gap, Send, Clean, Free
  <2>2. s \in Sidecar
    BY DEF TypeOK, Flusher
  <2>3. \/ sidecar' = sidecar
        \/ sidecar' = [sidecar EXCEPT ![i] = [s EXCEPT !.state = "blocked_gap"]]
        \/ sidecar' = [sidecar EXCEPT ![i] = [s EXCEPT !.state = "pending"]]
        \/ sidecar' = [sidecar EXCEPT ![i] = NoSidecar]
    BY <1>4 DEF Gap, Send, Clean
  <2> HIDE DEF i, s
  <2> QED BY <1>1, <1>2, <2>1, <2>2, <2>3, SidecarUpdates
<1>5. ASSUME NEW p \in Processes, Fail(p) PROVE SidecarOK'
  <2> DEFINE i == flusher[p].item
             s == [state |-> FailedState(p), cred |-> flusher[p].cred,
                   wait |-> IF FailedState(p) = "retry_wait" THEN "yes" ELSE "no"]
  <2>1. i \in Items /\ flusher[p].answer # "accepted"
    BY <1>3, <1>5 DEF Fail, ValidAcceptance
  <2>2. FailedState(p) \in States
    BY <2>1, FailedStates
  <2>3. flusher[p].cred \in Creds \cup {None}
    BY DEF TypeOK, Flusher
  <2>4. s \in Sidecar
    BY <2>2, <2>3 DEF Sidecar
  <2>5. sidecar' = [sidecar EXCEPT ![i] = s]
    BY <1>5 DEF Fail
  <2> HIDE DEF i, s
  <2> QED BY <1>2, <2>1, <2>4, <2>5
<1>6. ASSUME NEW i \in Items, Due(i) PROVE SidecarOK'
  <2>1. sidecar[i] \in Sidecar
    BY <1>0 DEF SidecarOK
  <2>2. sidecar' = [sidecar EXCEPT ![i] = [sidecar[i] EXCEPT !.wait = "no"]]
    BY <1>6 DEF Due
  <2> QED BY <1>2, <2>1, <2>2, SidecarUpdates
<1>7. ASSUME NEW p \in Processes, Step(p), ~Gap(p), ~Send(p), ~Clean(p), ~Fail(p)
      PROVE  SidecarOK'
  BY <1>1, <1>7 DEF Step, End, Take, Reap, Gone, Read, Vanished, Hold, Answer, Accept,
                  Unpause, Remove, Mark, Settle
<1>8. ASSUME NEW p \in Processes, \/ TimeIsUp(p) \/ Crash(p) \/ Stall(p) \/ Reconcile(p)
                                  \/ \E k \in Kinds : Flush(p, k)
      PROVE  SidecarOK'
  BY <1>1, <1>8 DEF TimeIsUp, Crash, Stall, Reconcile, Flush, Begin
<1>9. CASE \/ \E i \in Items : Queue(i) \/ Repair(i)
           \/ Revoke \/ NewCredential \/ UNCHANGED vars
  BY <1>1, <1>9 DEF Queue, Repair, Revoke, NewCredential, vars
<1> QED BY <1>4, <1>5, <1>6, <1>7, <1>8, <1>9 DEF Next

\* Who writes markers and locks.
LEMMA LaneStep ==
  TypeOK /\ RemovesConfirmed /\ [Next]_vars => LaneOK'
<1> SUFFICES ASSUME TypeOK, RemovesConfirmed, [Next]_vars PROVE LaneOK'
  OBVIOUS
<1> USE DEF disk, remote, history
<1>0. LaneOK
  BY DEF TypeOK, LaneOK
<1>1. ASSUME NEW l \in Lanes, NEW m \in Marker, NEW h \in SUBSET (Processes \cup {"dead"}),
             marker' = marker \/ marker' = [marker EXCEPT ![l] = m],
             lock' = lock \/ lock' = [lock EXCEPT ![l] = h]
      PROVE  LaneOK'
  BY <1>0, <1>1 DEF LaneOK
<1>2. ASSUME marker' = marker, lock' = lock PROVE LaneOK'
  BY <1>0, <1>2 DEF LaneOK
<1>3. ASSUME NEW p \in Processes, flusher[p].pc \notin {"idle", "next"}
      PROVE  flusher[p].item \in Items /\ Lane[flusher[p].item] \in Lanes
  BY <1>3 DEF TypeOK, Lanes
<1>4. ASSUME NEW p \in Processes, flusher[p].pc \notin {"idle", "next"}, NEW m \in Marker,
             lock' = lock \/ \E r : Leaves(p, r),
             marker' = marker \/ marker' = [marker EXCEPT ![Lane[flusher[p].item]] = m]
      PROVE  LaneOK'
  <2> DEFINE l == Lane[flusher[p].item]
             h == lock[l] \ {p}
  <2>1. l \in Lanes
    BY <1>3, <1>4
  <2>2. h \in SUBSET (Processes \cup {"dead"})
    BY <1>0, <2>1 DEF LaneOK
  <2>3. lock' = lock \/ lock' = [lock EXCEPT ![l] = h]
    BY <1>4 DEF Leaves
  <2>4. marker' = marker \/ marker' = [marker EXCEPT ![l] = m]
    BY <1>4
  <2> HIDE DEF l, h
  <2> QED BY <1>1, <2>1, <2>2, <2>3, <2>4
<1>5. ASSUME NEW p \in Processes,
             Gone(p) \/ Gap(p) \/ Vanished(p) \/ Hold(p) \/ Clean(p) \/ Settle(p)
      PROVE  LaneOK'
  <2>1. flusher[p].pc \notin {"idle", "next"}
    BY <1>5 DEF Gone, Gap, Vanished, Hold, Clean, Settle, Free
  <2>2. lock' = lock \/ \E r : Leaves(p, r)
    BY <1>5 DEF Gone, Gap, Vanished, Hold, Clean, Settle, OnToNext, Stops
  <2>3. marker' = marker \/ marker' = [marker EXCEPT ![Lane[flusher[p].item]] = NoMarker]
    BY <1>5 DEF Gone, Gap, Vanished, Hold, Clean, Settle
  <2> QED BY <1>4, <2>1, <2>2, <2>3, Nothing
<1>6. ASSUME NEW p \in Processes, Take(p) \/ Reap(p) \/ Stall(p) PROVE LaneOK'
  <2>1. PICK i \in Items : \/ lock' = lock \/ lock' = [lock EXCEPT ![Lane[i]] = {p}]
                           \/ lock' = [lock EXCEPT ![Lane[i]] = {"dead"}]
                           \/ lock' = [lock EXCEPT ![Lane[i]] = lock[Lane[i]] \cup {p}]
    <3>1. Take(p) \/ Stall(p) => \E i \in Items : \/ lock' = lock
                                              \/ lock' = [lock EXCEPT ![Lane[i]] = {p}]
                                              \/ lock' = [lock EXCEPT ![Lane[i]] = {"dead"}]
      BY DEF Take, Stall
    <3>2. Reap(p) => flusher[p].item \in Items
      BY <1>3 DEF Reap
    <3>3. Reap(p) => LET i == flusher[p].item IN
                     \/ lock' = lock \/ lock' = [lock EXCEPT ![Lane[i]] = {p}]
                     \/ lock' = [lock EXCEPT ![Lane[i]] = lock[Lane[i]] \cup {p}]
      BY DEF Reap
    <3> QED BY <1>6, <3>1, <3>2, <3>3
  <2>2. Lane[i] \in Lanes /\ marker' = marker
    BY <1>6 DEF Lanes, Take, Reap, Stall
  <2>3. lock[Lane[i]] \cup {p} \in SUBSET (Processes \cup {"dead"})
    BY <1>0, <2>2 DEF LaneOK
  <2> QED BY <1>1, <2>1, <2>2, <2>3, Nothing
<1>7. ASSUME NEW p \in Processes, Mark(p) PROVE LaneOK'
  <2> DEFINE m == [file |-> flusher[p].item, state |-> FailedState(p)]
  <2>1. flusher[p].pc = "mark"
    BY <1>7 DEF Mark
  <2>2. flusher[p].item \in Items /\ flusher[p].answer # "accepted"
    BY <1>3, <2>1 DEF RemovesConfirmed
  <2>3. m \in Marker
    BY <2>2, FailedStates DEF Marker
  <2>4. /\ lock' = lock \/ \E r : Leaves(p, r)
        /\ marker' = [marker EXCEPT ![Lane[flusher[p].item]] = m]
    BY <1>7 DEF Mark, Stops
  <2> HIDE DEF m
  <2> QED BY <1>4, <2>1, <2>3, <2>4
<1>8. ASSUME NEW p \in Processes, Crash(p) PROVE LaneOK'
  <2>1. marker' = marker
    BY <1>8 DEF Crash
  <2>2. CASE lock' = [l \in Lanes |-> IF p \in lock[l] THEN (lock[l] \ {p}) \cup {"dead"}
                                      ELSE lock[l]]
    BY <1>0, <2>1, <2>2 DEF LaneOK
  <2>3. CASE \E i \in Items : lock' = [lock EXCEPT ![Lane[i]] = {"dead"}]
    BY <1>0, <2>1, <2>3 DEF LaneOK, Lanes
  <2> QED BY <1>8, <2>2, <2>3 DEF Crash
<1>9. ASSUME NEW p \in Processes, Step(p), ~Gone(p), ~Gap(p), ~Vanished(p), ~Hold(p),
             ~Clean(p), ~Settle(p), ~Take(p), ~Reap(p), ~Mark(p)
      PROVE  LaneOK'
  BY <1>2, <1>9 DEF Step, End, Read, Send, Answer, Accept, Unpause, Remove, Fail
<1>10. ASSUME NEW p \in Processes, \/ TimeIsUp(p) \/ Reconcile(p)
                                   \/ \E k \in Kinds : Flush(p, k)
       PROVE  LaneOK'
  BY <1>2, <1>10 DEF TimeIsUp, Reconcile, Flush, Begin
<1>11. CASE \/ \E i \in Items : Queue(i) \/ Due(i) \/ Repair(i)
            \/ Revoke \/ NewCredential \/ UNCHANGED vars
  BY <1>2, <1>11 DEF Queue, Due, Repair, Revoke, NewCredential, vars
<1> QED BY <1>5, <1>6, <1>7, <1>8, <1>9, <1>10, <1>11 DEF Next

\* The sets of envelopes: what was queued is kept, quarantined or accepted.
LEMMA FilesStep ==
  ASSUME TypeOK, RemovesConfirmed, NothingLost, [Next]_vars
  PROVE  FilesOK' /\ NothingLost'
<1> USE DEF disk, remote, history
<1>0. FilesOK
  BY DEF TypeOK, FilesOK
<1>1. ASSUME UNCHANGED <<queued, files, quarantine, server>> PROVE FilesOK' /\ NothingLost'
  BY <1>0, <1>1 DEF FilesOK, NothingLost
<1>2. ASSUME NEW i \in Items, Queue(i) PROVE FilesOK' /\ NothingLost'
  BY <1>0, <1>2 DEF Queue, FilesOK, NothingLost
<1>3. ASSUME NEW p \in Processes, Answer(p) PROVE FilesOK' /\ NothingLost'
  <2>1. flusher[p].item \in Items
    BY <1>3 DEF Answer, TypeOK
  <2>2. /\ UNCHANGED <<queued, files, quarantine>>
        /\ server' \in {server, server \cup {flusher[p].item}}
    BY <1>3 DEF Answer
  <2> QED BY <1>0, <2>1, <2>2 DEF FilesOK, NothingLost
<1>4. ASSUME NEW p \in Processes, Remove(p) PROVE FilesOK' /\ NothingLost'
  <2>1. flusher[p].item \in server
    BY <1>4 DEF Remove, RemovesConfirmed
  <2> QED BY <1>0, <1>4, <2>1 DEF Remove, FilesOK, NothingLost
<1>5. ASSUME NEW p \in Processes, Settle(p) PROVE FilesOK' /\ NothingLost'
  <2>1. PICK moved \in SUBSET files : files' = files \ moved /\ quarantine' = quarantine \cup moved
    BY <1>5 DEF Settle
  <2>2. UNCHANGED <<queued, server>>
    BY <1>5 DEF Settle
  <2> QED BY <1>0, <2>1, <2>2 DEF FilesOK, NothingLost
<1>6. ASSUME NEW p \in Processes, Step(p), ~Answer(p), ~Remove(p), ~Settle(p)
      PROVE  FilesOK' /\ NothingLost'
  BY <1>1, <1>6 DEF Step, End, Take, Reap, Gone, Read, Gap, Vanished, Hold, Send, Accept,
                    Unpause, Clean, Fail, Mark
<1>7. ASSUME NEW p \in Processes, \/ TimeIsUp(p) \/ Crash(p) \/ Stall(p) \/ Reconcile(p)
                                  \/ \E k \in Kinds : Flush(p, k)
      PROVE  FilesOK' /\ NothingLost'
  BY <1>1, <1>7 DEF TimeIsUp, Crash, Stall, Reconcile, Flush, Begin
<1>8. CASE \/ \E i \in Items : Due(i) \/ Repair(i)
           \/ Revoke \/ NewCredential \/ UNCHANGED vars
  BY <1>1, <1>8 DEF Due, Repair, Revoke, NewCredential, vars
<1> QED BY <1>2, <1>3, <1>4, <1>5, <1>6, <1>7, <1>8 DEF Next

\* Who changes credentials, the server and the counters.
LEMMA ServerStep == TypeOK /\ [Next]_vars => ServerOK'
<1> SUFFICES ASSUME TypeOK, [Next]_vars PROVE ServerOK'
  OBVIOUS
<1> USE DEF disk, remote, history
<1>0. ServerOK
  BY DEF TypeOK, ServerOK
<1>1. ASSUME UNCHANGED <<authFile, cred, refused, broken, faults, crashes>>,
             overlap' \in {overlap, "yes"}, shared' \in {shared, "yes"}
      PROVE  ServerOK'
  BY <1>0, <1>1 DEF ServerOK
<1>2. ASSUME NEW p \in Processes, Settle(p) PROVE ServerOK'
  <2>1. flusher[p].cred \in Creds \cup {None}
    BY DEF TypeOK, Flusher
  <2> QED BY <1>0, <1>2, <2>1 DEF Settle, ServerOK
<1>3. ASSUME NEW p \in Processes, Answer(p) \/ Unpause(p) \/ Crash(p) \/ Stall(p)
      PROVE  ServerOK'
  BY <1>0, <1>3 DEF Answer, Unpause, Crash, Stall, ServerOK
<1>4. CASE NewCredential
  <2>1. cred < MaxCreds /\ cred' = cred + 1 /\ cred \in 1..MaxCreds /\ MaxCreds \in Nat
    BY <1>0, <1>4, BoundsAssumption DEF NewCredential, ServerOK, Creds
  <2>2. cred' \in Creds
    BY <2>1 DEF Creds
  <2> QED BY <1>0, <1>4, <2>2 DEF NewCredential, ServerOK
<1>5. CASE Revoke
  BY <1>0, <1>5 DEF Revoke, ServerOK
<1>6. ASSUME NEW i \in Items, Repair(i) PROVE ServerOK'
  BY <1>0, <1>6 DEF Repair, ServerOK
<1>7. ASSUME NEW p \in Processes, Step(p), ~Answer(p), ~Unpause(p), ~Settle(p)
      PROVE  ServerOK'
  BY <1>1, <1>7 DEF Step, End, Take, Reap, Gone, Read, Gap, Vanished, Hold, Send, Accept,
                    Remove, Clean, Fail, Mark
<1>8. ASSUME NEW p \in Processes, \/ TimeIsUp(p) \/ Reconcile(p)
                                  \/ \E k \in Kinds : Flush(p, k)
      PROVE  ServerOK'
  BY <1>1, <1>8 DEF TimeIsUp, Reconcile, Flush, Begin
<1>9. CASE (\E i \in Items : Queue(i) \/ Due(i)) \/ UNCHANGED vars
  BY <1>1, <1>9 DEF Queue, Due, vars
<1> QED BY <1>2, <1>3, <1>4, <1>5, <1>6, <1>7, <1>8, <1>9 DEF Next

\* The outbox starts well typed and with nothing lost,
LEMMA InitKept == Init => TypeOK /\ RemovesConfirmed /\ NothingLost
<1> SUFFICES ASSUME Init PROVE TypeOK /\ RemovesConfirmed /\ NothingLost
  OBVIOUS
<1> USE DEF Init
<1>1. NothingLost
  BY DEF NothingLost
<1>2. RemovesConfirmed
  BY DEF RemovesConfirmed, Idle
<1>3. \A p \in Processes : RowOK(flusher[p]) /\ flusher[p] \in Flusher
  BY IdleOK DEF RowOK
<1>4. NoSidecar \in Sidecar /\ NoMarker \in Marker
  BY Nothing
<1>5. 1 \in Creds
  BY BoundsAssumption DEF Creds
<1>6. TypeOK
  BY <1>3, <1>4, <1>5, BrokenAssumption DEF TypeOK, RowOK
<1> QED BY <1>1, <1>2, <1>6

\* and every step keeps it so.
LEMMA NextKept ==
  ASSUME TypeOK, RemovesConfirmed, NothingLost, [Next]_vars
  PROVE  TypeOK' /\ RemovesConfirmed' /\ NothingLost'
<1>1. FlusherOK' /\ RemovesConfirmed' /\ SidecarOK' /\ LaneOK' /\ ServerOK'
  BY FlusherStep, SidecarStep, LaneStep, ServerStep
<1>2. FilesOK' /\ NothingLost'
  BY FilesStep
<1>3. TypeOK'
  BY <1>1, <1>2 DEF TypeOK, FlusherOK, SidecarOK, LaneOK, FilesOK, ServerOK
<1> QED BY <1>1, <1>2, <1>3

\* Every reachable state of the outbox is well typed, and no envelope is lost:
\* it leaves its queue only for the quarantine or after the server accepted it,
\* whatever answers are lost and whichever processes are killed.
THEOREM EnvelopesKept == Spec => [](TypeOK /\ NothingLost)
<1> DEFINE Inv == TypeOK /\ RemovesConfirmed /\ NothingLost
<1>1. Init => Inv
  BY InitKept
<1>2. Inv /\ [Next]_vars => Inv'
  BY NextKept
<1>3. Inv => TypeOK /\ NothingLost
  OBVIOUS
<1> QED BY <1>1, <1>2, <1>3, PTL DEF Spec

\* The files, the flushers and the server keep their shapes through every
\* crash, quarantine and reset (flushOutbox and the files it writes).
THEOREM OutboxTyped == Spec => []TypeOK
BY EnvelopesKept, PTL

-----------------------------------------------------------------------------
(* What the steps do, as far as the order of a session is concerned *)

\* What a step of Next does, as far as the order of a session is concerned.
Others(p) == \A q \in Processes \ {p} : flusher'[q] = flusher[q]
\* The row of p moves on to pc within the same list.
Row(p, pc, item, todo, blocked) ==
  /\ p \in Processes /\ Others(p)
  /\ flusher'[p].pc = pc /\ flusher'[p].item = item
  /\ flusher'[p].todo = todo /\ flusher'[p].blocked = blocked
  /\ flusher'[p].listed = flusher[p].listed /\ flusher'[p].mode = flusher[p].mode
RowSame(p, pc) == Row(p, pc, flusher[p].item, flusher[p].todo, flusher[p].blocked)
RowIdle(p) ==
  /\ p \in Processes /\ Others(p)
  /\ flusher'[p].pc = "idle" /\ flusher'[p].todo = {} /\ flusher'[p].listed = {}
SetsLock(l, h) == \A k \in Lanes : lock'[k] = IF k = l THEN h ELSE lock[k]
SameStates == \A i \in Items : sidecar'[i].state = sidecar[i].state
OtherStates(i) == \A j \in Items \ {i} : sidecar'[j].state = sidecar[j].state
LaneOf(p) == Lane[flusher[p].item]
Frees(p) == SetsLock(LaneOf(p), {})
Stopping(p) ==
  \/ LaneOf(p) \in flusher[p].blocked
  \/ marker[LaneOf(p)].file \notin {None, flusher[p].item}
Sets == <<queued, files, quarantine, server, crashes, overlap>>

EnvEffect == UNCHANGED <<Sets, marker, lock, flusher>> /\ SameStates
QueueEffect(i) ==
  /\ i \in Items \ queued
  /\ \A j \in Items : j < i /\ Lane[j] = Lane[i] => j \in queued
  /\ queued' = queued \cup {i} /\ files' = files \cup {i}
  /\ UNCHANGED <<quarantine, server, crashes, overlap, marker, lock, flusher>>
  /\ SameStates
BeginEffect(p) ==
  /\ p \in Processes /\ Others(p)
  /\ flusher[p].pc = "idle"
  /\ \E list \in SUBSET files, kind \in Kinds :
       /\ flusher'[p].listed = list /\ flusher'[p].todo = list
       /\ \A i \in list : Kind[i] = kind
       /\ flusher'[p].mode = "flush" => \A i \in files : Kind[i] = kind => i \in list
  /\ flusher'[p].pc = "next"
  /\ overlap' = IF \E q \in Processes : flusher[q].pc # "idle" THEN "yes" ELSE overlap
  /\ UNCHANGED <<queued, files, quarantine, server, crashes, marker, lock>>
  /\ SameStates
RestEffect(p) ==
  /\ flusher[p].pc = "next" /\ RowIdle(p)
  /\ UNCHANGED <<Sets, marker, lock>> /\ SameStates
SkipEffect(p, i) ==
  /\ i \in Items /\ First(p, i) /\ flusher[p].pc = "next" /\ Held(Lane[i])
  /\ Row(p, "next", flusher[p].item, flusher[p].todo \ {i}, flusher[p].blocked)
  /\ UNCHANGED <<Sets, marker, lock>> /\ SameStates
TakeEffect(p, i) ==
  /\ i \in Items /\ First(p, i) /\ flusher[p].pc = "next" /\ lock[Lane[i]] = {}
  /\ Row(p, "check", i, flusher[p].todo \ {i}, flusher[p].blocked)
  /\ SetsLock(Lane[i], {p})
  /\ UNCHANGED <<Sets, marker>> /\ SameStates
LookEffect(p, i) ==
  /\ i \in Items /\ First(p, i) /\ flusher[p].pc = "next" /\ lock[Lane[i]] \in SUBSET {"dead"}
  /\ Row(p, "reap", i, flusher[p].todo \ {i}, flusher[p].blocked)
  /\ SetsLock(Lane[i], {"dead"})
  /\ crashes' = crashes + 1 \/ (lock[Lane[i]] = {"dead"} /\ crashes' = crashes)
  /\ UNCHANGED <<queued, files, quarantine, server, overlap, marker>> /\ SameStates
ReapEffect(p) ==
  /\ flusher[p].pc = "reap"
  /\ \/ RowSame(p, "next") /\ UNCHANGED lock
     \/ RowSame(p, "check") /\ ~Held(LaneOf(p)) /\ SetsLock(LaneOf(p), {p})
  /\ UNCHANGED <<Sets, marker>> /\ SameStates
ReadEffect(p) ==
  /\ flusher[p].pc = "check" /\ RowSame(p, "test")
  /\ flusher[p].item \in files
  /\ flusher'[p].marker = marker[LaneOf(p)]
  /\ flusher'[p].state = sidecar[flusher[p].item]
  /\ UNCHANGED <<Sets, marker, lock>> /\ SameStates
LeaveEffect(p) ==
  /\ flusher[p].pc \in {"check", "test"}
  /\ \E b \in SUBSET Lanes :
       /\ b \in {flusher[p].blocked, flusher[p].blocked \cup {LaneOf(p)}}
       /\ Row(p, "next", flusher[p].item, flusher[p].todo, b)
       /\ \/ flusher[p].item \notin files \/ LaneOf(p) \in b
          \/ Predecessor(p, flusher[p].item) \/ Stopping(p)
  /\ Frees(p)
  /\ UNCHANGED <<Sets, marker>>
  /\ OtherStates(flusher[p].item)
  /\ \/ SameStates
     \/ sidecar[flusher[p].item].state # "blocked_reconciliation"
SendEffect(p) ==
  LET i == flusher[p].item IN
  /\ flusher[p].pc = "test" /\ RowSame(p, "sent")
  /\ i \in files /\ ~Predecessor(p, i) /\ ~Stopping(p)
  /\ UNCHANGED <<Sets, marker, lock>>
  /\ OtherStates(i)
AdvanceEffect(p) ==
  /\ flusher[p].pc \in {"sent", "answered", "unpause"}
  /\ \E pc \in {"answered", "unpause", "remove", "mark"} : RowSame(p, pc)
  /\ server' \in {server, server \cup {flusher[p].item}}
  /\ UNCHANGED <<queued, files, quarantine, crashes, overlap, marker, lock>>
  /\ OtherStates(flusher[p].item)
  /\ flusher'[p].pc = "mark" => sidecar'[flusher[p].item].state = FailedState(p)'
RemoveEffect(p) ==
  /\ flusher[p].pc = "remove" /\ RowSame(p, "clean")
  /\ files' = files \ {flusher[p].item}
  /\ UNCHANGED <<queued, quarantine, server, crashes, overlap, marker, lock>>
  /\ SameStates
CleanEffect(p) ==
  /\ flusher[p].pc = "clean" /\ RowSame(p, "next")
  /\ Frees(p)
  /\ \A l \in Lanes : marker'[l] = IF l = LaneOf(p) THEN NoMarker ELSE marker[l]
  /\ UNCHANGED Sets
  /\ OtherStates(flusher[p].item)
Done(p) == Row(p, "next", flusher[p].item, flusher[p].todo, flusher[p].blocked \cup {LaneOf(p)})
MarkEffect(p) ==
  LET i == flusher[p].item IN
  /\ flusher[p].pc = "mark"
  /\ \/ RowSame(p, "settle") /\ UNCHANGED lock
     \/ Done(p) /\ Frees(p)
  /\ \A l \in Lanes :
       marker'[l] = IF l = LaneOf(p) THEN [file |-> i, state |-> FailedState(p)] ELSE marker[l]
  /\ UNCHANGED Sets /\ SameStates
SettleEffect(p) ==
  /\ flusher[p].pc = "settle"
  /\ RowIdle(p) \/ Done(p)
  /\ Frees(p)
  /\ \E moved \in SUBSET {flusher[p].item} : /\ files' = files \ moved
                                            /\ quarantine' = quarantine \cup moved
  /\ UNCHANGED <<queued, server, crashes, overlap, marker>> /\ SameStates
CrashEffect(p) ==
  /\ flusher[p].pc # "idle" /\ RowIdle(p)
  /\ crashes' = crashes + 1
  /\ \A q \in Processes \ {p}, l \in Lanes : lock[l] = {q} => lock'[l] = {q}
  /\ UNCHANGED <<queued, files, quarantine, server, overlap, marker>>
  /\ SameStates

\* Only the row of the process that steps changes.
LEMMA BecomesRow ==
  ASSUME TypeOK, NEW p \in Processes, NEW r, Becomes(p, r)
  PROVE  flusher'[p] = r /\ Others(p)
BY DEF TypeOK, Becomes, Others

\* A process whose row is set keeps the fields that are not assigned.
LEMMA RowPc ==
  ASSUME TypeOK, NEW p \in Processes, NEW pc, Becomes(p, [flusher[p] EXCEPT !.pc = pc])
  PROVE  /\ RowSame(p, pc)
         /\ flusher'[p].answer = flusher[p].answer /\ flusher'[p].via = flusher[p].via
<1> DEFINE f == flusher[p]
           r == [f EXCEPT !.pc = pc]
<1>1. f \in Flusher
  BY DEF TypeOK
<1>2. flusher'[p] = r /\ Others(p)
  BY BecomesRow
<1> HIDE DEF f
<1>3. /\ r.pc = pc /\ r.item = f.item /\ r.todo = f.todo /\ r.blocked = f.blocked
      /\ r.listed = f.listed /\ r.mode = f.mode /\ r.answer = f.answer /\ r.via = f.via
  BY <1>1 DEF Flusher
<1> HIDE DEF r
<1> QED BY <1>2, <1>3 DEF RowSame, Row, f

\* The same for an answer,
LEMMA RowAnswer ==
  ASSUME TypeOK, NEW p \in Processes, NEW a, Answered(p, a)
  PROVE  RowSame(p, "answered")
<1> DEFINE f == flusher[p]
           r == [f EXCEPT !.pc = "answered", !.answer = a]
<1>1. f \in Flusher
  BY DEF TypeOK
<1>2. flusher'[p] = r /\ Others(p)
  BY BecomesRow DEF Answered
<1> HIDE DEF f
<1>3. /\ r.pc = "answered" /\ r.item = f.item /\ r.todo = f.todo /\ r.blocked = f.blocked
      /\ r.listed = f.listed /\ r.mode = f.mode
  BY <1>1 DEF Flusher
<1> HIDE DEF r
<1> QED BY <1>2, <1>3 DEF RowSame, Row, f

\* for a request,
LEMMA RowSent ==
  ASSUME TypeOK, NEW p \in Processes, NEW v,
         Becomes(p, [flusher[p] EXCEPT !.pc = "sent", !.sends = "some", !.via = v,
                                       !.marker = NoMarker, !.state = NoSidecar])
  PROVE  RowSame(p, "sent") /\ flusher'[p].via = v
<1> DEFINE f == flusher[p]
           r == [f EXCEPT !.pc = "sent", !.sends = "some", !.via = v,
                          !.marker = NoMarker, !.state = NoSidecar]
<1>1. f \in Flusher
  BY DEF TypeOK
<1>2. flusher'[p] = r /\ Others(p)
  BY BecomesRow
<1> HIDE DEF f
<1>3. /\ r.pc = "sent" /\ r.item = f.item /\ r.todo = f.todo /\ r.blocked = f.blocked
      /\ r.listed = f.listed /\ r.mode = f.mode /\ r.via = v
  BY <1>1 DEF Flusher
<1> HIDE DEF r
<1> QED BY <1>2, <1>3 DEF RowSame, Row, f

\* for an item that is read
LEMMA RowRead ==
  ASSUME TypeOK, NEW p \in Processes, NEW m, NEW s,
         Becomes(p, [flusher[p] EXCEPT !.pc = "test", !.marker = m, !.state = s])
  PROVE  RowSame(p, "test") /\ flusher'[p].marker = m /\ flusher'[p].state = s
<1> DEFINE f == flusher[p]
           r == [f EXCEPT !.pc = "test", !.marker = m, !.state = s]
<1>1. f \in Flusher
  BY DEF TypeOK
<1>2. flusher'[p] = r /\ Others(p)
  BY BecomesRow
<1> HIDE DEF f
<1>3. /\ r.pc = "test" /\ r.item = f.item /\ r.todo = f.todo /\ r.blocked = f.blocked
      /\ r.listed = f.listed /\ r.mode = f.mode /\ r.marker = m /\ r.state = s
  BY <1>1 DEF Flusher
<1> HIDE DEF r
<1> QED BY <1>2, <1>3 DEF RowSame, Row, f

\* or left,
LEMMA RowBetween ==
  ASSUME TypeOK, NEW p \in Processes
  PROVE  LET r == Between(p) IN
         /\ r \in Flusher
         /\ r.pc = "next" /\ r.item = flusher[p].item /\ r.todo = flusher[p].todo
         /\ r.blocked = flusher[p].blocked
         /\ r.listed = flusher[p].listed /\ r.mode = flusher[p].mode
<1> DEFINE f == flusher[p]
           r == [f EXCEPT !.pc = "next", !.marker = NoMarker, !.state = NoSidecar,
                          !.via = "flush", !.answer = "accepted"]
<1>1. f \in Flusher
  BY DEF TypeOK
<1> HIDE DEF f
<1>2. /\ r.pc = "next" /\ r.item = f.item /\ r.todo = f.todo /\ r.blocked = f.blocked
      /\ r.listed = f.listed /\ r.mode = f.mode
  BY <1>1 DEF Flusher
<1>3. Between(p) = r
  BY DEF Between, f
<1> HIDE DEF r
<1> QED BY <1>1, <1>2, <1>3, UpdateBetween DEF f

\* for a lane that is stopped,
LEMMA RowBlocked ==
  ASSUME TypeOK, NEW p \in Processes,
         Becomes(p, [Between(p) EXCEPT !.blocked = Between(p).blocked \cup {LaneOf(p)}])
  PROVE  Done(p)
<1> DEFINE f == Between(p)
           l == LaneOf(p)
           r == [f EXCEPT !.blocked = f.blocked \cup {l}]
<1>1. /\ f \in Flusher
      /\ f.pc = "next" /\ f.item = flusher[p].item /\ f.todo = flusher[p].todo
      /\ f.blocked = flusher[p].blocked
      /\ f.listed = flusher[p].listed /\ f.mode = flusher[p].mode
  BY RowBetween
<1>2. flusher'[p] = r /\ Others(p)
  BY BecomesRow
<1> HIDE DEF f, l
<1>3. /\ r.pc = f.pc /\ r.item = f.item /\ r.todo = f.todo /\ r.blocked = f.blocked \cup {l}
      /\ r.listed = f.listed /\ r.mode = f.mode
  BY <1>1 DEF Flusher
<1> HIDE DEF r
<1> QED BY <1>1, <1>2, <1>3 DEF Done, Row, l

\* for an item that is passed over,
LEMMA RowTodo ==
  ASSUME TypeOK, NEW p \in Processes, NEW i,
         Becomes(p, [flusher[p] EXCEPT !.todo = flusher[p].todo \ {i}])
  PROVE  Row(p, flusher[p].pc, flusher[p].item, flusher[p].todo \ {i}, flusher[p].blocked)
<1> DEFINE f == flusher[p]
           r == [f EXCEPT !.todo = f.todo \ {i}]
<1>1. f \in Flusher
  BY DEF TypeOK
<1>2. flusher'[p] = r /\ Others(p)
  BY BecomesRow
<1> HIDE DEF f
<1>3. /\ r.pc = f.pc /\ r.item = f.item /\ r.todo = f.todo \ {i} /\ r.blocked = f.blocked
      /\ r.listed = f.listed /\ r.mode = f.mode
  BY <1>1 DEF Flusher
<1> HIDE DEF r
<1> QED BY <1>2, <1>3 DEF Row, f

\* for an item that is taken,
LEMMA RowTaken ==
  ASSUME TypeOK, NEW p \in Processes, NEW i, NEW pc, Claims(p, i, pc)
  PROVE  Row(p, pc, i, flusher[p].todo \ {i}, flusher[p].blocked)
<1> DEFINE f == flusher[p]
           r == [f EXCEPT !.todo = f.todo \ {i}, !.item = i, !.pc = pc]
<1>1. f \in Flusher
  BY DEF TypeOK
<1>2. flusher'[p] = r /\ Others(p)
  BY BecomesRow DEF Claims
<1> HIDE DEF f
<1>3. /\ r.pc = pc /\ r.item = i /\ r.todo = f.todo \ {i} /\ r.blocked = f.blocked
      /\ r.listed = f.listed /\ r.mode = f.mode
  BY <1>1 DEF Flusher
<1> HIDE DEF r
<1> QED BY <1>2, <1>3 DEF Row, f

\* and for a flush that ends.
LEMMA RowRests ==
  ASSUME TypeOK, NEW p \in Processes, Becomes(p, Idle)
  PROVE  RowIdle(p)
BY BecomesRow DEF RowIdle, Idle

\* A lock that is freed, and the states of the other sidecars.
LEMMA Freed ==
  ASSUME TypeOK, Locked, NEW p \in Processes, Working(p), NEW r, Leaves(p, r)
  PROVE  Becomes(p, r) /\ Frees(p)
<1>1. lock[LaneOf(p)] = {p}
  BY DEF Locked, LaneOf
<1>2. Becomes(p, r) /\ lock' = [lock EXCEPT ![LaneOf(p)] = lock[LaneOf(p)] \ {p}]
  BY <1>1 DEF Leaves, LaneOf
<1> QED BY <1>1, <1>2 DEF Frees, SetsLock, TypeOK
\* A sidecar that is written, and the others.
LEMMA SidecarSet ==
  ASSUME TypeOK, NEW i \in Items, NEW s, sidecar' = [sidecar EXCEPT ![i] = s]
  PROVE  OtherStates(i) /\ sidecar'[i] = s
BY DEF TypeOK, OtherStates
\* A process that works has an item in a lane.
LEMMA WorkingItem ==
  ASSUME TypeOK, NEW p \in Processes, flusher[p].pc \notin {"idle", "next"}
  PROVE  flusher[p].item \in Items /\ LaneOf(p) \in Lanes
BY DEF TypeOK, LaneOf, Lanes

Effect ==
  \/ EnvEffect
  \/ \E i \in Items : QueueEffect(i)
  \/ \E p \in Processes :
       \/ BeginEffect(p) \/ RestEffect(p) \/ ReapEffect(p) \/ ReadEffect(p)
       \/ LeaveEffect(p) \/ SendEffect(p) \/ AdvanceEffect(p) \/ RemoveEffect(p)
       \/ CleanEffect(p) \/ MarkEffect(p) \/ SettleEffect(p) \/ CrashEffect(p)
       \/ \E i \in Items : SkipEffect(p, i) \/ TakeEffect(p, i) \/ LookEffect(p, i)

\* What was read of the lane still says whether it is stopped.
LEMMA StillStopped ==
  ASSUME ReadCurrent, NEW p \in Processes, flusher[p].pc = "test"
  PROVE  /\ flusher[p].item \in files
         /\ LaneStopped(p, flusher[p].item) <=> Stopping(p)
         /\ flusher[p].state.state = sidecar[flusher[p].item].state
BY DEF ReadCurrent, LaneStopped, Stopping, LaneOf

\* Gone, Gap and Hold release the lane, for a reason.
LEMMA LeaveEffects ==
  ASSUME TypeOK, Locked, ReadCurrent, NEW p \in Processes, Gone(p) \/ Gap(p) \/ Hold(p)
  PROVE  LeaveEffect(p)
<1> USE DEF disk, remote, history
<1> DEFINE f == flusher[p]
           b == IF Hold(p) THEN f.blocked \cup {LaneOf(p)} ELSE f.blocked
<1>1. f.pc \in {"check", "test"} /\ UNCHANGED <<Sets, marker>>
  BY DEF Gone, Gap, Hold, Free, Sets
<1>2. f.item \in Items /\ LaneOf(p) \in Lanes /\ f.blocked \in SUBSET Lanes /\ Working(p)
  BY <1>1, WorkingItem DEF TypeOK, Flusher, Working
<1>3. Row(p, "next", f.item, f.todo, b) /\ Frees(p)
  <2>1. CASE Hold(p)
    <3>1. /\ Becomes(p, [Between(p) EXCEPT !.blocked = Between(p).blocked \cup {LaneOf(p)}])
          /\ Frees(p)
      BY <1>2, <2>1, Freed DEF Hold, Stops, LaneOf
    <3> QED BY <2>1, <3>1, RowBlocked DEF Done
  <2>2. CASE ~Hold(p)
    <3>1. Becomes(p, Between(p)) /\ Frees(p)
      BY <1>2, <2>2, Freed DEF Gone, Gap, OnToNext
    <3>2. flusher'[p] = Between(p) /\ Others(p)
      BY <3>1, BecomesRow
    <3> QED BY <2>2, <3>1, <3>2, RowBetween DEF Row
  <2> QED BY <2>1, <2>2
<1>4. b \in SUBSET Lanes /\ b \in {f.blocked, f.blocked \cup {LaneOf(p)}}
  BY <1>2
<1>5. \/ f.item \notin files \/ LaneOf(p) \in b
      \/ Predecessor(p, f.item) \/ Stopping(p)
  <2>1. Gap(p) => Predecessor(p, f.item) \/ Stopping(p)
    BY StillStopped DEF Gap
  <2> QED BY <2>1 DEF Gone
<1>6. /\ OtherStates(f.item)
      /\ SameStates \/ sidecar[f.item].state # "blocked_reconciliation"
  <2>1. CASE sidecar' = sidecar
    BY <2>1 DEF OtherStates, SameStates
  <2>2. CASE sidecar' # sidecar
    <3>1. /\ sidecar' = [sidecar EXCEPT ![f.item] = [f.state EXCEPT !.state = "blocked_gap"]]
          /\ f.state.state \notin Stopped /\ f.pc = "test"
      BY <2>2 DEF Gone, Gap, Hold
    <3>2. f.state.state = sidecar[f.item].state
      BY <3>1, StillStopped
    <3> QED BY <1>2, <3>1, <3>2, SidecarSet DEF Stopped
  <2> QED BY <2>1, <2>2
<1> HIDE DEF f, b
<1>7. /\ flusher[p].pc \in {"check", "test"} /\ b \in SUBSET Lanes
      /\ b \in {flusher[p].blocked, flusher[p].blocked \cup {LaneOf(p)}}
      /\ Row(p, "next", flusher[p].item, flusher[p].todo, b)
      /\ \/ flusher[p].item \notin files \/ LaneOf(p) \in b
         \/ Predecessor(p, flusher[p].item) \/ Stopping(p)
  BY <1>1, <1>3, <1>4, <1>5 DEF f
<1> QED BY <1>1, <1>3, <1>6, <1>7 DEF LeaveEffect, f

\* Read copies what is there.
LEMMA ReadEffects ==
  ASSUME TypeOK, NEW p \in Processes, Read(p)
  PROVE  ReadEffect(p)
<1> DEFINE m == marker[LaneOf(p)]
           s == sidecar[flusher[p].item]
<1>0. Becomes(p, [flusher[p] EXCEPT !.pc = "test", !.marker = m, !.state = s])
  BY DEF Read, LaneOf
<1> HIDE DEF m, s
<1>1. RowSame(p, "test") /\ flusher'[p].marker = m /\ flusher'[p].state = s
  BY <1>0, RowRead
<1> QED BY <1>1 DEF Read, ReadEffect, Sets, SameStates, disk, remote, history, m, s

\* Send found nothing in its way.
LEMMA SendEffects ==
  ASSUME TypeOK, ReadCurrent, NEW p \in Processes, Send(p)
  PROVE  SendEffect(p)
<1> USE DEF disk, remote, history
<1>1. flusher[p].item \in Items
  BY WorkingItem DEF Send, Free
<1>2. OtherStates(flusher[p].item)
  BY <1>1, SidecarSet DEF Send
<1>3. PICK v : Becomes(p, [flusher[p] EXCEPT !.pc = "sent", !.sends = "some", !.via = v,
                                             !.marker = NoMarker, !.state = NoSidecar])
  BY DEF Send
<1>4. RowSame(p, "sent")
  BY <1>3, RowSent
<1>5. ~Stopping(p)
  BY StillStopped DEF Send, Free
<1> QED BY <1>2, <1>4, <1>5 DEF Send, Free, SendEffect, Sets

\* Between the request and the unlink only the server and a sidecar change.
LEMMA AdvanceEffects ==
  ASSUME TypeOK, NEW p \in Processes, Answer(p) \/ Accept(p) \/ Unpause(p) \/ Fail(p)
  PROVE  AdvanceEffect(p)
<1> USE DEF disk, remote, history
<1>1. /\ flusher[p].pc \in {"sent", "answered", "unpause"}
      /\ UNCHANGED <<queued, files, quarantine, crashes, overlap, marker, lock>>
  BY DEF Answer, Accept, Unpause, Fail
<1>2. flusher[p].item \in Items
  BY <1>1, WorkingItem
<1>3. server' \in {server, server \cup {flusher[p].item}}
  BY DEF Answer, Accept, Unpause, Fail
<1>4. CASE Fail(p)
  <2>1. RowSame(p, "mark") /\ flusher'[p].answer = flusher[p].answer
        /\ flusher'[p].via = flusher[p].via
    BY <1>4, RowPc DEF Fail
  <2>2. OtherStates(flusher[p].item) /\ sidecar'[flusher[p].item].state = FailedState(p)
    <3> DEFINE s == [state |-> FailedState(p), cred |-> flusher[p].cred,
                     wait |-> IF FailedState(p) = "retry_wait" THEN "yes" ELSE "no"]
    <3>1. sidecar' = [sidecar EXCEPT ![flusher[p].item] = s] /\ s.state = FailedState(p)
      BY <1>4 DEF Fail
    <3> HIDE DEF s
    <3> QED BY <1>2, <3>1, SidecarSet
  <2>3. FailedState(p)' = FailedState(p)
    BY <2>1 DEF FailedState
  <2> QED BY <1>1, <1>3, <2>1, <2>2, <2>3 DEF AdvanceEffect
<1>5. CASE ~Fail(p)
  <2>1. OtherStates(flusher[p].item)
    BY <1>5 DEF Answer, Accept, Unpause, OtherStates
  <2>2. \/ \E pc \in {"remove", "unpause"} : Becomes(p, [flusher[p] EXCEPT !.pc = pc])
        \/ \E a \in Answers : Answered(p, a)
    BY <1>5 DEF Answer, Accept, Unpause, Answers, Stopped
  <2>3. \E pc \in {"answered", "unpause", "remove"} : RowSame(p, pc)
    BY <2>2, RowPc, RowAnswer
  <2>4. flusher'[p].pc # "mark"
    BY <2>3 DEF RowSame, Row
  <2> QED BY <1>1, <1>3, <2>1, <2>3, <2>4 DEF AdvanceEffect
<1> QED BY <1>4, <1>5

\* The envelope is unlinked.
LEMMA RemoveEffects ==
  ASSUME TypeOK, MaySend, NEW p \in Processes, Remove(p)
  PROVE  RemoveEffect(p)
<1>1. flusher[p].item \in files
  BY DEF Remove, MaySend, Sends, Sending
<1> QED BY <1>1, RowPc DEF Remove, RemoveEffect, SameStates, remote, history

\* The marker and the sidecar are removed and the lane released.
LEMMA CleanEffects ==
  ASSUME TypeOK, Locked, NEW p \in Processes, Clean(p)
  PROVE  CleanEffect(p)
<1> USE DEF disk, remote, history
<1>1. flusher[p].pc = "clean" /\ UNCHANGED Sets
  BY DEF Clean, Sets
<1>2. flusher[p].item \in Items /\ LaneOf(p) \in Lanes /\ Working(p)
  BY <1>1, WorkingItem DEF Working
<1>3. marker' = [marker EXCEPT ![LaneOf(p)] = NoMarker] /\ OnToNext(p)
  BY <1>2 DEF Clean, Locked, LaneOf
<1>4. Becomes(p, Between(p)) /\ Frees(p)
  BY <1>2, <1>3, Freed DEF OnToNext
<1>5. flusher'[p] = Between(p) /\ Others(p)
  BY <1>4, BecomesRow
<1>6. RowSame(p, "next")
  BY <1>5, RowBetween DEF RowSame, Row
<1>7. OtherStates(flusher[p].item)
  BY <1>2, SidecarSet DEF Clean
<1>8. \A l \in Lanes : marker'[l] = IF l = LaneOf(p) THEN NoMarker ELSE marker[l]
  BY <1>3 DEF TypeOK
<1> QED BY <1>1, <1>4, <1>6, <1>7, <1>8 DEF CleanEffect

\* A flush goes on with the lane stopped.
LEMMA StopsLane ==
  ASSUME TypeOK, Locked, NEW p \in Processes, Working(p), Stops(p)
  PROVE  Done(p) /\ Frees(p)
<1>1. /\ Becomes(p, [Between(p) EXCEPT !.blocked = Between(p).blocked \cup {LaneOf(p)}])
      /\ Frees(p)
  BY Freed DEF Stops, LaneOf
<1> QED BY <1>1, RowBlocked

\* A failure stops the lane,
LEMMA MarkEffects ==
  ASSUME TypeOK, Locked, NEW p \in Processes, Mark(p)
  PROVE  MarkEffect(p)
<1> USE DEF disk, remote, history
<1>1. flusher[p].pc = "mark" /\ UNCHANGED Sets /\ sidecar' = sidecar /\ Working(p)
  BY DEF Mark, Sets, Working
<1>2. \A l \in Lanes :
        marker'[l] = IF l = LaneOf(p) THEN [file |-> flusher[p].item, state |-> FailedState(p)]
                     ELSE marker[l]
  BY DEF Mark, TypeOK, LaneOf
<1>3. \/ RowSame(p, "settle") /\ UNCHANGED lock
      \/ Done(p) /\ Frees(p)
  BY <1>1, RowPc, StopsLane DEF Mark
<1>4. SameStates
  BY <1>1 DEF SameStates
<1> QED BY <1>1, <1>2, <1>3, <1>4 DEF MarkEffect

\* and may move the envelope to the quarantine.
LEMMA SettleEffects ==
  ASSUME TypeOK, Locked, NEW p \in Processes, Settle(p)
  PROVE  SettleEffect(p)
<1> USE DEF disk, remote, history
<1>1. /\ flusher[p].pc = "settle" /\ UNCHANGED <<queued, server, crashes, overlap, marker>>
      /\ sidecar' = sidecar /\ Working(p)
  BY DEF Settle, Working
<1>2. \E moved \in SUBSET {flusher[p].item} : files' = files \ moved /\ quarantine' = quarantine \cup moved
  BY DEF Settle
<1>3. (RowIdle(p) \/ Done(p)) /\ Frees(p)
  <2>1. Leaves(p, Idle) \/ Stops(p)
    BY DEF Settle
  <2>2. Leaves(p, Idle) => RowIdle(p) /\ Frees(p)
    BY <1>1, Freed, RowRests
  <2> QED BY <1>1, <2>1, <2>2, StopsLane
<1>4. SameStates
  BY <1>1 DEF SameStates
<1> QED BY <1>1, <1>2, <1>3, <1>4 DEF SettleEffect

\* A flush lists a whole queue, a reconciliation a part of one.
LEMMA BeginEffects ==
  ASSUME TypeOK, NEW p \in Processes, Reconcile(p) \/ \E k \in Kinds : Flush(p, k)
  PROVE  BeginEffect(p)
<1> USE DEF disk, remote, history
<1>1. PICK m \in {"flush", "reconcile"}, list \in SUBSET files, kind \in Kinds :
        /\ Begin(p, m, list)
        /\ \A i \in list : Kind[i] = kind
        /\ m = "flush" => \A i \in files : Kind[i] = kind => i \in list
  <2>1. CASE Reconcile(p)
    <3>1. PICK list \in SUBSET {i \in files : /\ Kind[i] = "event"
                                              /\ sidecar[i].state = "blocked_reconciliation"} :
            Begin(p, "reconcile", list)
      BY <2>1 DEF Reconcile
    <3>2. "event" \in Kinds /\ list \in SUBSET files /\ \A i \in list : Kind[i] = "event"
      BY DEF Kinds
    <3> QED BY <3>1, <3>2
  <2>2. ASSUME NEW k \in Kinds, Flush(p, k)
        PROVE  \E m \in {"flush", "reconcile"}, list \in SUBSET files, kind \in Kinds :
                 /\ Begin(p, m, list)
                 /\ \A i \in list : Kind[i] = kind
                 /\ m = "flush" => \A i \in files : Kind[i] = kind => i \in list
    <3> DEFINE list == {i \in files : Kind[i] = k}
    <3>1. Begin(p, "flush", list)
      BY <2>2 DEF Flush
    <3>2. /\ list \in SUBSET files /\ \A i \in list : Kind[i] = k
          /\ \A i \in files : Kind[i] = k => i \in list
      OBVIOUS
    <3> HIDE DEF list
    <3> QED BY <3>1, <3>2
  <2> QED BY <2>1, <2>2
<1> DEFINE r == [Idle EXCEPT !.pc = "next", !.mode = m, !.cred = cred, !.listed = list,
                             !.todo = list]
<1>2. /\ Becomes(p, r) /\ flusher[p].pc = "idle" /\ sidecar' = sidecar
      /\ overlap' = IF \E q \in Processes : flusher[q].pc # "idle" THEN "yes" ELSE overlap
      /\ UNCHANGED <<queued, files, quarantine, server, crashes, marker, lock>>
  BY <1>1 DEF Begin
<1>3. flusher'[p] = r /\ Others(p)
  BY <1>2, BecomesRow
<1>4. r.pc = "next" /\ r.listed = list /\ r.todo = list /\ r.mode = m
  BY DEF Idle
<1> HIDE DEF r
<1>5. SameStates
  BY <1>2 DEF SameStates
<1> QED BY <1>1, <1>2, <1>3, <1>4, <1>5 DEF BeginEffect

\* The first item of the list is taken or passed over, or its lock looks left.
LEMMA TakeEffects ==
  ASSUME TypeOK, NEW p \in Processes, Take(p) \/ Stall(p)
  PROVE  \E i \in Items : SkipEffect(p, i) \/ TakeEffect(p, i) \/ LookEffect(p, i)
<1> USE DEF disk, remote, history
<1>1. PICK i \in Items :
        /\ First(p, i)
        /\ \/ /\ Held(Lane[i]) /\ UNCHANGED Sets
              /\ Becomes(p, [flusher[p] EXCEPT !.todo = flusher[p].todo \ {i}])
              /\ UNCHANGED lock
           \/ /\ lock[Lane[i]] = {} /\ UNCHANGED Sets
              /\ Claims(p, i, "check")
              /\ lock' = [lock EXCEPT ![Lane[i]] = {p}]
           \/ /\ lock[Lane[i]] \in SUBSET {"dead"}
              /\ crashes' = crashes + 1 \/ (lock[Lane[i]] = {"dead"} /\ crashes' = crashes)
              /\ Claims(p, i, "reap")
              /\ lock' = [lock EXCEPT ![Lane[i]] = {"dead"}]
  <2>1. CASE Take(p)
    <3>1. lock \in [Lanes -> SUBSET (Processes \cup {"dead"})] /\ \A i \in Items : Lane[i] \in Lanes
      BY DEF TypeOK, Lanes
    <3>2. UNCHANGED Sets
      BY <2>1 DEF Take, Sets
    <3>3. \A l \in Lanes : lock[l] = {"dead"} /\ UNCHANGED lock
                          => lock' = [lock EXCEPT ![l] = {"dead"}]
      BY <3>1
    <3> QED BY <2>1, <3>1, <3>2, <3>3 DEF Take, Sets
  <2>2. CASE Stall(p)
    BY <2>2 DEF Stall
  <2> QED BY <2>1, <2>2
<1>2. /\ flusher[p].pc = "next" /\ SameStates
      /\ UNCHANGED <<queued, files, quarantine, server, overlap, marker>>
  BY DEF Take, Stall, SameStates
<1>3. Lane[i] \in Lanes
  BY DEF Lanes
<1>4. ASSUME NEW h, lock' = [lock EXCEPT ![Lane[i]] = h] PROVE SetsLock(Lane[i], h)
  BY <1>3, <1>4 DEF TypeOK, SetsLock
<1>5. CASE Becomes(p, [flusher[p] EXCEPT !.todo = flusher[p].todo \ {i}]) /\ Held(Lane[i])
           /\ UNCHANGED <<Sets, lock>>
  <2>1. Row(p, "next", flusher[p].item, flusher[p].todo \ {i}, flusher[p].blocked)
    BY <1>2, <1>5, RowTodo
  <2> QED BY <1>1, <1>2, <1>5, <2>1 DEF SkipEffect
<1>6. CASE /\ lock[Lane[i]] = {} /\ UNCHANGED Sets /\ Claims(p, i, "check")
           /\ lock' = [lock EXCEPT ![Lane[i]] = {p}]
  BY <1>1, <1>2, <1>4, <1>6, RowTaken DEF TakeEffect
<1>7. CASE /\ lock[Lane[i]] \in SUBSET {"dead"} /\ Claims(p, i, "reap")
           /\ crashes' = crashes + 1 \/ (lock[Lane[i]] = {"dead"} /\ crashes' = crashes)
           /\ lock' = [lock EXCEPT ![Lane[i]] = {"dead"}]
  BY <1>1, <1>2, <1>4, <1>7, RowTaken DEF LookEffect
<1> QED BY <1>1, <1>5, <1>6, <1>7

\* A lock that was left is taken, as long as no lane is shared, from nobody.
LEMMA ReapEffects ==
  ASSUME TypeOK, shared' = "no", NEW p \in Processes, Reap(p)
  PROVE  ReapEffect(p)
<1> USE DEF disk, remote, history
<1>1. flusher[p].pc = "reap" /\ UNCHANGED <<Sets, marker>> /\ SameStates
  BY DEF Reap, Sets, SameStates
<1>2. LaneOf(p) \in Lanes
  BY <1>1, WorkingItem
<1>3. CASE Becomes(p, [flusher[p] EXCEPT !.pc = "next"]) /\ UNCHANGED lock
  BY <1>1, <1>3, RowPc DEF ReapEffect
<1>4. CASE ~(Becomes(p, [flusher[p] EXCEPT !.pc = "next"]) /\ UNCHANGED lock)
  <2>1. ~Held(LaneOf(p))
    BY <1>4 DEF Reap, LaneOf
  <2>2. /\ Becomes(p, [flusher[p] EXCEPT !.pc = "check"])
        /\ lock' = [lock EXCEPT ![LaneOf(p)] = {p}]
    BY <1>4, <2>1 DEF Reap, LaneOf
  <2>3. SetsLock(LaneOf(p), {p})
    BY <1>2, <2>2 DEF TypeOK, SetsLock
  <2> QED BY <1>1, <2>1, <2>2, <2>3, RowPc DEF ReapEffect
<1> QED BY <1>3, <1>4

\* A flush ends.
LEMMA RestEffects ==
  ASSUME TypeOK, NEW p \in Processes, End(p) \/ TimeIsUp(p)
  PROVE  RestEffect(p)
BY RowRests DEF End, TimeIsUp, RestEffect, Sets, SameStates, disk, remote, history

\* A kill leaves the locks of the others.
LEMMA CrashEffects ==
  ASSUME TypeOK, NEW p \in Processes, Crash(p)
  PROVE  CrashEffect(p)
<1>1. \A q \in Processes \ {p}, l \in Lanes : lock[l] = {q} => lock'[l] = {q}
  <2>1. CASE lock' = [l \in Lanes |-> IF p \in lock[l] THEN (lock[l] \ {p}) \cup {"dead"}
                                      ELSE lock[l]]
    BY <2>1
  <2>2. CASE \E i \in Items : lock[Lane[i]] = {} /\ lock' = [lock EXCEPT ![Lane[i]] = {"dead"}]
    BY <2>2 DEF TypeOK
  <2> QED BY <2>1, <2>2 DEF Crash
<1> QED BY <1>1, RowRests DEF Crash, CrashEffect, SameStates, disk, remote, history

\* Time, credentials and repairs leave the order alone.
LEMMA EnvEffects ==
  ASSUME TypeOK, \/ \E i \in Items : Due(i) \/ Repair(i)
                 \/ Revoke \/ NewCredential \/ UNCHANGED vars
  PROVE  EnvEffect
<1> USE DEF disk, remote, history
<1>1. UNCHANGED <<Sets, marker, lock, flusher>>
  BY DEF Due, Repair, Revoke, NewCredential, vars, Sets
<1>2. CASE sidecar' = sidecar
  BY <1>1, <1>2 DEF EnvEffect, SameStates
<1>3. ASSUME NEW i \in Items, Due(i) PROVE EnvEffect
  <2>1. sidecar' = [sidecar EXCEPT ![i].wait = "no"]
    BY <1>3 DEF Due
  <2>2. \A j \in Items : sidecar'[j].state = sidecar[j].state
    BY <2>1 DEF TypeOK, Sidecar
  <2> QED BY <1>1, <2>2 DEF EnvEffect, SameStates
<1> QED BY <1>2, <1>3 DEF Repair, Revoke, NewCredential, vars

\* An item is queued after everything of its session.
LEMMA QueueEffects ==
  ASSUME TypeOK, NEW i \in Items, Queue(i)
  PROVE  QueueEffect(i)
BY DEF Queue, QueueEffect, SameStates, remote, history

\* Every step has one of these effects, as long as no lane is shared.
LEMMA Effects ==
  ASSUME TypeOK, Locked, ReadCurrent, MaySend, [Next]_vars, shared' = "no"
  PROVE  Effect
<1>1. ASSUME NEW p \in Processes, Step(p) PROVE Effect
  <2>1. CASE End(p)
    BY <2>1, RestEffects DEF Effect
  <2>2. CASE Take(p)
    BY <2>2, TakeEffects DEF Effect
  <2>3. CASE Reap(p)
    BY <2>3, ReapEffects DEF Effect
  <2>4. CASE Read(p)
    BY <2>4, ReadEffects DEF Effect
  <2>5. CASE Gone(p) \/ Gap(p) \/ Hold(p)
    BY <2>5, LeaveEffects DEF Effect
  <2>6. ~Vanished(p)
    BY StillStopped DEF Vanished, Free
  <2>7. CASE Send(p)
    BY <2>7, SendEffects DEF Effect
  <2>8. CASE Answer(p) \/ Accept(p) \/ Unpause(p) \/ Fail(p)
    BY <2>8, AdvanceEffects DEF Effect
  <2>9. CASE Remove(p)
    BY <2>9, RemoveEffects DEF Effect
  <2>10. CASE Clean(p)
    BY <2>10, CleanEffects DEF Effect
  <2>11. CASE Mark(p)
    BY <2>11, MarkEffects DEF Effect
  <2>12. CASE Settle(p)
    BY <2>12, SettleEffects DEF Effect
  <2> QED BY <1>1, <2>1, <2>2, <2>3, <2>4, <2>5, <2>6, <2>7, <2>8, <2>9, <2>10, <2>11, <2>12
          DEF Step
<1>2. ASSUME NEW p \in Processes, TimeIsUp(p) PROVE Effect
  BY <1>2, RestEffects DEF Effect
<1>3. ASSUME NEW p \in Processes, Reconcile(p) \/ \E k \in Kinds : Flush(p, k) PROVE Effect
  BY <1>3, BeginEffects DEF Effect
<1>4. ASSUME NEW p \in Processes, Crash(p) PROVE Effect
  BY <1>4, CrashEffects DEF Effect
<1>5. ASSUME NEW p \in Processes, Stall(p) PROVE Effect
  BY <1>5, TakeEffects DEF Effect
<1>6. ASSUME NEW i \in Items, Queue(i) PROVE Effect
  BY <1>6, QueueEffects DEF Effect
<1>7. CASE \/ \E i \in Items : Due(i) \/ Repair(i)
           \/ Revoke \/ NewCredential \/ UNCHANGED vars
  BY <1>7, EnvEffects DEF Effect
<1> QED BY <1>1, <1>2, <1>3, <1>4, <1>5, <1>6, <1>7 DEF Next

\* What all the effects have in common: the server forgets nothing, only Queue
\* adds to the queues, only an answer to the server, and only the end of a
\* request touches a marker.
Frame ==
  /\ server \subseteq server' /\ queued \subseteq queued'
  /\ (\E i \in Items : QueueEffect(i)) \/ (queued' = queued /\ files' \subseteq files)
  /\ \A i \in server' \ server : \E p \in Processes : AdvanceEffect(p) /\ i = flusher[p].item
  /\ marker' = marker \/ \E p \in Processes : CleanEffect(p) \/ MarkEffect(p)

\* Every effect is within this frame.
LEMMA Framed ==
  ASSUME Effect
  PROVE  Frame
<1> USE DEF Sets
<1>1. ASSUME NEW p \in Processes, \/ BeginEffect(p) \/ RestEffect(p) \/ ReapEffect(p)
                                  \/ ReadEffect(p) \/ LeaveEffect(p) \/ SendEffect(p)
      PROVE  Frame
  BY <1>1 DEF BeginEffect, RestEffect, ReapEffect, ReadEffect, LeaveEffect, SendEffect, Frame
<1>2. ASSUME NEW p \in Processes, AdvanceEffect(p) PROVE Frame
  BY <1>2 DEF AdvanceEffect, Frame
<1>3. ASSUME NEW p \in Processes, RemoveEffect(p) \/ CleanEffect(p) PROVE Frame
  BY <1>3 DEF RemoveEffect, CleanEffect, Frame
<1>4. ASSUME NEW p \in Processes, MarkEffect(p) \/ SettleEffect(p) \/ CrashEffect(p) PROVE Frame
  BY <1>4 DEF MarkEffect, SettleEffect, CrashEffect, Frame
<1>5. ASSUME NEW p \in Processes, NEW i \in Items,
             SkipEffect(p, i) \/ TakeEffect(p, i) \/ LookEffect(p, i)
      PROVE  Frame
  BY <1>5 DEF SkipEffect, TakeEffect, LookEffect, Frame
<1>6. ASSUME EnvEffect \/ \E i \in Items : QueueEffect(i) PROVE Frame
  BY <1>6 DEF EnvEffect, QueueEffect, Frame
<1> QED BY <1>1, <1>2, <1>3, <1>4, <1>5, <1>6 DEF Effect

-----------------------------------------------------------------------------
(* Locks, lists and the quarantine *)

\* Two processes do not work on one lane.
LEMMA LanesApart ==
  ASSUME Locked, NEW p \in Processes, NEW q \in Processes, Working(p), Working(q), p # q
  PROVE  LaneOf(p) # LaneOf(q) /\ flusher[p].item # flusher[q].item
BY DEF Locked, Working, LaneOf

\* Locks are released by their holder, and taken from nobody who works.
LEMMA LockedStep ==
  ASSUME TypeOK, Locked, Effect
  PROVE  Locked'
<1> USE DEF Sets, LaneOf, Row, RowSame, RowIdle, Others, Done
<1> SUFFICES ASSUME NEW q \in Processes, flusher'[q].pc \notin {"idle", "next", "reap"}
             PROVE  lock'[Lane[flusher'[q].item]] = {q}
  BY DEF Locked, Working
<1>0. /\ \A p \in Processes : Working(p) => Lane[flusher[p].item] \in Lanes /\ lock[LaneOf(p)] = {p}
      /\ \A p \in Processes : flusher[p].pc = "reap" => LaneOf(p) \in Lanes
  BY WorkingItem DEF Working, Locked
\* Whoever else works keeps what it has.
<1>1. ASSUME NEW p \in Processes, Others(p), q # p,
             \A l \in Lanes : lock[l] = {q} => lock'[l] = {q}
      PROVE  lock'[Lane[flusher'[q].item]] = {q}
  <2>1. Working(q) /\ flusher'[q] = flusher[q]
    BY <1>1 DEF Working
  <2> QED BY <1>0, <1>1, <2>1
<1>2. ASSUME NEW p \in Processes,
             LeaveEffect(p) \/ CleanEffect(p) \/ MarkEffect(p) \/ SettleEffect(p)
      PROVE  lock'[Lane[flusher'[q].item]] = {q}
  <2>1. Working(p) /\ Others(p) /\ (lock' = lock \/ Frees(p))
    BY <1>2 DEF LeaveEffect, CleanEffect, MarkEffect, SettleEffect, Working
  <2>2. CASE q # p
    <3>1. \A l \in Lanes : lock[l] = {q} => lock'[l] = {q}
      BY <1>0, <2>1, <2>2 DEF Frees, SetsLock
    <3> QED BY <1>1, <2>1, <2>2, <3>1
  <2>3. CASE q = p
    <3>1. lock' = lock /\ flusher'[p].item = flusher[p].item
      BY <1>2, <2>3 DEF LeaveEffect, CleanEffect, MarkEffect, SettleEffect
    <3> QED BY <1>0, <2>1, <2>3, <3>1
  <2> QED BY <2>2, <2>3
<1>3. ASSUME NEW p \in Processes, NEW i \in Items, TakeEffect(p, i) \/ LookEffect(p, i)
      PROVE  lock'[Lane[flusher'[q].item]] = {q}
  <2>1. Lane[i] \in Lanes /\ q \notin lock[Lane[i]] /\ Others(p)
    BY <1>3, BoundsAssumption DEF TakeEffect, LookEffect, Lanes
  <2>2. CASE q # p
    <3>1. \A l \in Lanes : lock[l] = {q} => lock'[l] = {q}
      BY <1>3, <2>1, <2>2 DEF TakeEffect, LookEffect, SetsLock
    <3> QED BY <1>1, <2>1, <2>2, <3>1
  <2>3. CASE q = p
    BY <1>3, <2>1, <2>3 DEF TakeEffect, LookEffect, SetsLock
  <2> QED BY <2>2, <2>3
<1>4. ASSUME NEW p \in Processes, ReapEffect(p)
      PROVE  lock'[Lane[flusher'[q].item]] = {q}
  <2>1. LaneOf(p) \in Lanes /\ Others(p)
    BY <1>0, <1>4 DEF ReapEffect
  <2>2. CASE q # p
    <3>1. \A l \in Lanes : lock[l] = {q} => lock'[l] = {q}
      BY <1>4, <2>1, <2>2, BoundsAssumption DEF ReapEffect, SetsLock, Held
    <3> QED BY <1>1, <2>1, <2>2, <3>1
  <2>3. CASE q = p
    BY <1>4, <2>1, <2>3 DEF ReapEffect, SetsLock
  <2> QED BY <2>2, <2>3
<1>5. ASSUME NEW p \in Processes, CrashEffect(p)
      PROVE  lock'[Lane[flusher'[q].item]] = {q}
  <2>1. q # p /\ Others(p) /\ \A l \in Lanes : lock[l] = {q} => lock'[l] = {q}
    BY <1>5 DEF CrashEffect
  <2> QED BY <1>1, <2>1
<1>6. ASSUME NEW p \in Processes,
             ReadEffect(p) \/ SendEffect(p) \/ AdvanceEffect(p) \/ RemoveEffect(p)
      PROVE  lock'[Lane[flusher'[q].item]] = {q}
  <2>1. Working(p) /\ Others(p) /\ flusher'[p].item = flusher[p].item /\ lock' = lock
    BY <1>6 DEF ReadEffect, SendEffect, AdvanceEffect, RemoveEffect, Working
  <2>2. Working(q) /\ flusher'[q].item = flusher[q].item
    BY <2>1 DEF Working
  <2> QED BY <1>0, <2>1, <2>2
<1>7. ASSUME NEW p \in Processes,
             BeginEffect(p) \/ RestEffect(p) \/ \E i \in Items : SkipEffect(p, i)
      PROVE  lock'[Lane[flusher'[q].item]] = {q}
  <2>1. Others(p) /\ flusher'[p].pc \in {"idle", "next"} /\ lock' = lock
    BY <1>7 DEF BeginEffect, RestEffect, SkipEffect
  <2> QED BY <1>1, <2>1
<1>8. ASSUME EnvEffect \/ \E i \in Items : QueueEffect(i)
      PROVE  lock'[Lane[flusher'[q].item]] = {q}
  BY <1>8 DEF EnvEffect, QueueEffect, Locked, Working
<1> QED BY <1>2, <1>3, <1>4, <1>5, <1>6, <1>7, <1>8 DEF Effect

\* Without a kill or a stall no lock looks left, so that none is taken from anyone.
LEMMA IntactStep ==
  ASSUME TypeOK, Intact, Unshared, [Next]_vars
  PROVE  Intact'
<1> SUFFICES ASSUME crashes' = 0 PROVE Intact'
  BY DEF Intact
<1>0. /\ crashes \in Nat /\ lock \in [Lanes -> SUBSET (Processes \cup {"dead"})]
      /\ "dead" \notin Processes
  BY BoundsAssumption DEF TypeOK
<1>1. crashes' \in {crashes, crashes + 1}
  <2> USE DEF disk, remote, history
  <2>1. ASSUME NEW p \in Processes, Step(p) PROVE crashes' \in {crashes, crashes + 1}
    BY <2>1 DEF Step, End, Take, Reap, Gone, Read, Gap, Vanished, Hold, Send, Answer, Accept,
                Unpause, Remove, Clean, Fail, Mark, Settle
  <2> QED BY <2>1 DEF Next, TimeIsUp, Crash, Stall, Reconcile, Flush, Begin, Queue, Due, Repair,
                      Revoke, NewCredential, vars
<1>2. /\ crashes = 0 /\ shared = "no"
      /\ \A l \in Lanes : "dead" \notin lock[l]
      /\ \A p \in Processes : flusher[p].pc # "reap"
  BY <1>0, <1>1 DEF Intact
<1>3. shared' = "no"
  <2> USE DEF disk, remote, history
  <2>1. ASSUME NEW p \in Processes, Step(p) PROVE shared' = "no"
    BY <1>2, <2>1 DEF Step, End, Take, Reap, Gone, Read, Gap, Vanished, Hold, Send, Answer, Accept,
                Unpause, Remove, Clean, Fail, Mark, Settle
  <2> QED BY <1>2, <2>1 DEF Next, TimeIsUp, Crash, Stall, Reconcile, Flush, Begin, Queue, Due, Repair,
                      Revoke, NewCredential, vars
<1>4. Effect
  BY <1>2, <1>3, Effects DEF Unshared
<1> USE DEF Sets, Row, RowSame, RowIdle, Others, Done
<1>5. ASSUME NEW p \in Processes, Others(p), flusher'[p].pc # "reap",
             \A l \in Lanes : "dead" \notin lock'[l]
      PROVE  Intact'
  BY <1>2, <1>3, <1>5 DEF Intact
<1>6. ASSUME NEW p \in Processes, NEW l, SetsLock(l, {}) \/ SetsLock(l, {p}) \/ lock' = lock
      PROVE  \A k \in Lanes : "dead" \notin lock'[k]
  BY <1>0, <1>2, <1>6 DEF SetsLock
<1>7. ASSUME NEW p \in Processes,
             \/ BeginEffect(p) \/ RestEffect(p) \/ ReadEffect(p) \/ LeaveEffect(p)
             \/ SendEffect(p) \/ AdvanceEffect(p) \/ RemoveEffect(p)
             \/ CleanEffect(p) \/ MarkEffect(p) \/ SettleEffect(p)
      PROVE  Intact'
  <2>1. Others(p) /\ flusher'[p].pc # "reap" /\ (lock' = lock \/ Frees(p))
    BY <1>7 DEF BeginEffect, RestEffect, ReadEffect, LeaveEffect, SendEffect, AdvanceEffect,
                RemoveEffect, CleanEffect, MarkEffect, SettleEffect
  <2> QED BY <1>5, <1>6, <2>1 DEF Frees
<1>8. ASSUME NEW p \in Processes, NEW i \in Items, SkipEffect(p, i) \/ TakeEffect(p, i)
      PROVE  Intact'
  <2>1. Others(p) /\ flusher'[p].pc # "reap" /\ (lock' = lock \/ SetsLock(Lane[i], {p}))
    BY <1>8 DEF SkipEffect, TakeEffect
  <2> QED BY <1>5, <1>6, <2>1
<1>9. ASSUME NEW p \in Processes, NEW i \in Items, LookEffect(p, i) PROVE FALSE
  BY <1>2, <1>9 DEF LookEffect, Lanes
<1>10. \A p \in Processes : ~ReapEffect(p) /\ ~CrashEffect(p)
  BY <1>2 DEF ReapEffect, CrashEffect
<1>11. CASE EnvEffect \/ \E i \in Items : QueueEffect(i)
  BY <1>2, <1>3, <1>11 DEF EnvEffect, QueueEffect, Intact
<1> QED BY <1>4, <1>7, <1>8, <1>9, <1>10, <1>11 DEF Effect

\* What a process has read stays true until it has acted on it.
LEMMA ReadCurrentStep ==
  ASSUME TypeOK, Locked, ReadCurrent, Effect
  PROVE  ReadCurrent'
<1> USE DEF Sets, Row, RowSame, RowIdle, Others, Done
<1> DEFINE Current(q) == /\ flusher[q].item \in files
                         /\ flusher[q].marker = marker[LaneOf(q)]
                         /\ flusher[q].state.state = sidecar[flusher[q].item].state
<1>0. /\ \A q \in Processes : flusher[q].pc = "test" => Current(q)
      /\ \A q \in Processes : flusher[q].pc = "test" =>
           flusher[q].item \in Items /\ LaneOf(q) \in Lanes /\ Working(q)
  BY WorkingItem DEF ReadCurrent, LaneOf, Working
<1>1. ASSUME \A q \in Processes : flusher'[q].pc = "test" => Current(q)'
      PROVE  ReadCurrent'
  BY <1>1 DEF ReadCurrent, LaneOf
<1>2. ASSUME NEW q \in Processes, flusher[q].pc = "test", flusher'[q] = flusher[q],
             flusher[q].item \in files', marker'[LaneOf(q)] = marker[LaneOf(q)],
             sidecar'[flusher[q].item].state = sidecar[flusher[q].item].state
      PROVE  Current(q)'
  BY <1>0, <1>2 DEF LaneOf
\* Whoever works on another lane is not concerned.
<1>3. ASSUME NEW p \in Processes, Working(p), Others(p), flusher'[p].pc # "test",
             \A l \in Lanes : l # LaneOf(p) => marker'[l] = marker[l],
             files \ {flusher[p].item} \subseteq files', OtherStates(flusher[p].item)
      PROVE  ReadCurrent'
  <2> SUFFICES ASSUME NEW q \in Processes, flusher'[q].pc = "test" PROVE Current(q)'
    BY <1>1
  <2>1. q # p /\ flusher'[q] = flusher[q] /\ flusher[q].pc = "test"
    BY <1>3
  <2>2. /\ LaneOf(q) # LaneOf(p) /\ flusher[q].item # flusher[p].item
        /\ LaneOf(q) \in Lanes /\ flusher[q].item \in Items
    BY <1>0, <1>3, <2>1, LanesApart
  <2>3. flusher[q].item \in files
    BY <1>0, <2>1
  <2> QED BY <1>2, <1>3, <2>1, <2>2, <2>3 DEF OtherStates
<1>4. ASSUME NEW p \in Processes,
             \/ LeaveEffect(p) \/ SendEffect(p) \/ AdvanceEffect(p) \/ RemoveEffect(p)
             \/ CleanEffect(p) \/ MarkEffect(p) \/ SettleEffect(p)
      PROVE  ReadCurrent'
  <2>1. Working(p) /\ Others(p) /\ flusher'[p].pc # "test"
    BY <1>4 DEF LeaveEffect, SendEffect, AdvanceEffect, RemoveEffect, CleanEffect, MarkEffect,
                SettleEffect, Working
  <2>2. \A l \in Lanes : l # LaneOf(p) => marker'[l] = marker[l]
    BY <1>4 DEF LeaveEffect, SendEffect, AdvanceEffect, RemoveEffect, CleanEffect, MarkEffect,
                SettleEffect
  <2>3. files \ {flusher[p].item} \subseteq files'
    <3>1. CASE SettleEffect(p)
      <4>1. PICK moved \in SUBSET {flusher[p].item} : files' = files \ moved
        BY <3>1 DEF SettleEffect
      <4> QED BY <4>1
    <3>2. CASE ~SettleEffect(p)
      BY <1>4, <3>2 DEF LeaveEffect, SendEffect, AdvanceEffect, RemoveEffect, CleanEffect, MarkEffect
    <3> QED BY <3>1, <3>2
  <2>4. OtherStates(flusher[p].item)
    BY <1>4 DEF LeaveEffect, SendEffect, AdvanceEffect, RemoveEffect, CleanEffect, MarkEffect,
                SettleEffect, SameStates, OtherStates
  <2> QED BY <1>3, <2>1, <2>2, <2>3, <2>4
<1>5. ASSUME NEW p \in Processes, ReadEffect(p) PROVE ReadCurrent'
  <2>1. Current(p)'
    BY <1>5, WorkingItem DEF ReadEffect, LaneOf, SameStates
  <2>2. ASSUME NEW q \in Processes \ {p}, flusher'[q].pc = "test" PROVE Current(q)'
    BY <1>0, <1>2, <1>5, <2>2 DEF ReadEffect, SameStates
  <2> QED BY <1>1, <2>1, <2>2
<1>6. ASSUME NEW p \in Processes,
             \/ BeginEffect(p) \/ RestEffect(p) \/ ReapEffect(p) \/ CrashEffect(p)
             \/ \E i \in Items : SkipEffect(p, i) \/ TakeEffect(p, i) \/ LookEffect(p, i)
      PROVE  ReadCurrent'
  <2>1. Others(p) /\ flusher'[p].pc # "test" /\ UNCHANGED <<files, marker>> /\ SameStates
    BY <1>6 DEF BeginEffect, RestEffect, ReapEffect, CrashEffect, SkipEffect, TakeEffect, LookEffect
  <2>2. ASSUME NEW q \in Processes, flusher'[q].pc = "test" PROVE Current(q)'
    BY <1>0, <1>2, <2>1, <2>2 DEF SameStates
  <2> QED BY <1>1, <2>2
<1>7. CASE EnvEffect \/ \E i \in Items : QueueEffect(i)
  <2>1. UNCHANGED <<flusher, marker>> /\ files \subseteq files' /\ SameStates
    BY <1>7 DEF EnvEffect, QueueEffect
  <2>2. ASSUME NEW q \in Processes, flusher'[q].pc = "test" PROVE Current(q)'
    BY <1>0, <1>2, <2>1, <2>2 DEF SameStates
  <2> QED BY <1>1, <2>2
<1> QED BY <1>4, <1>5, <1>6, <1>7 DEF Effect

\* Nothing is listed, worked on, quarantined or accepted that was not queued.
LEMMA ClosedStep ==
  ASSUME TypeOK, Closed, Effect
  PROVE  Closed'
<1> USE DEF Sets, LaneOf, Row, RowSame, RowIdle, Others, Done
<1> DEFINE A == files \cup quarantine \cup server \subseteq queued /\ files \cap quarantine = {}
           B == \A i \in queued : \A j \in Items : j < i /\ Lane[j] = Lane[i] => j \in queued
           C(q) == /\ flusher[q].todo \subseteq flusher[q].listed
                   /\ flusher[q].listed \subseteq queued
                   /\ flusher[q].pc \notin {"idle", "next"} => flusher[q].item \in queued
<1>0. A /\ B /\ \A q \in Processes : C(q)
  BY DEF Closed
<1>1. ASSUME A', B', \A q \in Processes : C(q)' PROVE Closed'
  BY <1>1 DEF Closed
<1>2. ASSUME queued' = queued PROVE B'
  BY <1>0, <1>2
<1>3. ASSUME NEW p \in Processes, Others(p), queued' = queued, C(p)'
      PROVE  \A q \in Processes : C(q)'
  BY <1>0, <1>3
<1>4. ASSUME NEW p \in Processes,
             \/ ReapEffect(p) \/ ReadEffect(p) \/ LeaveEffect(p) \/ SendEffect(p)
             \/ CleanEffect(p) \/ MarkEffect(p) \/ RestEffect(p) \/ CrashEffect(p)
      PROVE  Closed'
  <2>1. /\ UNCHANGED <<queued, files, quarantine, server>> /\ Others(p)
        /\ flusher'[p].todo \subseteq flusher'[p].listed
        /\ flusher'[p].listed \subseteq flusher[p].listed
        /\ \/ flusher'[p].pc \in {"idle", "next"}
           \/ flusher[p].pc \notin {"idle", "next"} /\ flusher'[p].item = flusher[p].item
    BY <1>0, <1>4 DEF ReapEffect, ReadEffect, LeaveEffect, SendEffect, CleanEffect, MarkEffect,
                      RestEffect, CrashEffect
  <2>2. A'
    BY <1>0, <2>1
  <2>3. C(p)'
    BY <1>0, <2>1
  <2> QED BY <1>1, <1>2, <1>3, <2>1, <2>2, <2>3
<1>5. ASSUME NEW p \in Processes, AdvanceEffect(p) \/ RemoveEffect(p) \/ SettleEffect(p)
      PROVE  Closed'
  <2>1. /\ queued' = queued /\ Others(p) /\ flusher[p].item \in queued
        /\ flusher'[p].todo \subseteq flusher'[p].listed
        /\ flusher'[p].listed \subseteq flusher[p].listed
        /\ flusher'[p].pc \in {"idle", "next"} \/ flusher'[p].item = flusher[p].item
    BY <1>0, <1>5 DEF AdvanceEffect, RemoveEffect, SettleEffect
  <2>2. A'
    <3>1. CASE AdvanceEffect(p)
      BY <1>0, <2>1, <3>1 DEF AdvanceEffect
    <3>2. CASE RemoveEffect(p)
      BY <1>0, <3>2 DEF RemoveEffect
    <3>3. CASE SettleEffect(p)
      <4>1. PICK moved \in SUBSET {flusher[p].item} :
              files' = files \ moved /\ quarantine' = quarantine \cup moved
        BY <3>3 DEF SettleEffect
      <4>2. UNCHANGED <<queued, server>>
        BY <3>3 DEF SettleEffect
      <4> QED BY <1>0, <2>1, <4>1, <4>2
    <3> QED BY <1>5, <3>1, <3>2, <3>3
  <2>3. C(p)'
    BY <1>0, <2>1
  <2> QED BY <1>1, <1>2, <1>3, <2>1, <2>2, <2>3
<1>6. ASSUME NEW p \in Processes, BeginEffect(p) PROVE Closed'
  <2>1. /\ UNCHANGED <<queued, files, quarantine, server>> /\ Others(p)
        /\ flusher'[p].todo = flusher'[p].listed /\ flusher'[p].listed \subseteq files
        /\ flusher'[p].pc = "next"
    BY <1>6 DEF BeginEffect
  <2>2. A'
    BY <1>0, <2>1
  <2>3. C(p)'
    BY <1>0, <2>1
  <2> QED BY <1>1, <1>2, <1>3, <2>1, <2>2, <2>3
<1>7. ASSUME NEW p \in Processes, NEW i \in Items, SkipEffect(p, i) \/ TakeEffect(p, i) \/ LookEffect(p, i)
      PROVE  Closed'
  <2>1. /\ UNCHANGED <<queued, files, quarantine, server>> /\ Others(p)
        /\ i \in flusher[p].todo
        /\ flusher'[p].todo = flusher[p].todo \ {i} /\ flusher'[p].listed = flusher[p].listed
        /\ flusher'[p].pc = "next" \/ flusher'[p].item = i
    BY <1>7 DEF SkipEffect, TakeEffect, LookEffect, First
  <2>2. A'
    BY <1>0, <2>1
  <2>3. C(p)'
    BY <1>0, <2>1
  <2> QED BY <1>1, <1>2, <1>3, <2>1, <2>2, <2>3
<1>8. CASE EnvEffect
  <2>1. UNCHANGED <<queued, files, quarantine, server, flusher>>
    BY <1>8 DEF EnvEffect
  <2> QED BY <1>0, <1>1, <1>2, <2>1
<1>9. ASSUME NEW i \in Items, QueueEffect(i) PROVE Closed'
  <2>1. /\ queued' = queued \cup {i} /\ files' = files \cup {i}
        /\ UNCHANGED <<quarantine, server, flusher>>
        /\ i \notin queued /\ \A j \in Items : j < i /\ Lane[j] = Lane[i] => j \in queued
    BY <1>9 DEF QueueEffect
  <2>2. A'
    BY <1>0, <2>1
  <2>3. B'
    BY <1>0, <2>1
  <2>4. \A q \in Processes : C(q)'
    BY <1>0, <2>1
  <2> QED BY <1>1, <2>2, <2>3, <2>4
<1> QED BY <1>4, <1>5, <1>6, <1>7, <1>8, <1>9 DEF Effect

-----------------------------------------------------------------------------
(* The order across the queues of a session *)

\* The lane of a quarantined item stays stopped by it.
LEMMA KeptStep ==
  ASSUME TypeOK, RemovesConfirmed, Locked, Closed, Kept, MaySend, Effect
  PROVE  Kept'
<1> USE DEF Sets
<1>0. \A j \in quarantine : j \in Items /\ Lane[j] \in Lanes /\ j # None /\ j \notin files
  BY ItemsAssumption DEF TypeOK, Closed, Lanes, None
<1>1. ASSUME NEW p \in Processes, CleanEffect(p) PROVE Kept'
  <2>1. /\ flusher[p].item \in server /\ marker[LaneOf(p)].file \in {None, flusher[p].item}
        /\ UNCHANGED <<quarantine, server>>
    BY <1>1 DEF CleanEffect, RemovesConfirmed, MaySend, Sends, Sending, LaneOf
  <2>2. ASSUME NEW j \in quarantine \ server PROVE Lane[j] # LaneOf(p)
    BY <1>0, <2>1, <2>2 DEF Kept
  <2> QED BY <1>0, <1>1, <2>1, <2>2 DEF CleanEffect, Kept
<1>2. ASSUME NEW p \in Processes, MarkEffect(p) PROVE Kept'
  <2>1. /\ marker[LaneOf(p)].file \in {None, flusher[p].item} /\ flusher[p].item \in files
        /\ UNCHANGED <<quarantine, server>>
        /\ \A l \in Lanes : l # LaneOf(p) => marker'[l] = marker[l]
    BY <1>2 DEF MarkEffect, MaySend, Sends, Sending, LaneOf
  <2>2. ASSUME NEW j \in quarantine \ server PROVE Lane[j] # LaneOf(p)
    BY <1>0, <2>1, <2>2 DEF Kept
  <2> QED BY <1>0, <2>1, <2>2 DEF Kept
<1>6. ASSUME NEW p \in Processes, SettleEffect(p) PROVE Kept'
  <2> DEFINE i == flusher[p].item
  <2>1. marker[Lane[i]].file = i
    BY <1>6 DEF SettleEffect, MaySend, Sends, Sending
  <2>2. PICK moved \in SUBSET {i} : quarantine' = quarantine \cup moved
    BY <1>6 DEF SettleEffect
  <2>3. UNCHANGED <<server, marker>>
    BY <1>6 DEF SettleEffect
  <2> HIDE DEF i
  <2> QED BY <2>1, <2>2, <2>3 DEF Kept
<1>3. ASSUME quarantine' = quarantine, server \subseteq server', marker' = marker PROVE Kept'
  BY <1>3 DEF Kept
<1>4. ASSUME NEW p \in Processes,
             \/ BeginEffect(p) \/ RestEffect(p) \/ ReapEffect(p) \/ ReadEffect(p)
             \/ LeaveEffect(p) \/ SendEffect(p) \/ AdvanceEffect(p) \/ RemoveEffect(p) \/ CrashEffect(p)
      PROVE  Kept'
  BY <1>3, <1>4 DEF BeginEffect, RestEffect, ReapEffect, ReadEffect, LeaveEffect, SendEffect,
                    AdvanceEffect, RemoveEffect, CrashEffect
<1>5. ASSUME NEW p \in Processes, NEW i \in Items, SkipEffect(p, i) \/ TakeEffect(p, i) \/ LookEffect(p, i)
      PROVE  Kept'
  BY <1>3, <1>5 DEF SkipEffect, TakeEffect, LookEffect
<1>7. ASSUME EnvEffect \/ \E i \in Items : QueueEffect(i) PROVE Kept'
  BY <1>3, <1>7 DEF EnvEffect, QueueEffect
<1> QED BY <1>1, <1>2, <1>4, <1>5, <1>6, <1>7 DEF Effect

\* What MaySend says of an item.
Ahead(i) == \A j \in queued : j < i /\ Lane[j] = Lane[i] /\ Kind[j] # Kind[i] => j \in server

\* A new item comes after everything of its session.
LEMMA AheadKept ==
  ASSUME TypeOK, Closed, Effect, NEW i \in queued, Ahead(i)
  PROVE  Ahead(i)'
<1>1. ASSUME NEW k \in Items, QueueEffect(k) PROVE Ahead(i)'
  BY <1>1 DEF Ahead, QueueEffect, Closed
<1>2. CASE queued' = queued
  BY <1>2, Framed DEF Ahead, Frame
<1> QED BY <1>1, <1>2, Framed DEF Frame

\* A process that sends has looked at the other queues and at the marker, and
\* nobody else changes what it saw.
LEMMA MaySendStep ==
  ASSUME TypeOK, NothingLost, Locked, Closed, Kept, MaySend, Effect
  PROVE  MaySend'
<1> USE DEF Sets, Row, RowSame, RowIdle, Others, Done
<1> DEFINE Clear(q) == /\ marker[LaneOf(q)].file \in {None, flusher[q].item}
                       /\ flusher[q].pc = "settle" => marker[LaneOf(q)].file = flusher[q].item
                       /\ flusher[q].pc # "clean" => flusher[q].item \in files
           May(q) == Sends(q) => Clear(q) /\ Ahead(flusher[q].item)
<1>0. \A q \in Processes : May(q)
  BY DEF MaySend, Ahead, LaneOf
<1>1. ASSUME \A q \in Processes : May(q)' PROVE MaySend'
  BY <1>1 DEF MaySend, Ahead, LaneOf
<1>2. \A q \in Processes : Sends(q) => /\ flusher[q].item \in queued
                                       /\ Working(q) /\ LaneOf(q) \in Lanes
  BY WorkingItem DEF Closed, Sends, Sending, Working
<1> HIDE DEF May
<1>3. ASSUME NEW q \in Processes, flusher'[q].item = flusher[q].item, Sends(q), Clear(q)'
      PROVE  May(q)'
  <2>1. Ahead(flusher[q].item) /\ flusher[q].item \in queued
    BY <1>0, <1>2, <1>3 DEF May
  <2>2. Ahead(flusher[q].item)'
    BY <2>1, AheadKept, <1>3 DEF Ahead
  <2>3. \A j \in queued' : j < flusher[q].item /\ Lane[j] = Lane[flusher[q].item] 
                           /\ Kind[j] # Kind[flusher[q].item] => j \in server'
    BY <1>3, <2>2 DEF Ahead
  <2> QED BY <1>3, <2>3 DEF May, Ahead
<1>4. ASSUME NEW q \in Processes, flusher'[q] = flusher[q],
             Sends(q) => Clear(q)'
      PROVE  May(q)'
  <2>1. CASE Sends(q)
    BY <1>3, <1>4, <2>1
  <2>2. CASE ~Sends(q)
    BY <1>4, <2>2 DEF May, Sends
  <2> QED BY <2>1, <2>2
<1>5. ASSUME NEW p \in Processes, Working(p), Others(p),
             \A l \in Lanes : l # LaneOf(p) => marker'[l] = marker[l],
             files \ {flusher[p].item} \subseteq files'
      PROVE  \A q \in Processes \ {p} : May(q)'
  <2> SUFFICES ASSUME NEW q \in Processes \ {p}, Sends(q) PROVE Clear(q)'
    BY <1>4, <1>5
  <2>1. LaneOf(q) # LaneOf(p) /\ flusher[q].item # flusher[p].item /\ LaneOf(q) \in Lanes
    BY <1>2, <1>5, LanesApart
  <2>2. Clear(q)
    BY <1>0 DEF May
  <2> QED BY <1>5, <2>1, <2>2 DEF LaneOf
<1>6. ASSUME NEW p \in Processes,
             CleanEffect(p) \/ MarkEffect(p) \/ RemoveEffect(p) \/ SettleEffect(p)
      PROVE  \A q \in Processes \ {p} : May(q)'
  <2>1. /\ Working(p) /\ Others(p)
        /\ \A l \in Lanes : l # LaneOf(p) => marker'[l] = marker[l]
    BY <1>6 DEF CleanEffect, MarkEffect, RemoveEffect, SettleEffect, Working
  <2>2. files \ {flusher[p].item} \subseteq files'
    <3>1. CASE SettleEffect(p)
      <4>1. PICK moved \in SUBSET {flusher[p].item} : files' = files \ moved
        BY <3>1 DEF SettleEffect
      <4> QED BY <4>1
    <3>2. CASE ~SettleEffect(p)
      BY <1>6, <3>2 DEF CleanEffect, MarkEffect, RemoveEffect
    <3> QED BY <3>1, <3>2
  <2> QED BY <1>5, <2>1, <2>2
<1>7. ASSUME NEW p \in Processes, CleanEffect(p) \/ MarkEffect(p) \/ SettleEffect(p),
             ~Sends(p)'
      PROVE  MaySend'
  BY <1>1, <1>6, <1>7 DEF May
<1>8. ASSUME NEW p \in Processes, RemoveEffect(p) \/ MarkEffect(p), Sends(p)' PROVE MaySend'
  <2>1. /\ Sends(p) /\ flusher'[p].item = flusher[p].item /\ LaneOf(p) \in Lanes
        /\ \/ flusher'[p].pc = "clean" /\ marker' = marker
           \/ /\ flusher'[p].pc = "settle" /\ files' = files /\ flusher[p].pc = "mark"
              /\ marker'[LaneOf(p)].file = flusher[p].item
    BY <1>2, <1>8 DEF RemoveEffect, MarkEffect, Sends, Sending
  <2>2. Clear(p)
    BY <1>0, <2>1 DEF May
  <2>3. May(p)'
    BY <1>3, <2>1, <2>2 DEF LaneOf
  <2> QED BY <1>1, <1>6, <1>8, <2>3
<1>14. ASSUME NEW p \in Processes, CleanEffect(p) \/ SettleEffect(p) PROVE ~Sends(p)'
  BY <1>14 DEF CleanEffect, SettleEffect, Sends, Sending
<1>15. ASSUME NEW p \in Processes, RemoveEffect(p) PROVE Sends(p)'
  BY <1>15 DEF RemoveEffect, Sends, Sending
<1>9. ASSUME NEW p \in Processes, Others(p), UNCHANGED <<files, marker>>, May(p)'
      PROVE  MaySend'
  <2>1. ASSUME NEW q \in Processes \ {p}, Sends(q) PROVE Clear(q)'
    <3>1. Clear(q) /\ flusher'[q] = flusher[q]
      BY <1>0, <1>9, <2>1 DEF May
    <3> QED BY <1>9, <3>1 DEF LaneOf
  <2> QED BY <1>1, <1>4, <1>9, <2>1
<1>10. ASSUME NEW p \in Processes, SendEffect(p) PROVE MaySend'
  <2> DEFINE i == flusher[p].item
  <2>1. /\ i \in files /\ ~Predecessor(p, i) /\ ~Stopping(p) /\ i \in Items
        /\ UNCHANGED <<queued, files, server, marker>> /\ Others(p)
        /\ flusher'[p].item = i /\ flusher'[p].pc = "sent"
    BY <1>10, WorkingItem DEF SendEffect
  <2>2. ASSUME NEW j \in queued, j < i, Lane[j] = Lane[i], Kind[j] # Kind[i]
        PROVE  j \in server
    <3>1. j \notin files
      BY <2>1, <2>2 DEF Predecessor
    <3>2. j \in Items /\ j # None
      BY ItemsAssumption DEF TypeOK, None
    <3>3. j \in quarantine => j \in server
      BY <2>1, <2>2, <3>2, ItemsAssumption DEF Stopping, LaneOf, Kept
    <3> QED BY <3>1, <3>3 DEF NothingLost
  <2>3. marker[Lane[i]].file \in {None, i}
    BY <2>1 DEF Stopping, LaneOf
  <2> HIDE DEF i
  <2>4. May(p)'
    BY <2>1, <2>2, <2>3 DEF May, Ahead, LaneOf
  <2> QED BY <1>9, <2>1, <2>4
<1>11. ASSUME NEW p \in Processes, AdvanceEffect(p) PROVE MaySend'
  <2>1. /\ Sends(p) /\ flusher'[p].item = flusher[p].item
        /\ flusher[p].pc # "clean" /\ flusher'[p].pc # "settle"
        /\ UNCHANGED <<files, marker>> /\ Others(p)
    BY <1>11 DEF AdvanceEffect, Sends, Sending
  <2>2. Clear(p)
    BY <1>0, <2>1 DEF May
  <2>3. May(p)'
    BY <1>3, <2>1, <2>2 DEF LaneOf
  <2> QED BY <1>9, <2>1, <2>3
<1>12. ASSUME NEW p \in Processes,
              \/ BeginEffect(p) \/ RestEffect(p) \/ ReapEffect(p) \/ ReadEffect(p)
              \/ LeaveEffect(p) \/ CrashEffect(p)
              \/ \E i \in Items : SkipEffect(p, i) \/ TakeEffect(p, i) \/ LookEffect(p, i)
       PROVE  MaySend'
  <2>1. /\ UNCHANGED <<files, marker>> /\ Others(p)
        /\ flusher'[p].pc \in {"idle", "next", "reap", "check", "test"}
    BY <1>12 DEF BeginEffect, RestEffect, ReapEffect, ReadEffect, LeaveEffect, CrashEffect,
                 SkipEffect, TakeEffect, LookEffect
  <2>2. May(p)'
    BY <2>1 DEF May, Sends, Sending
  <2> QED BY <1>9, <2>1, <2>2
<1>13. ASSUME EnvEffect \/ \E i \in Items : QueueEffect(i) PROVE MaySend'
  <2>1. UNCHANGED <<flusher, marker>> /\ files \subseteq files'
    BY <1>13 DEF EnvEffect, QueueEffect
  <2>2. ASSUME NEW q \in Processes, Sends(q) PROVE Clear(q)'
    BY <1>0, <2>1, <2>2 DEF May, LaneOf
  <2> QED BY <1>1, <1>4, <2>1, <2>2
<1> QED BY <1>7, <1>8, <1>10, <1>11, <1>12, <1>13, <1>14, <1>15 DEF Effect

\* Across the queues of a session the server sees its items in order.
CrossKept == \A i \in server : Ahead(i)

\* Across queues the order holds after every step.
LEMMA CrossStep ==
  ASSUME TypeOK, Closed, MaySend, CrossKept, Effect
  PROVE  CrossKept'
<1>1. \A i \in queued : Ahead(i) => Ahead(i)'
  BY AheadKept
<1>2. server \subseteq queued
  BY DEF Closed
<1>3. \A i \in server : Ahead(i)'
  BY <1>1, <1>2 DEF CrossKept
<1>4. CASE server' = server
  BY <1>3, <1>4 DEF CrossKept
<1>5. ASSUME NEW p \in Processes, AdvanceEffect(p) PROVE CrossKept'
  <2>1. Sends(p) /\ server' \in {server, server \cup {flusher[p].item}}
    BY <1>5 DEF AdvanceEffect, Sends, Sending
  <2>2. flusher[p].item \in queued /\ Ahead(flusher[p].item)
    BY <2>1 DEF MaySend, Ahead, Closed, Sends, Sending
  <2>3. PICK i \in queued : i = flusher[p].item /\ Ahead(i)
    BY <2>2
  <2>4. Ahead(i)'
    BY <1>1, <2>3
  <2> QED BY <1>3, <2>1, <2>3, <2>4 DEF CrossKept
<1>6. CASE ~\E p \in Processes : AdvanceEffect(p)
  BY <1>4, <1>6, Framed DEF Frame
<1> QED BY <1>5, <1>6

-----------------------------------------------------------------------------
(* Answers that do not match *)

\* Until a kill, an unmatched answer is in the sidecar as well as in the marker.
LEMMA MismatchStep ==
  ASSUME TypeOK, Locked, MismatchRecorded, Effect, crashes = 0, crashes' = 0
  PROVE  MismatchRecorded'
<1> USE DEF Sets, Row, RowSame, RowIdle, Others, Done
<1> DEFINE Tries(q) == flusher[q].pc \in Sending \ {"settle"}
           M(q) == flusher[q].pc = "mark" => sidecar[flusher[q].item].state = FailedState(q)
           Unsent(i) == \A p \in Processes : ~(Tries(p) /\ flusher[p].item = i)
           N(i) == Mismatched(i) /\ Unsent(i)
                   => sidecar[i].state = "blocked_reconciliation"
<1>0. (\A q \in Processes : M(q)) /\ (\A i \in Items : N(i))
  BY DEF MismatchRecorded
<1>1. ASSUME \A q \in Processes : M(q)', \A i \in Items : N(i)' PROVE MismatchRecorded'
  BY <1>1 DEF MismatchRecorded
<1>2. \A q \in Processes : Tries(q) => Working(q) /\ flusher[q].item \in Items
  BY WorkingItem DEF Sending, Working
<1>3. ASSUME NEW q \in Processes, flusher'[q] = flusher[q],
             flusher[q].pc = "mark" =>
               sidecar'[flusher[q].item].state = sidecar[flusher[q].item].state
      PROVE  M(q)'
  <2>1. FailedState(q)' = FailedState(q)
    BY <1>3 DEF FailedState
  <2> QED BY <1>0, <1>3, <2>1
<1>4. ASSUME NEW p \in Processes, Working(p), Others(p),
             OtherStates(flusher[p].item) \/ SameStates
      PROVE  \A q \in Processes \ {p} : M(q)'
  <2> SUFFICES ASSUME NEW q \in Processes \ {p}, flusher[q].pc = "mark"
               PROVE  sidecar'[flusher[q].item].state = sidecar[flusher[q].item].state
    BY <1>3, <1>4
  <2>1. Working(q) /\ flusher[q].item \in Items
    BY WorkingItem DEF Working
  <2>2. flusher[q].item # flusher[p].item
    BY <1>4, <2>1, LanesApart
  <2> QED BY <1>4, <2>1, <2>2 DEF OtherStates, SameStates
<1>5. ASSUME NEW p \in Processes, Others(p), SameStates,
             flusher'[p].pc # "mark"
      PROVE  \A q \in Processes : M(q)'
  <2>1. ASSUME NEW q \in Processes \ {p} PROVE M(q)'
    <3>1. flusher[q].pc = "mark" => flusher[q].item \in Items
      BY WorkingItem
    <3> QED BY <1>3, <1>5, <3>1 DEF SameStates
  <2>2. M(p)'
    BY <1>5
  <2> QED BY <2>1, <2>2
<1> HIDE DEF M
<1>6. ASSUME NEW i \in Items, marker' = marker,
             sidecar'[i].state = sidecar[i].state
               \/ sidecar[i].state # "blocked_reconciliation",
             sidecar'[i].state # sidecar[i].state => ~Unsent(i)' \/ Unsent(i),
             Unsent(i)' => Unsent(i) \/ sidecar'[i].state = "blocked_reconciliation"
      PROVE  N(i)'
  BY <1>0, <1>6 DEF Mismatched
<1> HIDE DEF N
<1>7. ASSUME NEW p \in Processes, Tries(p) <=> Tries(p)',
             Tries(p) => flusher'[p].item = flusher[p].item, Others(p), NEW i
      PROVE  Unsent(i)' <=> Unsent(i)
  BY <1>7
<1>8. ASSUME NEW p \in Processes,
             \/ BeginEffect(p) \/ RestEffect(p) \/ ReapEffect(p) \/ ReadEffect(p)
             \/ SettleEffect(p)
             \/ \E i \in Items : SkipEffect(p, i) \/ TakeEffect(p, i) \/ LookEffect(p, i)
      PROVE  MismatchRecorded'
  <2>1. /\ marker' = marker /\ SameStates /\ Others(p) /\ ~Tries(p) /\ ~Tries(p)'
        /\ flusher'[p].pc # "mark"
    BY <1>8 DEF BeginEffect, RestEffect, ReapEffect, ReadEffect, SettleEffect, SkipEffect,
                TakeEffect, LookEffect, Sending
  <2>2. \A i \in Items : Unsent(i)' <=> Unsent(i)
    BY <1>7, <2>1
  <2> HIDE DEF Unsent
  <2>3. \A i \in Items : N(i)'
    BY <1>6, <2>1, <2>2 DEF SameStates
  <2> QED BY <1>1, <1>5, <2>1, <2>3
<1>9. ASSUME NEW p \in Processes, LeaveEffect(p) PROVE MismatchRecorded'
  <2>1. /\ marker' = marker /\ Others(p) /\ ~Tries(p) /\ ~Tries(p)'
        /\ flusher'[p].pc # "mark" /\ Working(p)
        /\ OtherStates(flusher[p].item)
        /\ SameStates \/ sidecar[flusher[p].item].state # "blocked_reconciliation"
    BY <1>9 DEF LeaveEffect, Sending, Working
  <2>2. \A i \in Items : Unsent(i)' <=> Unsent(i)
    BY <1>7, <2>1
  <2> HIDE DEF Unsent
  <2>3. \A i \in Items : N(i)'
    BY <1>6, <2>1, <2>2 DEF SameStates, OtherStates
  <2>4. M(p)'
    BY <2>1 DEF M
  <2> QED BY <1>1, <1>4, <2>1, <2>3, <2>4
<1>10. ASSUME NEW p \in Processes, SendEffect(p) \/ AdvanceEffect(p) \/ RemoveEffect(p)
       PROVE  MismatchRecorded'
  <2>1. /\ marker' = marker /\ Others(p) /\ Tries(p)' /\ Working(p)
        /\ OtherStates(flusher[p].item) \/ SameStates
        /\ flusher'[p].item = flusher[p].item
    BY <1>10 DEF SendEffect, AdvanceEffect, RemoveEffect, Sending, Working
  <2>2. ASSUME NEW i \in Items PROVE N(i)'
    <3>1. CASE i = flusher[p].item
      <4>1. ~Unsent(i)'
        BY <2>1, <3>1
      <4> QED BY <4>1 DEF N
    <3>2. CASE i # flusher[p].item
      <4>1. sidecar'[i].state = sidecar[i].state
        BY <2>1, <3>2 DEF OtherStates, SameStates
      <4>2. Unsent(i)' => Unsent(i)
        BY <2>1, <3>2
      <4> QED BY <1>6, <2>1, <4>1, <4>2
    <3> QED BY <3>1, <3>2
  <2>3. M(p)'
    <3>1. CASE AdvanceEffect(p)
      <4>1. /\ flusher'[p].pc = "mark" => sidecar'[flusher[p].item].state = FailedState(p)'
            /\ flusher'[p].item = flusher[p].item
        BY <3>1 DEF AdvanceEffect
      <4> QED BY <4>1 DEF M
    <3>2. CASE SendEffect(p) \/ RemoveEffect(p)
      BY <3>2 DEF SendEffect, RemoveEffect, M
    <3> QED BY <1>10, <3>1, <3>2
  <2> QED BY <1>1, <1>4, <2>1, <2>2, <2>3
<1>11. ASSUME NEW p \in Processes, CleanEffect(p) \/ MarkEffect(p) PROVE MismatchRecorded'
  <2>1. /\ Others(p) /\ Tries(p) /\ Working(p)
        /\ Tries(p)' => flusher'[p].item = flusher[p].item
        /\ OtherStates(flusher[p].item) \/ SameStates
        /\ flusher'[p].pc # "mark"
        /\ \A l \in Lanes : l # LaneOf(p) => marker'[l] = marker[l]
        /\ \/ marker'[LaneOf(p)].file = None
           \/ /\ marker'[LaneOf(p)] = [file |-> flusher[p].item, state |-> FailedState(p)]
              /\ SameStates /\ flusher[p].pc = "mark"
    <3>1. LaneOf(p) \in Lanes
      BY <1>11, WorkingItem DEF CleanEffect, MarkEffect
    <3> QED BY <1>11, <3>1 DEF CleanEffect, MarkEffect, NoMarker, Sending, Working
  <2>2. ASSUME NEW i \in Items PROVE N(i)'
    <3> SUFFICES ASSUME Mismatched(i)', Unsent(i)'
                 PROVE  sidecar'[i].state = "blocked_reconciliation"
      BY DEF N
    <3>0. Lane[i] \in Lanes /\ i # None
      BY ItemsAssumption DEF Lanes, None
    <3>1. CASE Lane[i] # LaneOf(p)
      <4>1. i # flusher[p].item
        BY <3>1 DEF LaneOf
      <4>2. Mismatched(i) /\ sidecar'[i].state = sidecar[i].state
        BY <2>1, <3>0, <3>1, <4>1 DEF Mismatched, OtherStates, SameStates
      <4>3. Unsent(i)
        BY <2>1, <4>1
      <4> QED BY <1>0, <2>1, <4>2, <4>3 DEF N
    <3>2. CASE Lane[i] = LaneOf(p)
      <4>1. /\ flusher[p].item = i /\ FailedState(p) = "blocked_reconciliation"
            /\ SameStates /\ flusher[p].pc = "mark"
        BY <2>1, <3>0, <3>2 DEF Mismatched
      <4> QED BY <1>0, <4>1 DEF M, SameStates
    <3> QED BY <3>1, <3>2
  <2>3. M(p)'
    BY <2>1 DEF M
  <2> QED BY <1>1, <1>4, <2>1, <2>2, <2>3
<1>12. \A p \in Processes : ~CrashEffect(p)
  BY DEF CrashEffect, TypeOK
<1>13. ASSUME EnvEffect \/ \E i \in Items : QueueEffect(i) PROVE MismatchRecorded'
  <2>1. UNCHANGED <<flusher, marker>> /\ SameStates
    BY <1>13 DEF EnvEffect, QueueEffect
  <2>2. ASSUME NEW q \in Processes PROVE M(q)'
    <3>1. flusher[q].pc = "mark" => flusher[q].item \in Items
      BY WorkingItem
    <3> QED BY <1>3, <2>1, <3>1 DEF SameStates
  <2>3. \A i \in Items : Unsent(i)' <=> Unsent(i)
    BY <2>1
  <2> HIDE DEF Unsent
  <2>4. \A i \in Items : N(i)'
    BY <1>6, <2>1, <2>3 DEF SameStates
  <2> QED BY <1>1, <2>2, <2>4
<1> QED BY <1>8, <1>9, <1>10, <1>11, <1>12, <1>13 DEF Effect

\* What MismatchHeld says of a step.
MismatchAct ==
  \A p \in Processes :
    /\ crashes = 0
    /\ flusher[p].pc = "test" /\ flusher'[p].pc = "sent"
    /\ Mismatched(flusher[p].item)
    => flusher'[p].via = "reconcile"

\* Until a kill, only a reconciliation sends an item with an unmatched answer.
LEMMA MismatchSent ==
  ASSUME TypeOK, Locked, ReadCurrent, MismatchRecorded, [Next]_vars
  PROVE  MismatchAct
<1> SUFFICES ASSUME NEW p \in Processes, crashes = 0, flusher[p].pc = "test",
                    flusher'[p].pc = "sent", Mismatched(flusher[p].item)
             PROVE  flusher'[p].via = "reconcile"
  BY DEF MismatchAct
<1> DEFINE i == flusher[p].item
<1>1. Working(p) /\ i \in Items
  BY WorkingItem DEF Working
<1>2. ASSUME NEW q \in Processes PROVE ~(Sends(q) /\ flusher[q].item = i)
  <2>1. CASE q = p
    BY <2>1 DEF Sends, Sending
  <2>2. CASE q # p
    BY <1>1, <2>2, LanesApart DEF Sends, Sending, Working
  <2> QED BY <2>1, <2>2
<1>3. sidecar[i].state = "blocked_reconciliation"
  BY <1>1, <1>2 DEF MismatchRecorded, Sends
<1>4. Send(p)
  <2>1. PICK q \in Processes :
          \/ Step(q) \/ TimeIsUp(q) \/ Crash(q) \/ Stall(q)
          \/ Reconcile(q) \/ \E k \in Kinds : Flush(q, k)
    BY DEF Next, Queue, Due, Repair, Revoke, NewCredential, vars
  <2>2. CASE q # p
    <3>1. ~Step(q)
      <4>1. Step(q) => \E r : Becomes(q, r)
        BY DEF Step, End, Take, Reap, Gone, Read, Gap, Vanished, Hold, Send, Answer, Accept,
               Unpause, Remove, Clean, Fail, Mark, Settle, OnToNext, Stops, Leaves, Answered,
               Claims
      <4> QED BY <2>2, <4>1, BecomesRow DEF Others
    <3>2. ~(\/ TimeIsUp(q) \/ Crash(q) \/ Stall(q)
            \/ Reconcile(q) \/ \E k \in Kinds : Flush(q, k))
      <4>1. (\/ TimeIsUp(q) \/ Crash(q) \/ Stall(q)
             \/ Reconcile(q) \/ \E k \in Kinds : Flush(q, k)) => \E r : Becomes(q, r)
        BY DEF TimeIsUp, Crash, Stall, Reconcile, Flush, Begin, Claims
      <4> QED BY <2>2, <4>1, BecomesRow DEF Others
    <3> QED BY <2>1, <3>1, <3>2
  <2>3. CASE q = p
    <3>1. ~LeaveEffect(p)
      BY DEF LeaveEffect, Row
    <3>2. ~(Gone(p) \/ Gap(p) \/ Hold(p))
      BY <3>1, LeaveEffects
    <3>3. ~Crash(p)
      BY CrashEffects DEF CrashEffect, RowIdle
    <3>4. ~Vanished(p)
      BY StillStopped DEF Vanished, Free
    <3> QED BY <2>1, <2>3, <3>2, <3>3, <3>4
            DEF Step, End, Take, Reap, Read, Answer, Accept, Unpause, Remove, Clean, Fail, Mark,
                Settle, TimeIsUp, Stall, Reconcile, Flush, Begin
  <2> QED BY <2>2, <2>3
<1>5. CanReconcile(p, i)
  <2>1. flusher[p].state.state = "blocked_reconciliation"
    BY <1>3, StillStopped
  <2> QED BY <1>4, <2>1 DEF Send, OnHold, Stopped
<1>6. PICK v : /\ Becomes(p, [flusher[p] EXCEPT !.pc = "sent", !.sends = "some", !.via = v,
                                                !.marker = NoMarker, !.state = NoSidecar])
               /\ v = IF CanReconcile(p, i) THEN "reconcile" ELSE "flush"
  BY <1>4 DEF Send
<1> HIDE DEF i
<1>7. flusher'[p].via = v
  BY <1>6, RowSent
<1> QED BY <1>5, <1>6, <1>7

-----------------------------------------------------------------------------
(* The order of a session without overlap and kills *)

\* What all of the session before has been accepted for stays so.
LEMMA BeforeKept ==
  ASSUME TypeOK, Closed, Effect, NEW i \in queued, Before(i)
  PROVE  Before(i)'
<1>1. ASSUME NEW k \in Items, QueueEffect(k) PROVE Before(i)'
  BY <1>1 DEF Before, QueueEffect, Closed
<1>2. CASE queued' = queued
  BY <1>2, Framed DEF Before, Frame
<1> QED BY <1>1, <1>2, Framed DEF Frame

\* A quiet state comes from a quiet state, without a kill, without a lock that
\* looks left, and without a flush that begins during another one.
LEMMA QuietBefore ==
  ASSUME TypeOK, Intact, Effect, Quiet'
  PROVE  /\ Quiet
         /\ \A p \in Processes : ~CrashEffect(p) /\ ~ReapEffect(p)
         /\ \A p \in Processes, i \in Items : ~LookEffect(p, i)
         /\ \A p \in Processes : BeginEffect(p) => \A q \in Processes : flusher[q].pc = "idle"
<1> USE DEF Quiet, Sets
<1>1. \A p \in Processes : ~CrashEffect(p)
  BY DEF CrashEffect, TypeOK
<1>2. \A p \in Processes, i \in Items : LookEffect(p, i) => crashes' = crashes
  BY DEF LookEffect, TypeOK
<1>3. crashes = 0
  <2>1. ASSUME NEW p \in Processes,
               \/ BeginEffect(p) \/ RestEffect(p) \/ ReapEffect(p) \/ ReadEffect(p)
               \/ LeaveEffect(p) \/ SendEffect(p) \/ AdvanceEffect(p) \/ RemoveEffect(p)
               \/ CleanEffect(p) \/ MarkEffect(p) \/ SettleEffect(p)
        PROVE  crashes' = crashes
    BY <2>1 DEF BeginEffect, RestEffect, ReapEffect, ReadEffect, LeaveEffect, SendEffect,
         AdvanceEffect, RemoveEffect, CleanEffect, MarkEffect, SettleEffect
  <2>2. ASSUME NEW p \in Processes, NEW i \in Items, SkipEffect(p, i) \/ TakeEffect(p, i)
        PROVE  crashes' = crashes
    BY <2>2 DEF SkipEffect, TakeEffect
  <2>3. EnvEffect \/ (\E i \in Items : QueueEffect(i)) => crashes' = crashes
    BY DEF EnvEffect, QueueEffect
  <2> QED BY <1>1, <1>2, <2>1, <2>2, <2>3 DEF Effect
<1>4. /\ \A l \in Lanes : "dead" \notin lock[l]
      /\ \A p \in Processes : flusher[p].pc # "reap"
  BY <1>3 DEF Intact
<1>5. \A p \in Processes, i \in Items : ~LookEffect(p, i)
  BY <1>3, <1>4 DEF LookEffect, Lanes
<1>6. \A p \in Processes : ~ReapEffect(p)
  BY <1>4 DEF ReapEffect
<1>7. ASSUME NEW p \in Processes, BeginEffect(p)
      PROVE  overlap = "no" /\ \A q \in Processes : flusher[q].pc = "idle"
  BY <1>7 DEF BeginEffect
<1>8. overlap = "no"
  <2>1. ASSUME NEW p \in Processes,
               \/ RestEffect(p) \/ ReadEffect(p)
               \/ LeaveEffect(p) \/ SendEffect(p) \/ AdvanceEffect(p) \/ RemoveEffect(p)
               \/ CleanEffect(p) \/ MarkEffect(p) \/ SettleEffect(p)
        PROVE  overlap' = overlap
    BY <2>1 DEF RestEffect, ReadEffect, LeaveEffect, SendEffect,
         AdvanceEffect, RemoveEffect, CleanEffect, MarkEffect, SettleEffect
  <2>2. ASSUME NEW p \in Processes, NEW i \in Items, SkipEffect(p, i) \/ TakeEffect(p, i)
        PROVE  overlap' = overlap
    BY <2>2 DEF SkipEffect, TakeEffect
  <2>3. EnvEffect \/ (\E i \in Items : QueueEffect(i)) => overlap' = overlap
    BY DEF EnvEffect, QueueEffect
  <2> QED BY <1>1, <1>5, <1>6, <1>7, <2>1, <2>2, <2>3 DEF Effect
<1> QED BY <1>1, <1>3, <1>5, <1>6, <1>7, <1>8

Active(p) == flusher[p].pc # "idle"

\* A process that is alone and has no item finds no lock.
LEMMA NoLock ==
  ASSUME Alone, NEW p \in Processes, flusher[p].pc = "next", NEW l \in Lanes
  PROVE  lock[l] = {}
BY DEF Alone, Working
\* Nor does one with an item find a lock on another lane.
LEMMA OwnLock ==
  ASSUME Alone, NEW p \in Processes, Working(p), NEW l \in Lanes, l # LaneOf(p)
  PROVE  lock[l] = {}
BY DEF Alone, Working, LaneOf

\* Who is active after a step was so before it, or was the first to begin.
LEMMA AloneStep ==
  ASSUME TypeOK, Intact, Alone, Effect, Quiet'
  PROVE  Alone'
<1> USE DEF Row, RowSame, RowIdle, Others, Done
<1> DEFINE One == \A p, q \in Processes : Active(p) /\ Active(q) => p = q
           Owned(l) == lock[l] # {} => \E p \in Processes : /\ lock[l] = {p}
                                                             /\ Working(p) /\ LaneOf(p) = l
<1>0. One /\ \A l \in Lanes : Owned(l)
  BY DEF Alone, Active, Working, LaneOf
<1>1. ASSUME One', \A l \in Lanes : Owned(l)' PROVE Alone'
  BY <1>1 DEF Alone, Active, Working, LaneOf
<1>2. ASSUME NEW p \in Processes, Others(p), Active(p) PROVE One'
  BY <1>0, <1>2 DEF Active
<1> HIDE DEF One
<1>3. ASSUME NEW p \in Processes, BeginEffect(p) PROVE Alone'
  <2>1. (\A q \in Processes : flusher[q].pc = "idle") /\ Others(p) /\ lock' = lock
    BY <1>3, QuietBefore DEF BeginEffect
  <2>2. One'
    BY <2>1 DEF One, Active
  <2>3. \A l \in Lanes : Owned(l)'
    BY <1>0, <2>1 DEF Working
  <2> QED BY <1>1, <2>2, <2>3
<1>4. ASSUME NEW p \in Processes, RestEffect(p) PROVE Alone'
  <2>1. Others(p) /\ lock' = lock /\ flusher[p].pc = "next" /\ Active(p)
    BY <1>4 DEF RestEffect, Active
  <2>2. \A l \in Lanes : Owned(l)'
    BY <2>1, NoLock
  <2> QED BY <1>1, <1>2, <2>1, <2>2
<1>5. ASSUME NEW p \in Processes, NEW i \in Items, SkipEffect(p, i) PROVE FALSE
  <2>1. Lane[i] \in Lanes /\ Held(Lane[i]) /\ flusher[p].pc = "next"
    BY <1>5 DEF Lanes, SkipEffect
  <2> QED BY <2>1, NoLock DEF Held
<1>6. ASSUME NEW p \in Processes, NEW i \in Items, TakeEffect(p, i) PROVE Alone'
  <2>1. /\ Others(p) /\ flusher[p].pc = "next" /\ Active(p) /\ Lane[i] \in Lanes
        /\ \A k \in Lanes : lock'[k] = IF k = Lane[i] THEN {p} ELSE lock[k]
        /\ Working(p)' /\ LaneOf(p)' = Lane[i]
    BY <1>6 DEF TakeEffect, SetsLock, Active, Lanes, Working, LaneOf
  <2>2. ASSUME NEW l \in Lanes PROVE Owned(l)'
    <3>1. CASE l = Lane[i]
      BY <2>1, <3>1
    <3>2. CASE l # Lane[i]
      BY <2>1, <3>2, NoLock
    <3> QED BY <3>1, <3>2
  <2> QED BY <1>1, <1>2, <2>1, <2>2
<1>7. ASSUME NEW p \in Processes, Frees(p),
             LeaveEffect(p) \/ CleanEffect(p) \/ MarkEffect(p) \/ SettleEffect(p)
      PROVE  Alone'
  <2>1. Others(p) /\ Working(p) /\ Active(p)
    BY <1>7 DEF LeaveEffect, CleanEffect, MarkEffect, SettleEffect, Working, Active
  <2>2. ASSUME NEW l \in Lanes PROVE lock'[l] = {}
    BY <1>7, <2>1, OwnLock DEF Frees, SetsLock
  <2>3. \A l \in Lanes : Owned(l)'
    BY <2>2
  <2> QED BY <1>1, <1>2, <2>1, <2>3
<1>8. ASSUME NEW p \in Processes,
             \/ ReadEffect(p) \/ SendEffect(p) \/ AdvanceEffect(p) \/ RemoveEffect(p)
             \/ MarkEffect(p) /\ ~Frees(p)
      PROVE  Alone'
  <2>1. /\ Others(p) /\ Working(p) /\ Active(p) /\ lock' = lock
        /\ Working(p)' /\ flusher'[p].item = flusher[p].item
    BY <1>8 DEF ReadEffect, SendEffect, AdvanceEffect, RemoveEffect, MarkEffect, Working, Active
  <2>2. ASSUME NEW l \in Lanes PROVE Owned(l)'
    <3>1. CASE l = LaneOf(p)
      <4>1. lock[l] # {} => lock[l] = {p}
        BY <1>0, <2>1, <3>1 DEF One, Active, Working
      <4> QED BY <2>1, <3>1, <4>1 DEF LaneOf
    <3>2. CASE l # LaneOf(p)
      BY <2>1, <3>2, OwnLock
    <3> QED BY <3>1, <3>2
  <2> QED BY <1>1, <1>2, <2>1, <2>2
<1>9. ASSUME EnvEffect \/ \E i \in Items : QueueEffect(i) PROVE Alone'
  <2>1. UNCHANGED <<flusher, lock>>
    BY <1>9 DEF EnvEffect, QueueEffect
  <2> QED BY <1>0, <1>1, <2>1 DEF One, Active, Working, LaneOf
<1>10. \A p \in Processes : LeaveEffect(p) \/ CleanEffect(p) \/ SettleEffect(p) => Frees(p)
  BY DEF LeaveEffect, CleanEffect, SettleEffect
<1> QED BY <1>3, <1>4, <1>5, <1>6, <1>7, <1>8, <1>9, <1>10, QuietBefore DEF Effect

\* A process alone sends an item only when all of its session before it has
\* been accepted: whatever is still there would have stopped it.
LEMMA SentInOrder ==
  ASSUME TypeOK, NothingLost, Closed, Kept, NEW p \in Processes, Listed(p), SendEffect(p)
  PROVE  Before(flusher[p].item)
<1> DEFINE r == flusher[p]
           i == r.item
<1>1. /\ i \in files /\ ~Predecessor(p, i) /\ ~Stopping(p) /\ r.pc = "test"
  BY DEF SendEffect
<1>2. i \in Items /\ i \in queued
  BY <1>1, WorkingItem DEF Closed
<1> SUFFICES ASSUME NEW j \in queued, j < i, Lane[j] = Lane[i], j \notin server PROVE FALSE
  BY DEF Before
<1>3. j \in Nat /\ i \in Nat /\ j # None /\ j # i /\ j \in Items
  <2>1. j \in Items
    BY DEF TypeOK
  <2>2. j \in Nat \ {0} /\ i \in Nat
    BY <1>2, <2>1, ItemsAssumption
  <2> QED BY <2>1, <2>2 DEF None
<1>4. j \notin quarantine
  BY <1>1, <1>3 DEF Kept, Stopping, LaneOf
<1>5. j \in files
  BY <1>4 DEF NothingLost
<1>6. Kind[j] = Kind[i]
  BY <1>1, <1>5 DEF Predecessor
<1>7. i \in r.listed \ r.todo
  BY <1>1 DEF Listed
<1>8. j \in r.listed
  <2>1. r.mode \in {"flush", "reconcile"}
    BY DEF TypeOK, Flusher
  <2>2. r.mode = "flush" => j \in r.listed
    BY <1>5, <1>6, <1>7 DEF Listed
  <2>3. r.mode = "reconcile" => j \in r.listed
    BY <1>1, <1>5 DEF Predecessor
  <2> QED BY <2>1, <2>2, <2>3
<1>9. j \notin r.todo
  <2>1. j \in r.todo => i < j
    BY <1>7 DEF Listed
  <2> QED BY <1>3, <2>1
<1>10. Shut(p, j)
  BY <1>1, <1>3, <1>5, <1>8, <1>9 DEF Listed
<1>11. Lane[j] \notin r.blocked
  BY <1>1 DEF Stopping, LaneOf
<1>12. ~(marker[Lane[j]].file # None /\ marker[Lane[j]].file < j)
  <2>1. marker[Lane[j]].file \in {None, i}
    BY <1>1 DEF Stopping, LaneOf
  <2> QED BY <1>3, <2>1
<1>13. ASSUME NEW k \in files, Lane[k] = Lane[j], k < j
       PROVE  Kind[k] = Kind[j] /\ ~(r.mode = "reconcile" /\ k \notin r.listed)
  <2>1. k < i
    <3>1. k \in Nat
      BY ItemsAssumption DEF TypeOK
    <3> QED BY <1>3, <1>13, <3>1
  <2> QED BY <1>1, <1>6, <1>13, <2>1 DEF Predecessor
<1> QED BY <1>10, <1>11, <1>12, <1>13 DEF Shut

\* The parts of Listed.
Now(p) == IF flusher[p].pc = "next" THEN {} ELSE {flusher[p].item}
Left(p) == flusher[p].listed \ flusher[p].todo
Range1(p) ==
  /\ flusher[p].todo \subseteq flusher[p].listed /\ Now(p) \subseteq Left(p)
  /\ \A i \in flusher[p].todo, j \in Left(p) : j < i
  /\ \A i \in Now(p), j \in Left(p) : j <= i
  /\ \A i, j \in flusher[p].listed : Kind[i] = Kind[j]
Whole(p) ==
  flusher[p].mode = "flush" =>
    \A i \in flusher[p].listed : \A j \in files :
      j < i /\ Lane[j] = Lane[i] /\ Kind[j] = Kind[i] => j \in flusher[p].listed
Passed(p) == \A j \in Left(p) \ Now(p) : j \in files \ server => Shut(p, j)

\* Listed is made of these parts,
LEMMA ListedParts ==
  ASSUME NEW p \in Processes
  PROVE  Listed(p) <=> Range1(p) /\ Whole(p) /\ Passed(p)
BY DEF Listed, Range1, Whole, Passed, Now, Left
\* after a step as before it.
LEMMA ListedPartsNext ==
  ASSUME NEW p \in Processes
  PROVE  Listed(p)' <=> Range1(p)' /\ Whole(p)' /\ Passed(p)'
BY DEF Listed, Range1, Whole, Passed, Now, Left

\* The list of p stays as complete as it was.
LEMMA WholeKept ==
  ASSUME Closed, TypeOK, Effect, NEW p \in Processes, Whole(p),
         flusher'[p].listed = flusher[p].listed, flusher'[p].mode = flusher[p].mode
  PROVE  Whole(p)'
<1>1. flusher[p].listed \subseteq queued
  BY DEF Closed
<1>2. CASE files' \subseteq files
  BY <1>2 DEF Whole
<1>3. ASSUME NEW k \in Items, QueueEffect(k) PROVE Whole(p)'
  BY <1>1, <1>3 DEF Whole, QueueEffect, Closed
<1> QED BY <1>2, <1>3, Framed DEF Frame

\* What was left stays shut while p goes on.
LEMMA ShutKept ==
  ASSUME NEW p \in Processes, NEW j \in Items, Shut(p, j),
         flusher[p].blocked \subseteq flusher'[p].blocked,
         flusher'[p].mode = flusher[p].mode, flusher'[p].listed = flusher[p].listed,
         marker'[Lane[j]] = marker[Lane[j]]
           \/ ~(marker[Lane[j]].file # None /\ marker[Lane[j]].file < j),
         \A k \in files \ files' : ~(k < j)
  PROVE  Shut(p, j)'
BY DEF Shut

\* The list stays in order when an item is left.
LEMMA RangeLeft ==
  ASSUME NEW p \in Processes, Range1(p),
         flusher'[p].listed = flusher[p].listed, flusher'[p].todo = flusher[p].todo,
         Now(p)' \subseteq Now(p)
  PROVE  Range1(p)' /\ Left(p)' = Left(p)
BY DEF Range1, Left

\* A process alone goes through its list in order.
LEMMA ListedStep ==
  ASSUME TypeOK, RemovesConfirmed, Intact, Locked, Closed, MaySend, Alone, Orderly, Effect, Quiet',
         NEW p \in Processes, Active(p)'
  PROVE  Listed(p)'
<1> USE DEF Row, RowSame, RowIdle, Others, Sets, Done
<1> DEFINE f == flusher[p]
<1>0. /\ \A q \in Processes : Active(q) => q = p
      /\ Active(p) => Listed(p)
      /\ \A l \in Lanes : marker[l].file # None =>
           LET i == marker[l].file IN i \in queued /\ Lane[i] = l /\ Before(i)
  <2>1. \A q \in Processes : Active(q) => q = p
    <3>1. CASE Active(p)
      BY <3>1 DEF Alone, Active
    <3>2. CASE ~Active(p)
      <4>1. flusher'[p] # flusher[p] /\ flusher[p].pc = "idle"
        BY <3>2 DEF Active
      <4>2. ASSUME NEW k \in Processes, Others(k) PROVE k = p
        BY <4>1, <4>2
      <4>3. ~(EnvEffect \/ \E i \in Items : QueueEffect(i))
        BY <4>1 DEF EnvEffect, QueueEffect
      <4>4. ASSUME NEW k \in Processes,
                   \/ RestEffect(k) \/ ReadEffect(k) \/ LeaveEffect(k) \/ SendEffect(k)
                   \/ AdvanceEffect(k) \/ RemoveEffect(k) \/ CleanEffect(k) \/ MarkEffect(k)
                   \/ SettleEffect(k) \/ \E i \in Items : SkipEffect(k, i) \/ TakeEffect(k, i)
            PROVE  FALSE
        <5>1. Others(k) /\ flusher[k].pc # "idle"
          BY <4>4 DEF RestEffect, ReadEffect, LeaveEffect, SendEffect, AdvanceEffect, RemoveEffect,
               CleanEffect, MarkEffect, SettleEffect, SkipEffect, TakeEffect
        <5> QED BY <4>1, <4>2, <5>1
      <4>5. \E k \in Processes : BeginEffect(k)
        BY <4>3, <4>4, QuietBefore DEF Effect
      <4> QED BY <4>5, QuietBefore DEF Active
    <3> QED BY <3>1, <3>2
  <2> QED BY <2>1, QuietBefore DEF Orderly, Active
<1>1. Active(p) => Range1(p) /\ Whole(p) /\ Passed(p)
  BY <1>0, ListedParts
<1>2. /\ f.listed \subseteq Items /\ Items \subseteq Nat \ {0} /\ files \subseteq Items
      /\ \A j \in Items : j \in Nat
  BY ItemsAssumption DEF TypeOK, Flusher
<1>3. ASSUME Active(p), flusher'[p].listed = f.listed, flusher'[p].todo = f.todo,
             flusher'[p].mode = f.mode, f.blocked \subseteq flusher'[p].blocked,
             Now(p)' \subseteq Now(p),
             \A j \in Left(p) : marker'[Lane[j]] = marker[Lane[j]]
                \/ ~(marker[Lane[j]].file # None /\ marker[Lane[j]].file < j),
             \A j \in Left(p), k \in files \ files' : ~(k < j),
             \A j \in Left(p) : j \in files' => j \in files,
             server \subseteq server',
             \A j \in Now(p) \ Now(p)' : j \in files' \ server' => Shut(p, j)'
      PROVE  Listed(p)'
  <2>1. Range1(p)' /\ Left(p)' = Left(p)
    BY <1>1, <1>3, RangeLeft
  <2>2. Whole(p)'
    BY <1>1, <1>3, WholeKept
  <2>3. ASSUME NEW j \in Left(p) \ Now(p)', j \in files' \ server' PROVE Shut(p, j)'
    <3>1. CASE j \in Now(p)
      BY <1>3, <2>3, <3>1
    <3>2. CASE j \notin Now(p)
      <4>1. Shut(p, j)
        BY <1>1, <1>3, <2>3, <3>2 DEF Passed
      <4>2. j \in Items
        BY <1>2, <2>3 DEF Left
      <4> QED BY <1>3, <2>3, <4>1, <4>2, ShutKept
    <3> QED BY <3>1, <3>2
  <2>4. Passed(p)'
    BY <2>1, <2>3 DEF Passed
  <2> QED BY <2>1, <2>2, <2>4, ListedPartsNext
<1>4. CASE BeginEffect(p)
  <2>1. PICK list \in SUBSET files, kind \in Kinds :
          /\ flusher'[p].listed = list /\ flusher'[p].todo = list
          /\ \A i \in list : Kind[i] = kind
          /\ flusher'[p].mode = "flush" => \A i \in files : Kind[i] = kind => i \in list
    BY <1>4 DEF BeginEffect
  <2>2. flusher'[p].pc = "next" /\ files' = files
    BY <1>4 DEF BeginEffect
  <2>3. Left(p)' = {} /\ Now(p)' = {}
    BY <2>1, <2>2 DEF Left, Now
  <2>4. Range1(p)'
    BY <2>1, <2>3 DEF Range1
  <2>5. Whole(p)'
    BY <2>1, <2>2 DEF Whole
  <2>6. Passed(p)'
    BY <2>3 DEF Passed
  <2> QED BY <2>4, <2>5, <2>6, ListedPartsNext
<1>5. ASSUME NEW q \in Processes, q # p PROVE ~Active(q) /\ ~BeginEffect(q)
  <2>1. ~Active(q)
    BY <1>0, <1>5
  <2>2. ASSUME BeginEffect(q) PROVE FALSE
    <3>1. flusher'[p] = flusher[p] /\ flusher[p].pc = "idle"
      BY <1>5, <2>2, QuietBefore DEF BeginEffect
    <3> QED BY <3>1 DEF Active
  <2> QED BY <2>1, <2>2
<1>6. ~RestEffect(p)
  BY DEF RestEffect, Active
<1>7. ASSUME NEW i \in Items PROVE ~SkipEffect(p, i)
  <2>1. SkipEffect(p, i) => flusher[p].pc = "next" /\ Lane[i] \in Lanes /\ Held(Lane[i])
    BY DEF SkipEffect, Lanes
  <2> QED BY <2>1, NoLock DEF Held
<1>8. ASSUME NEW i \in Items, TakeEffect(p, i) PROVE Listed(p)'
  <2>1. /\ flusher[p].pc = "next" /\ Active(p) /\ i \in f.todo /\ \A j \in f.todo : i <= j
        /\ flusher'[p].pc = "check" /\ flusher'[p].item = i /\ flusher'[p].todo = f.todo \ {i}
        /\ flusher'[p].blocked = f.blocked /\ flusher'[p].listed = f.listed
        /\ flusher'[p].mode = f.mode
        /\ UNCHANGED <<files, server, marker>>
    BY <1>8 DEF TakeEffect, Active, First
  <2>2. Now(p) = {} /\ Now(p)' = {i} /\ f.todo \subseteq f.listed
    BY <1>1, <2>1 DEF Now, Range1
  <2>3. Left(p)' = Left(p) \cup {i}
    BY <2>1, <2>2 DEF Left
  <2>4. ASSUME NEW a \in f.todo \ {i} PROVE i < a
    <3>1. a \in Items /\ i <= a /\ a # i
      BY <1>2, <2>1, <2>2
    <3>2. a \in Nat /\ i \in Nat
      BY <1>2, <3>1
    <3> QED BY <3>1, <3>2
  <2>5. Range1(p)'
    <3>1. f.todo \ {i} \subseteq f.listed /\ Now(p)' \subseteq Left(p)'
      BY <2>2, <2>3
    <3>2. \A a \in f.todo \ {i}, j \in Left(p) \cup {i} : j < a
      BY <1>1, <2>1, <2>4 DEF Range1
    <3>3. ASSUME NEW j \in Left(p) \cup {i} PROVE j <= i
      <4>1. j \in Items /\ j \in Nat /\ i \in Nat
        BY <1>2 DEF Left
      <4>2. j # i => j < i
        BY <1>1, <2>1 DEF Range1
      <4> QED BY <4>1, <4>2
    <3>4. \A a, j \in f.listed : Kind[a] = Kind[j]
      BY <1>1, <2>1 DEF Range1
    <3> QED BY <2>1, <2>2, <2>3, <3>1, <3>2, <3>3, <3>4 DEF Range1
  <2>6. Whole(p)'
    BY <1>1, <2>1, WholeKept
  <2>7. ASSUME NEW j \in Left(p) \ {i}, j \in files \ server PROVE Shut(p, j)'
    <3>1. Shut(p, j) /\ j \in Items
      BY <1>1, <1>2, <2>1, <2>2, <2>7 DEF Passed, Left
    <3> QED BY <2>1, <3>1, ShutKept
  <2>8. Passed(p)'
    BY <2>1, <2>2, <2>3, <2>7 DEF Passed
  <2> QED BY <2>5, <2>6, <2>8, ListedPartsNext
<1>9. CASE LeaveEffect(p)
  <2>1. PICK b : /\ b \in {f.blocked, f.blocked \cup {LaneOf(p)}}
                 /\ Row(p, "next", f.item, f.todo, b)
                 /\ \/ f.item \notin files \/ LaneOf(p) \in b
                    \/ Predecessor(p, f.item) \/ Stopping(p)
    BY <1>9 DEF LeaveEffect
  <2>2. /\ f.pc \in {"check", "test"} /\ Active(p) /\ UNCHANGED <<files, server, marker>>
    BY <1>9 DEF LeaveEffect, Active
  <2>3. Now(p) = {f.item} /\ Now(p)' = {}
    BY <2>1, <2>2 DEF Now
  <2>4. ASSUME NEW i, i = f.item, i \in files \ server PROVE Shut(p, i)'
    <3>0. i \in Items /\ i \in queued
      BY <1>2, <2>4 DEF Closed
    <3>1. CASE LaneOf(p) \in b
      BY <2>1, <2>4, <3>1 DEF Shut, LaneOf
    <3>2. CASE Predecessor(p, f.item)
      BY <2>1, <2>2, <2>4, <3>2 DEF Shut, Predecessor
    <3>3. CASE Stopping(p) /\ LaneOf(p) \notin b
      <4>1. marker[Lane[i]].file \notin {None, i} /\ Lane[i] \in Lanes
        BY <2>1, <2>4, <3>0, <3>3 DEF Stopping, LaneOf, Lanes
      <4> DEFINE k == marker[Lane[i]].file
      <4>2. k \in queued /\ Lane[k] = Lane[i] /\ Before(k) /\ k \in Nat /\ i \in Nat
        <5>1. k \in queued /\ Lane[k] = Lane[i] /\ Before(k)
          BY <1>0, <4>1
        <5>2. k \in Items
          BY <5>1 DEF TypeOK
        <5> QED BY <1>2, <3>0, <5>1, <5>2
      <4>3. ~(i < k)
        BY <2>4, <3>0, <4>2 DEF Before
      <4>4. k < i
        BY <4>1, <4>2, <4>3
      <4> QED BY <2>2, <3>0, <4>1, <4>4 DEF Shut
    <3> QED BY <2>1, <2>4, <3>1, <3>2, <3>3
  <2> QED BY <1>3, <2>1, <2>2, <2>3, <2>4
<1>10. CASE ReadEffect(p) \/ SendEffect(p) \/ AdvanceEffect(p)
  <2>1. /\ Active(p) /\ UNCHANGED <<files, marker>> /\ server \subseteq server'
        /\ flusher'[p].item = f.item /\ f.pc # "next" /\ flusher'[p].pc # "next"
        /\ flusher'[p].todo = f.todo /\ flusher'[p].blocked = f.blocked
        /\ flusher'[p].listed = f.listed /\ flusher'[p].mode = f.mode
    BY <1>10 DEF ReadEffect, SendEffect, AdvanceEffect, Active
  <2>2. Now(p)' = Now(p)
    BY <2>1 DEF Now
  <2> QED BY <1>3, <2>1, <2>2
\* What p is at is the last of what it has left.
<1>11. Working(p) => \A j \in Left(p) : ~(f.item < j)
  <2> SUFFICES ASSUME Working(p), NEW j \in Left(p) PROVE ~(f.item < j)
    OBVIOUS
  <2>1. f.item \in Now(p) /\ f.item \in Items /\ j \in Items
    BY <1>2, WorkingItem DEF Working, Now, Left
  <2>2. j <= f.item
    BY <1>1, <2>1 DEF Range1, Working, Active
  <2>3. j \in Nat /\ f.item \in Nat
    BY <1>2, <2>1
  <2> QED BY <2>2, <2>3
<1>12. Sends(p) => \A j \in Left(p) :
         Lane[j] = LaneOf(p) => ~(marker[Lane[j]].file # None /\ marker[Lane[j]].file < j)
  BY <1>11 DEF MaySend, LaneOf, Sends, Sending, Working
<1>13. CASE RemoveEffect(p)
  <2>1. /\ Active(p) /\ Working(p) /\ files' = files \ {f.item} /\ UNCHANGED <<marker, server>>
        /\ flusher'[p].item = f.item /\ f.pc # "next" /\ flusher'[p].pc # "next"
        /\ flusher'[p].todo = f.todo /\ flusher'[p].blocked = f.blocked
        /\ flusher'[p].listed = f.listed /\ flusher'[p].mode = f.mode
    BY <1>13 DEF RemoveEffect, Active, Working
  <2>2. Now(p)' = Now(p)
    BY <2>1 DEF Now
  <2>3. \A j \in Left(p), k \in files \ files' : ~(k < j)
    BY <1>11, <2>1
  <2> QED BY <1>3, <2>1, <2>2, <2>3
<1>14. ASSUME CleanEffect(p) \/ MarkEffect(p) \/ SettleEffect(p) PROVE Listed(p)'
  <2>1. /\ Active(p) /\ Working(p) /\ Sends(p) /\ server' = server
        /\ flusher'[p].pc \in {"next", "settle"} /\ flusher'[p].item = f.item
        /\ flusher'[p].todo = f.todo /\ f.blocked \subseteq flusher'[p].blocked
        /\ flusher'[p].listed = f.listed /\ flusher'[p].mode = f.mode
        /\ \A l \in Lanes : l # LaneOf(p) => marker'[l] = marker[l]
    BY <1>14 DEF CleanEffect, MarkEffect, SettleEffect, Active, Working, Sends, Sending
  <2>2. files \ files' \subseteq {f.item} /\ files' \subseteq files
    <3>1. CASE SettleEffect(p)
      BY <3>1 DEF SettleEffect
    <3>2. CASE CleanEffect(p) \/ MarkEffect(p)
      BY <3>2 DEF CleanEffect, MarkEffect
    <3> QED BY <1>14, <3>1, <3>2
  <2>3. Now(p)' \subseteq Now(p) /\ Now(p) = {f.item}
    BY <2>1 DEF Now, Working
  <2>4. \A j \in Left(p), k \in files \ files' : ~(k < j)
    BY <1>11, <2>1, <2>2
  <2>5. ASSUME NEW j \in Left(p)
        PROVE  marker'[Lane[j]] = marker[Lane[j]]
                 \/ ~(marker[Lane[j]].file # None /\ marker[Lane[j]].file < j)
    <3>1. Lane[j] \in Lanes
      BY <1>2 DEF Left, Lanes
    <3> QED BY <1>12, <2>1, <3>1
  <2>6. ASSUME NEW i \in Now(p) \ Now(p)', i \in files' \ server' PROVE Shut(p, i)'
    <3>1. i = f.item /\ flusher'[p].pc = "next"
      BY <2>1, <2>3, <2>6 DEF Now
    <3>2. CASE CleanEffect(p)
      BY <2>6, <3>1, <3>2 DEF CleanEffect, RemovesConfirmed
    <3>3. CASE MarkEffect(p) \/ SettleEffect(p)
      <4>1. LaneOf(p) \in flusher'[p].blocked
        BY <3>1, <3>3 DEF MarkEffect, SettleEffect
      <4> QED BY <3>1, <4>1 DEF Shut, LaneOf
    <3> QED BY <1>14, <3>2, <3>3
  <2> QED BY <1>3, <2>1, <2>2, <2>3, <2>4, <2>5, <2>6
<1>15. CASE EnvEffect \/ \E i \in Items : QueueEffect(i)
  <2>1. /\ UNCHANGED <<flusher, marker, server>> /\ Active(p)
        /\ \A i \in files' \ files : i \notin queued
        /\ files \subseteq files'
    BY <1>15 DEF EnvEffect, QueueEffect, Active
  <2>2. Left(p) \subseteq queued
    BY DEF Closed, Left
  <2>3. Now(p)' = Now(p)
    BY <2>1 DEF Now
  <2> QED BY <1>3, <2>1, <2>2, <2>3
<1>16. ASSUME NEW q \in Processes, q # p,
              \/ BeginEffect(q) \/ RestEffect(q) \/ ReadEffect(q) \/ LeaveEffect(q)
              \/ SendEffect(q) \/ AdvanceEffect(q) \/ RemoveEffect(q) \/ CleanEffect(q)
              \/ MarkEffect(q) \/ SettleEffect(q) \/ \E i \in Items : SkipEffect(q, i) \/ TakeEffect(q, i)
       PROVE  FALSE
  BY <1>5, <1>16
     DEF RestEffect, ReadEffect, LeaveEffect, SendEffect, AdvanceEffect, RemoveEffect,
         CleanEffect, MarkEffect, SettleEffect, SkipEffect, TakeEffect, Active
<1> QED BY <1>4, <1>6, <1>7, <1>8, <1>9, <1>10, <1>13, <1>14, <1>15, <1>16, QuietBefore DEF Effect

\* Without overlap and kills a session stays in order.
LEMMA OrderlyStep ==
  ASSUME TypeOK, RemovesConfirmed, NothingLost, Intact, Locked, Closed, Kept, MaySend, Orderly,
         Effect
  PROVE  Orderly'
<1> USE DEF Row, RowSame, RowIdle, Others, Sets, Done
<1> SUFFICES ASSUME Quiet'
             PROVE  /\ Alone'
                    /\ \A i \in server' : Before(i)'
                    /\ \A l \in Lanes : marker'[l].file # None =>
                         /\ marker'[l].file \in queued' /\ Lane[marker'[l].file] = l
                         /\ \A j \in queued' : j < marker'[l].file /\ Lane[j] = l => j \in server'
                    /\ \A p \in Processes : Sends(p)' =>
                         \A j \in queued' : j < flusher'[p].item /\ Lane[j] = Lane[flusher'[p].item]
                                            => j \in server'
                    /\ \A p \in Processes : flusher'[p].pc # "idle" => Listed(p)'
  BY DEF Orderly, Before
<1>1. /\ Quiet /\ Alone
      /\ \A i \in server : Before(i)
      /\ \A l \in Lanes : marker[l].file # None =>
           /\ marker[l].file \in queued /\ Lane[marker[l].file] = l /\ Before(marker[l].file)
      /\ \A p \in Processes : Sends(p) => flusher[p].item \in queued /\ Before(flusher[p].item)
      /\ \A p \in Processes : flusher[p].pc # "idle" => Listed(p)
  BY QuietBefore DEF Orderly, Closed, Sends, Sending
<1>2. Alone'
  BY <1>1, AloneStep
<1>3. \A i \in queued : Before(i) =>
        /\ i \in queued'
        /\ \A j \in queued' : j < i /\ Lane[j] = Lane[i] => j \in server'
  <2>1. queued \subseteq queued'
    BY Framed DEF Frame
  <2>2. ASSUME NEW i \in queued, Before(i) PROVE Before(i)'
    BY <2>2, BeforeKept
  <2> QED BY <2>1, <2>2 DEF Before
<1>4. \A i \in server' : Before(i)'
  <2>1. ASSUME NEW i \in server' PROVE i \in queued /\ Before(i)
    <3>1. CASE i \in server
      BY <1>1, <3>1 DEF Closed
    <3>2. CASE i \notin server
      <4>1. PICK p \in Processes : AdvanceEffect(p) /\ i = flusher[p].item
        BY <2>1, <3>2, Framed DEF Frame
      <4> QED BY <1>1, <4>1 DEF AdvanceEffect, Sends, Sending
    <3> QED BY <3>1, <3>2
  <2> QED BY <1>3, <2>1 DEF Before
<1>5. ASSUME NEW l \in Lanes, marker'[l].file # None
      PROVE  /\ marker'[l].file \in queued' /\ Lane[marker'[l].file] = l
             /\ \A j \in queued' : j < marker'[l].file /\ Lane[j] = l => j \in server'
  <2>1. \E i \in queued : marker'[l].file = i /\ Lane[i] = l /\ Before(i)
    <3>1. CASE marker'[l] = marker[l]
      BY <1>1, <1>5, <3>1
    <3>2. CASE marker'[l] # marker[l]
      <4>1. PICK p \in Processes : CleanEffect(p) \/ MarkEffect(p)
        BY <3>2, Framed DEF Frame
      <4>2. MarkEffect(p) /\ l = LaneOf(p)
        BY <1>5, <3>2, <4>1 DEF CleanEffect, MarkEffect, NoMarker
      <4>3. marker'[l].file = flusher[p].item /\ Sends(p)
        BY <4>2 DEF MarkEffect, Sends, Sending
      <4> QED BY <1>1, <4>2, <4>3 DEF LaneOf
    <3> QED BY <3>1, <3>2
  <2>2. PICK i \in queued : marker'[l].file = i /\ Lane[i] = l /\ Before(i)
    BY <2>1
  <2> QED BY <1>3, <2>2
<1>6. ASSUME NEW p \in Processes, Sends(p)'
      PROVE  \A j \in queued' : j < flusher'[p].item /\ Lane[j] = Lane[flusher'[p].item]
                                => j \in server'
  <2>1. \E i \in queued : flusher'[p].item = i /\ Before(i)
    <3>1. CASE Sends(p)
      <4>1. flusher'[p].item = flusher[p].item
        <5>1. CASE EnvEffect \/ \E i \in Items : QueueEffect(i)
          BY <5>1 DEF EnvEffect, QueueEffect
        <5>2. ASSUME NEW k \in Processes, \/ BeginEffect(k) \/ RestEffect(k) \/ ReadEffect(k)
                                          \/ LeaveEffect(k)
                                          \/ \E i \in Items : SkipEffect(k, i) \/ TakeEffect(k, i)
              PROVE  flusher'[p].item = flusher[p].item
          BY <1>6, <3>1, <5>2 DEF BeginEffect, RestEffect, ReadEffect, LeaveEffect, SkipEffect, TakeEffect,
               Sends, Sending
        <5>3. ASSUME NEW k \in Processes, SendEffect(k) \/ AdvanceEffect(k) \/ RemoveEffect(k)
              PROVE  flusher'[p].item = flusher[p].item
          BY <5>3 DEF SendEffect, AdvanceEffect, RemoveEffect
        <5>4. ASSUME NEW k \in Processes, CleanEffect(k) \/ MarkEffect(k) \/ SettleEffect(k)
              PROVE  flusher'[p].item = flusher[p].item
          BY <1>6, <3>1, <5>4 DEF CleanEffect, MarkEffect, SettleEffect, Sends, Sending
        <5> QED BY <5>1, <5>2, <5>3, <5>4, QuietBefore DEF Effect
      <4> QED BY <1>1, <3>1, <4>1
    <3>2. CASE ~Sends(p)
      <4>1. SendEffect(p)
        <5>1. ASSUME NEW k \in Processes, Others(k) PROVE k = p
          BY <1>6, <3>2, <5>1 DEF Sends
        <5>2. ~(EnvEffect \/ \E i \in Items : QueueEffect(i))
          BY <1>6, <3>2 DEF EnvEffect, QueueEffect, Sends
        <5>3. ~(\/ BeginEffect(p) \/ RestEffect(p) \/ ReadEffect(p) \/ LeaveEffect(p)
                \/ AdvanceEffect(p) \/ RemoveEffect(p) \/ CleanEffect(p) \/ MarkEffect(p)
                \/ SettleEffect(p) \/ \E i \in Items : SkipEffect(p, i) \/ TakeEffect(p, i))
          BY <1>6, <3>2 DEF BeginEffect, RestEffect, ReadEffect, LeaveEffect, AdvanceEffect,
               RemoveEffect, CleanEffect, MarkEffect, SettleEffect, SkipEffect, TakeEffect,
               Sends, Sending
        <5>4. ASSUME NEW k \in Processes, k # p,
                     \/ BeginEffect(k) \/ RestEffect(k) \/ ReadEffect(k) \/ LeaveEffect(k)
                     \/ SendEffect(k) \/ AdvanceEffect(k) \/ RemoveEffect(k) \/ CleanEffect(k)
                     \/ MarkEffect(k) \/ SettleEffect(k) \/ \E i \in Items : SkipEffect(k, i) \/ TakeEffect(k, i)
              PROVE  FALSE
          <6>1. Others(k)
            BY <5>4 DEF BeginEffect, RestEffect, ReadEffect, LeaveEffect, SendEffect, AdvanceEffect,
                 RemoveEffect, CleanEffect, MarkEffect, SettleEffect, SkipEffect, TakeEffect
          <6> QED BY <5>1, <5>4, <6>1
        <5> QED BY <5>2, <5>3, <5>4, QuietBefore DEF Effect
      <4>2. Listed(p) /\ flusher'[p].item = flusher[p].item /\ flusher[p].pc = "test"
        BY <1>1, <4>1 DEF SendEffect
      <4>3. flusher[p].item \in queued /\ Before(flusher[p].item)
        BY <4>1, <4>2, SentInOrder DEF Closed
      <4> QED BY <4>2, <4>3
    <3> QED BY <3>1, <3>2
  <2>2. PICK i \in queued : flusher'[p].item = i /\ Before(i)
    BY <2>1
  <2> QED BY <1>3, <2>2
<1>7. \A p \in Processes : flusher'[p].pc # "idle" => Listed(p)'
  BY <1>1, ListedStep DEF Active
<1> QED BY <1>2, <1>4, <1>5, <1>6, <1>7

OutboxInv ==
  /\ TypeOK /\ RemovesConfirmed /\ NothingLost /\ Intact /\ Unshared
  /\ shared = "no" => CrossKept
  /\ MismatchRecorded /\ Orderly

\* The history of shared lanes and the count of kills only grow.
LEMMA HistoryKept ==
  ASSUME TypeOK, [Next]_vars
  PROVE  /\ shared' = "no" => shared = "no"
         /\ crashes' = 0 => crashes = 0
<1> USE DEF disk, remote, history, TypeOK
<1>1. ASSUME NEW p \in Processes, Step(p) 
      PROVE  (shared' = "yes" \/ shared' = shared) /\ crashes' = crashes
  BY <1>1 DEF Step, End, Take, Reap, Gone, Read, Gap, Vanished, Hold, Send, Answer, Accept,
              Unpause, Remove, Clean, Fail, Mark, Settle
<1>2. ASSUME NEW p \in Processes, Crash(p) \/ Stall(p)
      PROVE  shared' = shared /\ crashes' = crashes + 1
  BY <1>2 DEF Crash, Stall
<1>3. CASE ~\E p \in Processes : Step(p) \/ Crash(p) \/ Stall(p)
  BY <1>3 DEF Next, TimeIsUp, Reconcile, Flush, Begin, Queue, Due, Repair, Revoke, NewCredential,
              vars
<1> QED BY <1>1, <1>2, <1>3

\* The inductive invariant behind the theorems on order.
LEMMA OutboxInvariant == Spec => []OutboxInv
<1>1. Init => OutboxInv
  <2> SUFFICES ASSUME Init PROVE OutboxInv
    OBVIOUS
  <2>1. TypeOK /\ NothingLost
    BY InitKept
  <2>2. \A p \in Processes :
          flusher[p].pc = "idle" /\ flusher[p].todo = {} /\ flusher[p].listed = {}
    BY DEF Init, Idle
  <2>3. RemovesConfirmed /\ Locked /\ ReadCurrent /\ MaySend
    BY <2>2 DEF RemovesConfirmed, Locked, Working, ReadCurrent, MaySend, Sends, Sending
  <2>4. Closed /\ Kept /\ CrossKept
    BY <2>2 DEF Init, Closed, Kept, CrossKept
  <2>5. \A l \in Lanes : marker[l].file = None /\ lock[l] = {}
    BY DEF Init, NoMarker
  <2>6. MismatchRecorded
    <3>1. \A i \in Items : Lane[i] \in Lanes /\ i # None
      BY ItemsAssumption DEF Lanes, None
    <3> QED BY <2>2, <2>5, <3>1 DEF MismatchRecorded, Mismatched
  <2>7. Orderly
    BY <2>2, <2>5 DEF Init, Orderly, Alone, Sends, Sending
  <2>8. Intact
    BY <2>2, <2>5 DEF Init, Intact
  <2> QED BY <2>1, <2>3, <2>4, <2>6, <2>7, <2>8 DEF OutboxInv, Unshared
<1>2. OutboxInv /\ [Next]_vars => OutboxInv'
  <2> SUFFICES ASSUME OutboxInv, [Next]_vars PROVE OutboxInv'
    OBVIOUS
  <2>0. TypeOK /\ RemovesConfirmed /\ NothingLost /\ Intact /\ Unshared /\ MismatchRecorded /\ Orderly
    BY DEF OutboxInv
  <2>1. TypeOK' /\ RemovesConfirmed' /\ NothingLost' /\ Intact'
    BY <2>0, NextKept, IntactStep
  <2>2. CASE shared' = "yes"
    <3>1. shared' # "no" /\ crashes' # 0
      BY <2>1, <2>2 DEF Intact
    <3> QED BY <2>1, <3>1 DEF OutboxInv, Unshared, MismatchRecorded, Orderly, Quiet
  <2>3. CASE shared' = "no"
    <3>1. /\ Locked /\ ReadCurrent /\ Closed /\ Kept /\ MaySend /\ CrossKept
          /\ crashes' = 0 => crashes = 0
      BY <2>0, <2>3, HistoryKept DEF OutboxInv, Unshared
    <3>2. Effect
      BY <2>0, <2>3, <3>1, Effects
    <3>3. Locked' /\ ReadCurrent' /\ Closed' /\ Kept' /\ MaySend' /\ CrossKept'
      BY <2>0, <3>1, <3>2, LockedStep, ReadCurrentStep, ClosedStep, KeptStep, MaySendStep, CrossStep
    <3>4. MismatchRecorded'
      <4>1. CASE crashes' = 0
        BY <2>0, <3>1, <3>2, <4>1, MismatchStep
      <4>2. CASE crashes' # 0
        BY <4>2 DEF MismatchRecorded
      <4> QED BY <4>1, <4>2
    <3>5. Orderly'
      BY <2>0, <3>1, <3>2, OrderlyStep
    <3> QED BY <2>1, <3>3, <3>4, <3>5 DEF OutboxInv, Unshared
  <2> QED BY <2>1, <2>2, <2>3 DEF TypeOK
<1> QED BY <1>1, <1>2, PTL DEF Spec

\* As long as no lane has had two holders, which takes a kill or a stall, the
\* server sees the items of different queues of a session in their order, also
\* when flushes overlap or are killed, and those of one queue until two flushes
\* overlap or one is killed (flushQueue, its predecessors, lane locks and lane
\* markers).
THEOREM SessionsInOrder == Spec => []OrderKept
<1>1. OutboxInv => OrderKept
  BY DEF OutboxInv, OrderKept, CrossKept, Ahead, Orderly, Before
<1> QED BY <1>1, OutboxInvariant, PTL

\* As long as no process is killed, an item whose answer did not match is only
\* sent again by an explicit reconciliation (flushQueue's canReconcile).
THEOREM MismatchesHeld == Spec => MismatchHeld
<1>1. OutboxInv /\ [Next]_vars => [MismatchAct]_vars
  <2> SUFFICES ASSUME OutboxInv, Next, crashes = 0 PROVE MismatchAct
    BY DEF MismatchAct
  <2>1. shared = "no"
    BY DEF OutboxInv, Intact
  <2> QED BY <2>1, MismatchSent DEF OutboxInv, Unshared
<1>2. Spec => [][MismatchAct]_vars
  BY <1>1, OutboxInvariant, PTL DEF Spec
<1> QED BY <1>2 DEF MismatchHeld, MismatchAct

==============================================================================
