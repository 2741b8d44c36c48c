--------------------------- MODULE DeliveryTypes ------------------------------
(***************************************************************************)
(* The state of a Resume, its server and its hosts keeps its shape, for    *)
(* every set of hosts and calls and every bound.                           *)
(*                                                                         *)
(* The shapes of what the actions write come first, then one lemma for     *)
(* each kind of step.                                                      *)
(***************************************************************************)
EXTENDS Delivery, TLAPS

\* Records and calls keep their shape.
LEMMA RecShapes ==
  ASSUME TypeOK, NEW r \in Rec
  PROVE  /\ Claimed(r) \in Rec
         /\ Claimed([r EXCEPT !.kind = "receipt"]) \in Rec
         /\ \A yes \in {"yes", "no"} : /\ [r EXCEPT !.returned = yes] \in Rec
                                       /\ [r EXCEPT !.armed = yes] \in Rec
                                       /\ [r EXCEPT !.fresh = yes] \in Rec
         /\ \A st \in {"none", "pending", "in_flight", "delivered", "cancelled"} :
              [r EXCEPT !.status = st] \in Rec
         /\ Sending(r) \in Call
         /\ Now(r) \in Nat
<1>1. Now(r) \in Nat /\ Now([r EXCEPT !.kind = "receipt"]) \in Nat
  BY DEF TypeOK, ServerTypeOK, Now, Rec
<1>2. Sending(r) \in Call
  BY DEF Sending, Call, Rec
<1> QED BY <1>1, <1>2 DEF Claimed, Rec, Kinds

\* A record that is renewed or retried within its bound stays in shape.
LEMMA NewShapes ==
  ASSUME TypeOK, NEW h \in Hosts
  PROVE  /\ rec[h] \in Rec
         /\ Renewable(h) => Retry(h) \in Rec
         /\ Renewable(h) => [Retry(h) EXCEPT !.status = "cancelled"] \in Rec
         /\ Renewable(h) => [Retry(h) EXCEPT !.status = "pending"] \in Rec
         /\ \A source \in {"agent", "console"}, kind \in Kinds, armed \in {"yes", "no"} :
              rec[h].status = "none" \/ Renewable(h) => NewRec(h, source, kind, armed) \in Rec
         /\ Finished(h) \in Rec
<1>1. rec[h] \in Rec /\ rec[h].n \in 1..MaxTries
  BY DEF TypeOK, CallsTypeOK, Rec
<1>2. Renewable(h) => rec[h].n + 1 \in 1..MaxTries
  BY <1>1, ServerAssumption DEF Renewable
<1>3. Renewable(h) => Retry(h) \in Rec
  BY <1>1, <1>2 DEF Retry, Rec
<1>4. ASSUME NEW source \in {"agent", "console"}, NEW kind \in Kinds, NEW armed \in {"yes", "no"},
             rec[h].status = "none" \/ Renewable(h)
      PROVE  NewRec(h, source, kind, armed) \in Rec
  <2>1. (IF rec[h].status = "none" THEN 1 ELSE rec[h].n + 1) \in 1..MaxTries
    BY <1>2, <1>4, ServerAssumption
  <2> QED BY <2>1 DEF NewRec, NoRec, Rec, Kinds
<1>5. Finished(h) \in Rec
  BY <1>1 DEF Finished, Rec
<1>6. Renewable(h) => /\ [Retry(h) EXCEPT !.status = "cancelled"] \in Rec
                      /\ [Retry(h) EXCEPT !.status = "pending"] \in Rec
  BY <1>3 DEF Rec
<1> QED BY <1>1, <1>3, <1>4, <1>5, <1>6

\* So do calls that end or start to wait.
LEMMA CallShapes ==
  /\ Idle \in Call
  /\ \A pc \in {"pull", "stop"} : Waiting(pc) \in Call
BY ServerAssumption DEF Idle, Waiting, Call, Codes

\* What is sent has the shape of a row.
LEMMA MessageShapes ==
  ASSUME TypeOK
  PROVE  /\ \A c \in Calls, kind \in Kinds : Declaration(c, kind) \in Row
         /\ \A h \in Hosts, phase \in Phases : Event(h, phase) \in Row
<1>1. ASSUME NEW c \in Calls, NEW kind \in Kinds PROVE Declaration(c, kind) \in Row
  <2>1. HostOf[c] \in Hosts /\ call[c].n \in 1..MaxTries /\ call[c].at \in Nat
    BY CallsAssumption DEF TypeOK, CallsTypeOK, Call
  <2> QED BY <2>1 DEF Declaration, Row, Attempts, Phases
<1>2. ASSUME NEW h \in Hosts, NEW phase \in Phases PROVE Event(h, phase) \in Row
  <2>1. rec[h] \in Rec /\ Now(rec[h]) \in Nat
    BY RecShapes DEF TypeOK, CallsTypeOK
  <2> QED BY <2>1 DEF Event, Row, Attempts, Rec
<1> QED BY <1>1, <1>2

\* Every request is answered with a code.
LEMMA VerdictCodes ==
  ASSUME NEW m PROVE Verdict(m) \in Codes
<1>1. AssertReceipt(m) \in Codes \cup {"none"}
  BY DEF AssertReceipt, Codes
<1> QED BY <1>1 DEF Verdict, Codes

\* The tables hold rows whatever is recorded.
LEMMA RecordShapes ==
  ASSUME TypeOK, NEW m \in Row, Record(m) PROVE rows' \subseteq Row
BY DEF Record, TypeOK, ServerTypeOK

\* Ticks and gifts
LEMMA TickShapes ==
  ASSUME TypeOK, NEW r, Tick(r) PROVE clock' \in Nat
BY DEF Tick, TypeOK, ServerTypeOK

\* The counters of hand-overs stay between 0 and 2.
LEMMA GiveShapes ==
  ASSUME TypeOK, NEW kind \in Kinds, NEW id \in Attempts, Give(kind, id)
  PROVE  given' \in [Kinds -> [Attempts -> 0..2]]
<1> DEFINE was == given[kind][id]
           new == IF was < 2 THEN was + 1 ELSE 2
<1>1. given \in [Kinds -> [Attempts -> 0..2]]
  BY DEF TypeOK, CallsTypeOK
<1>2. was \in 0..2
  BY <1>1
<1>3. new \in 0..2
  BY <1>2
<1>4. given' = [given EXCEPT ![kind] = [given[kind] EXCEPT ![id] = new]]
  BY <1>1 DEF Give
<1> HIDE DEF new
<1>5. [given[kind] EXCEPT ![id] = new] \in [Attempts -> 0..2]
  BY <1>1, <1>3
<1> QED BY <1>1, <1>4, <1>5

-----------------------------------------------------------------------------
(* Steps keep the shape of the state *)

\* The answer, the lost answer and the pull of a call.
LEMMA AnswerTypes ==
  ASSUME TypeOK, NEW c \in Calls, NEW kind \in Kinds, UNCHANGED <<codexVars, party>>,
         Answer(c, kind) \/ Lose(c, kind) \/ Pulled(c)
  PROVE  TypeOK'
<1> DEFINE r == call'[c]
<1>0. /\ Declaration(c, kind) \in Row /\ call[c] \in Call
      /\ call \in [Calls -> Call]
  BY MessageShapes DEF TypeOK, CallsTypeOK
<1>1. CASE Answer(c, kind)
  <2>1. Verdict(Declaration(c, kind)) \in Codes /\ "not_latest" \notin Codes
    BY VerdictCodes DEF Codes
  <2>2. PICK answer \in Codes \cup {"not_latest"} :
          /\ CallIs(c, [call[c] EXCEPT !.pc = "answered", !.answer = answer])
          /\ Record(Declaration(c, kind))
          /\ UNCHANGED <<resume, handoff, clock, events, rec, scope, outbox, network, given, faults>>
    BY <1>1, <2>1 DEF Answer
  <2>3. [call[c] EXCEPT !.pc = "answered", !.answer = answer] \in Call
    BY <1>0 DEF Call
  <2>4. call' \in [Calls -> Call]
    BY <1>0, <2>2, <2>3 DEF CallIs
  <2>5. rows' \subseteq Row
    BY <1>0, <2>2, RecordShapes
  <2> QED BY <2>2, <2>4, <2>5 DEF TypeOK, ServerTypeOK, CallsTypeOK, CodexTypeOK, codexVars
<1>2. CASE Lose(c, kind)
  <2>1. [call[c] EXCEPT !.pc = "answered", !.answer = "lost"] \in Call
    BY <1>0 DEF Call
  <2>2. call' \in [Calls -> Call]
    BY <1>0, <1>2, <2>1 DEF Lose, CallIs
  <2>3. network' \subseteq Message /\ faults' \in 0..MaxFaults
    BY <1>0, <1>2, CallsAssumption DEF Lose, Message, TypeOK, CallsTypeOK
  <2> QED BY <1>2, <2>2, <2>3 DEF Lose, TypeOK, ServerTypeOK, CallsTypeOK, CodexTypeOK, codexVars, serverVars, server
<1>3. CASE Pulled(c)
  <2>1. \A answer \in {"packet", "none"} :
          [call[c] EXCEPT !.pc = "pulled", !.answer = answer] \in Call
    BY <1>0 DEF Call
  <2>2. PICK answer \in {"packet", "none"} :
          CallIs(c, [call[c] EXCEPT !.pc = "pulled", !.answer = answer])
    BY <1>3 DEF Pulled
  <2>3. call' \in [Calls -> Call]
    BY <1>0, <2>1, <2>2 DEF CallIs
  <2> QED BY <1>3, <2>3 DEF Pulled, TypeOK, ServerTypeOK, CallsTypeOK, CodexTypeOK, codexVars, serverVars, server
<1> QED BY <1>1, <1>2, <1>3

\* The console, the world and the delayed requests.
LEMMA ServerTypes ==
  ASSUME TypeOK, ServerNext, UNCHANGED <<codexVars, party>>
  PROVE  TypeOK'
<1> USE DEF callVars, codexVars, TypeOK, CallsTypeOK, CodexTypeOK
<1>0. /\ resume \in Resume /\ handoff \in Handoff /\ rows \subseteq Row
      /\ clock \in Nat /\ events \in 0..MaxEvents /\ MaxEvents \in Nat
  BY ServerAssumption DEF ServerTypeOK
<1>1. ASSUME NEW target \in Hosts \cup {NoHost}, CreatePreview(target), UNCHANGED callVars
      PROVE  TypeOK'
  BY <1>0, <1>1 DEF CreatePreview, ServerTypeOK, Resume
<1>2. CASE (Cancel \/ ConsoleConfirm) /\ UNCHANGED callVars
  BY <1>0, <1>2 DEF Cancel, ConsoleConfirm, Confirmed, ServerTypeOK, Resume
<1>3. CASE SetEnabled /\ UNCHANGED callVars
  <2>1. events' \in 0..MaxEvents
    BY <1>0, <1>3 DEF SetEnabled
  <2>2. handoff' \in Handoff
    BY <1>0, <1>3 DEF SetEnabled, Handoff
  <2> QED BY <1>0, <1>3, <2>1, <2>2 DEF SetEnabled, ServerTypeOK
<1>4. CASE World /\ UNCHANGED callVars
  <2>1. events' \in 0..MaxEvents
    BY <1>0, <1>4 DEF World
  <2>2. resume' \in Resume
    BY <1>0, <1>4 DEF World, Resume
  <2> QED BY <1>0, <1>4, <2>1, <2>2 DEF World, ServerTypeOK
<1>5. CASE Arrive
  <2>1. PICK m \in network \cup outbox :
          /\ Record(m) /\ network' = network \ {m} /\ outbox' \subseteq outbox
          /\ UNCHANGED <<resume, handoff, clock, events, rec, scope, call, given, faults>>
    BY <1>5 DEF Arrive
  <2>2. rows' \subseteq Row
    BY <2>1, RecordShapes DEF Message
  <2> QED BY <1>0, <2>1, <2>2 DEF ServerTypeOK
<1>6. ASSUME NEW h \in Hosts, Expire(h) PROVE TypeOK'
  <2>1. [rec[h] EXCEPT !.fresh = "no"] \in Rec
    BY RecShapes
  <2>2. rec' \in [Hosts -> Rec] /\ events' \in 0..MaxEvents
    BY <1>0, <1>6, <2>1 DEF Expire, RecIs
  <2> QED BY <1>0, <1>6, <2>2 DEF Expire, server, ServerTypeOK
<1>7. Present \subseteq Hosts
  BY CallsAssumption, PartiesAssumption DEF Present
<1> QED BY <1>1, <1>2, <1>3, <1>4, <1>5, <1>6, <1>7 DEF ServerNext

\* What the operators of a host's action write
LEMMA Writes ==
  ASSUME TypeOK, NEW h \in Hosts
  PROVE  /\ \A r \in Rec : RecIs(h, r) => rec' \in [Hosts -> Rec]
         /\ \A c \in Calls : \A r \in Call : CallIs(c, r) => call' \in [Calls -> Call]
         /\ \A r : Tick(r) => clock' \in Nat
         /\ \A phase \in Phases : outbox \cup {Event(h, phase)} \subseteq Message
         /\ FailAttempt(h) \/ AcknowledgeAttempt(h) =>
              rec' \in [Hosts -> Rec] /\ outbox' \subseteq Message /\ clock' \in Nat
         /\ ActivateScope(h) => scope' \in [Hosts -> Scopes]
         /\ \A s \in Scopes : [scope EXCEPT ![h] = s] \in [Hosts -> Scopes]
<1>1. rec \in [Hosts -> Rec] /\ call \in [Calls -> Call] /\ outbox \subseteq Message
  BY DEF TypeOK, CallsTypeOK
<1>2. \A r \in Rec : RecIs(h, r) => rec' \in [Hosts -> Rec]
  BY <1>1 DEF RecIs
<1>3. \A c \in Calls : \A r \in Call : CallIs(c, r) => call' \in [Calls -> Call]
  BY <1>1 DEF CallIs
<1>4. \A r : Tick(r) => clock' \in Nat
  BY TickShapes
<1>5. \A phase \in Phases : outbox \cup {Event(h, phase)} \subseteq Message
  BY <1>1, MessageShapes DEF Message
<1>6. \A s \in Scopes : [scope EXCEPT ![h] = s] \in [Hosts -> Scopes]
  BY DEF TypeOK, CallsTypeOK
<1>7. ActivateScope(h) => scope' \in [Hosts -> Scopes]
  BY <1>6 DEF ActivateScope, Scopes, TypeOK, CallsTypeOK
<1>8. FailAttempt(h) => rec' \in [Hosts -> Rec] /\ outbox' \subseteq Message /\ clock' \in Nat
  BY <1>2, <1>4, <1>5, NewShapes DEF FailAttempt, Phases
<1>9. AcknowledgeAttempt(h) =>
        rec' \in [Hosts -> Rec] /\ outbox' \subseteq Message /\ clock' \in Nat
  BY <1>2, <1>4, <1>5, NewShapes DEF AcknowledgeAttempt, Finished, Phases
<1> QED BY <1>2, <1>3, <1>4, <1>5, <1>6, <1>7, <1>8, <1>9

\* Killed processes.
LEMMA KillTypes ==
  ASSUME TypeOK, NEW killed \in SUBSET Calls, NEW kind \in Kinds, KillAll(killed, kind)
  PROVE  call' \in [Calls -> Call] /\ network' \subseteq Message
<1>1. call' \in [Calls -> Call]
  BY CallShapes DEF KillAll, TypeOK, CallsTypeOK
<1>2. network' \subseteq Message
  BY MessageShapes DEF KillAll, TypeOK, CallsTypeOK, Message
<1> QED BY <1>1, <1>2

\* A tool claims, or not.
LEMMA ClaimTypes ==
  ASSUME TypeOK, NEW c \in Calls, NEW r \in Rec,
         \/ ClaimMcpResumeDelivery(c, r) \/ ClaimPending(c, r) \/ ClaimAgain(c, r)
         \/ HermesClaims(c, r)
  PROVE  rec' \in [Hosts -> Rec] /\ call' \in [Calls -> Call] /\ clock' \in Nat
<1> DEFINE claimed == Claimed([r EXCEPT !.kind = "receipt"])
<1>1. HostOf[c] \in Hosts /\ clock \in Nat
  BY CallsAssumption DEF TypeOK, ServerTypeOK
<1>2. /\ claimed \in Rec /\ Claimed(r) \in Rec /\ Sending(r) \in Call
      /\ Sending(claimed) \in Call /\ Sending(Claimed(r)) \in Call
  BY RecShapes
<1> HIDE DEF claimed
<1>3. CASE ClaimMcpResumeDelivery(c, r)
  <2>1. \/ CallIs(c, Sending(r)) /\ RecIs(HostOf[c], r) /\ clock' = clock
        \/ CallIs(c, Sending(claimed)) /\ RecIs(HostOf[c], claimed) /\ Tick(claimed)
    BY <1>3 DEF ClaimMcpResumeDelivery, claimed
  <2> QED BY <1>1, <1>2, <2>1, Writes
<1>4. CASE ClaimPending(c, r) \/ ClaimAgain(c, r) \/ HermesClaims(c, r)
  <2>1. \/ CallIs(c, Sending(r)) /\ RecIs(HostOf[c], r) /\ clock' = clock
        \/ /\ CallIs(c, Sending(Claimed(r))) /\ RecIs(HostOf[c], Claimed(r))
           /\ Tick(Claimed(r))
    BY <1>4 DEF ClaimPending, ClaimAgain, HermesClaims
  <2> QED BY <1>1, <1>2, <2>1, Writes
<1> QED BY <1>3, <1>4

\* The Codex tool.
LEMMA ToolTypes ==
  ASSUME TypeOK, UNCHANGED party, NEW c \in Tools,
         \/ TakePendingResume(c) \/ PendingPulled(c) \/ TakeAnswered(c)
         \/ MarkReturned(c) \/ HandOver(c)
  PROVE  TypeOK'
<1> USE DEF TypeOK, ServerTypeOK, CodexTypeOK
<1> DEFINE h == HostOf[c]
<1>0. /\ c \in Calls /\ h \in Hosts /\ h \in CodexHosts /\ rec[h] \in Rec /\ call[c] \in Call
      /\ rec \in [Hosts -> Rec] /\ call \in [Calls -> Call] /\ scope \in [Hosts -> Scopes]
      /\ faults \in 0..MaxFaults /\ MaxFaults \in Nat
  BY CallsAssumption, CodexAssumption DEF CallsTypeOK, CodexHosts
<1>1. \A x \in Calls \cup {"free", "dead"} :
        [lock EXCEPT ![h] = x] \in [CodexHosts -> Calls \cup {"free", "dead"}]
  BY <1>0
<1>2. Release(c) => lock' \in [CodexHosts -> Calls \cup {"free", "dead"}]
  BY <1>1 DEF Release
<1>3. CASE TakePendingResume(c)
  <2>1. lock' \in [CodexHosts -> Calls \cup {"free", "dead"}] /\ faults' \in 0..MaxFaults
    BY <1>0, <1>1, <1>3 DEF TakePendingResume, Acquire, Acquires, CanSteal
  <2>2. rec' \in [Hosts -> Rec] /\ call' \in [Calls -> Call] /\ clock' \in Nat
    <3>1. CASE ClaimMcpResumeDelivery(c, rec[h])
      BY <1>0, <3>1, ClaimTypes
    <3>2. CASE CallIs(c, Waiting("pull")) /\ UNCHANGED <<rec, clock>>
      BY <1>0, <3>2, CallShapes, Writes
    <3> QED BY <1>3, <3>1, <3>2 DEF TakePendingResume
  <2> QED BY <1>3, <2>1, <2>2 DEF TakePendingResume, server, CallsTypeOK
<1>4. CASE PendingPulled(c)
  <2> DEFINE staged == IF rec[h].status = "none" THEN NewRec(h, "console", "receipt", "yes")
                       ELSE IF rec[h].status = "pending" THEN [rec[h] EXCEPT !.fresh = "yes"]
                       ELSE rec[h]
             offered == call[c].answer = "packet" /\ Owns(c)
  <2>1. staged \in Rec
    BY <1>0, RecShapes, NewShapes DEF Kinds
  <2>2. scope' \in [Hosts -> Scopes]
    BY <1>0, <1>4, Writes DEF PendingPulled, Scopes
  <2>3. \/ ClaimMcpResumeDelivery(c, staged) /\ lock' = lock
        \/ /\ CallIs(c, Idle) /\ Release(c) /\ clock' = clock
           /\ RecIs(h, IF offered THEN staged ELSE rec[h])
    BY <1>4 DEF PendingPulled
  <2> HIDE DEF staged, offered
  <2>4. /\ rec' \in [Hosts -> Rec] /\ call' \in [Calls -> Call] /\ clock' \in Nat
        /\ lock' \in [CodexHosts -> Calls \cup {"free", "dead"}]
    BY <1>0, <1>2, <2>1, <2>3, ClaimTypes, CallShapes, Writes
  <2> QED BY <1>4, <2>2, <2>4 DEF PendingPulled, server, CallsTypeOK
<1>5. CASE TakeAnswered(c)
  <2>1. [call[c] EXCEPT !.pc = "mark"] \in Call /\ Idle \in Call
    BY <1>0, CallShapes DEF Call
  <2>2. [rec[h] EXCEPT !.status = "cancelled"] \in Rec
    BY <1>0, RecShapes
  <2>3. /\ CallIs(c, [call[c] EXCEPT !.pc = "mark"]) \/ CallIs(c, Idle)
        /\ lock' = lock \/ Release(c)
        /\ rec' = rec \/ RecIs(h, [rec[h] EXCEPT !.status = "cancelled"])
        /\ \/ scope' = scope \/ scope' = [scope EXCEPT ![h] = "active"]
           \/ scope' = [scope EXCEPT ![h] = "cancelled"]
    BY <1>5 DEF TakeAnswered, CancelStale
  <2>4. rec' \in [Hosts -> Rec] /\ call' \in [Calls -> Call] /\ scope' \in [Hosts -> Scopes]
    BY <1>0, <2>1, <2>2, <2>3, Writes DEF Scopes
  <2>5. lock' \in [CodexHosts -> Calls \cup {"free", "dead"}]
    BY <1>2, <2>3
  <2> QED BY <1>5, <2>4, <2>5 DEF TakeAnswered, serverVars, server, CallsTypeOK
<1>6. CASE MarkReturned(c)
  <2>1. /\ [rec[h] EXCEPT !.returned = "yes"] \in Rec
        /\ [call[c] EXCEPT !.pc = "return"] \in Call /\ Idle \in Call
    BY <1>0, RecShapes, CallShapes DEF Call
  <2>2. /\ RecIs(h, [rec[h] EXCEPT !.returned = "yes"]) \/ rec' = rec
        /\ CallIs(c, [call[c] EXCEPT !.pc = "return"]) \/ CallIs(c, Idle)
    BY <1>6 DEF MarkReturned
  <2>3. rec' \in [Hosts -> Rec] /\ call' \in [Calls -> Call]
    BY <1>0, <2>1, <2>2, Writes
  <2>4. lock' \in [CodexHosts -> Calls \cup {"free", "dead"}]
    BY <1>2, <1>6 DEF MarkReturned
  <2> QED BY <1>6, <2>3, <2>4 DEF MarkReturned, serverVars, server, CallsTypeOK
<1>7. CASE HandOver(c)
  <2>1. <<h, call[c].n>> \in Attempts /\ Give("receipt", <<h, call[c].n>>)
    BY <1>0, <1>7 DEF HandOver, Call, Attempts
  <2>2. given' \in [Kinds -> [Attempts -> 0..2]] /\ call' \in [Calls -> Call]
    BY <1>0, <1>7, <2>1, GiveShapes, CallShapes, Writes DEF HandOver, Kinds
  <2> QED BY <1>7, <2>2 DEF HandOver, serverVars, server, codexVars, CallsTypeOK
<1> QED BY <1>3, <1>4, <1>5, <1>6, <1>7

\* A hook that takes the lock, or does without, keeps the counters in bounds.
LEMMA LockShapes ==
  ASSUME TypeOK, NEW h \in CodexHosts, UnderLock(h) \/ WithoutLock
  PROVE  faults' \in 0..MaxFaults /\ lock' \in [CodexHosts -> Calls \cup {"free", "dead"}]
<1>1. /\ faults \in 0..MaxFaults /\ MaxFaults \in Nat
      /\ lock \in [CodexHosts -> Calls \cup {"free", "dead"}]
  BY CallsAssumption DEF TypeOK, CallsTypeOK, CodexTypeOK
<1> QED BY <1>1 DEF UnderLock, WithoutLock, Acquires, CanSteal

\* The Codex hooks.
LEMMA HookTypes ==
  ASSUME TypeOK, UNCHANGED party, NEW k \in Hooks,
         \/ \E source : SessionStart(k, source)
         \/ PromptSubmit(k) \/ PromptAnswered(k) \/ Stop(k) \/ StopEnds(k)
  PROVE  TypeOK'
<1> USE DEF TypeOK, ServerTypeOK, CodexTypeOK
<1> DEFINE h == HostOf[k]
<1>0. /\ k \in Calls /\ h \in Hosts /\ h \in CodexHosts /\ rec[h] \in Rec /\ call[k] \in Call
      /\ rec \in [Hosts -> Rec] /\ call \in [Calls -> Call] /\ scope \in [Hosts -> Scopes]
      /\ outbox \subseteq Message /\ clock \in Nat
  BY CallsAssumption, CodexAssumption DEF CallsTypeOK, CodexHosts
<1>1. \A x \in Calls \cup {"free", "dead"} :
        [lock EXCEPT ![h] = x] \in [CodexHosts -> Calls \cup {"free", "dead"}]
  BY <1>0
<1>2. \A phase \in Phases : outbox \cup {Event(h, phase)} \subseteq Message
  BY <1>0, Writes
<1>3. ASSUME NEW source, SessionStart(k, source) PROVE TypeOK'
  <2>1. \/ /\ RecIs(h, Finished(h)) /\ outbox' = outbox \cup {Event(h, "acknowledged")}
           /\ Tick(rec[h])
        \/ /\ Renewable(h) /\ RecIs(h, Retry(h)) /\ Tick(rec[h])
           /\ outbox' = outbox \cup {Event(h, "failed")}
        \/ UNCHANGED <<rec, outbox, clock>>
    BY <1>3 DEF SessionStart, FinishDelivery, FailAttempt
  <2>2. rec' \in [Hosts -> Rec] /\ outbox' \subseteq Message /\ clock' \in Nat
    BY <1>0, <1>2, <2>1, NewShapes, TickShapes, Writes DEF Phases
  <2>3. UnderLock(h) \/ WithoutLock
    BY <1>3 DEF SessionStart
  <2>4. faults' \in 0..MaxFaults /\ lock' \in [CodexHosts -> Calls \cup {"free", "dead"}]
    BY <1>0, <1>1, <2>3, LockShapes
  <2> QED BY <1>3, <2>2, <2>4 DEF SessionStart, server, CallsTypeOK
<1>4. CASE PromptSubmit(k)
  <2>1. \/ /\ RecIs(h, Claimed(rec[h])) /\ CallIs(k, Sending(Claimed(rec[h])))
           /\ Tick(rec[h])
        \/ CallIs(k, Sending(rec[h])) /\ UNCHANGED <<rec, clock>>
    BY <1>4 DEF PromptSubmit
  <2>2. /\ Claimed(rec[h]) \in Rec /\ Sending(Claimed(rec[h])) \in Call
        /\ Sending(rec[h]) \in Call
    BY <1>0, RecShapes
  <2>3. rec' \in [Hosts -> Rec] /\ call' \in [Calls -> Call] /\ clock' \in Nat
    BY <1>0, <2>1, <2>2, Writes
  <2> QED BY <1>4, <2>3 DEF PromptSubmit, server, codexVars, CallsTypeOK
<1>5. CASE PromptAnswered(k)
  <2>1. call' \in [Calls -> Call]
    BY <1>0, <1>5, CallShapes, Writes DEF PromptAnswered
  <2>2. CASE call[k].answer = "accepted"
    <3>1. /\ Give("injection", <<h, call[k].n>>) /\ UNCHANGED <<rec, outbox, clock>>
          /\ scope' = scope \/ scope' = [scope EXCEPT ![h] = "active"]
      BY <1>5, <2>2 DEF PromptAnswered
    <3>2. <<h, call[k].n>> \in Attempts
      BY <1>0 DEF Call, Attempts
    <3>3. given' \in [Kinds -> [Attempts -> 0..2]] /\ scope' \in [Hosts -> Scopes]
      BY <1>0, <3>1, <3>2, GiveShapes, Writes DEF Kinds, Scopes
    <3> QED BY <1>5, <2>1, <3>1, <3>3 DEF PromptAnswered, server, codexVars, CallsTypeOK
  <2>3. CASE call[k].answer # "accepted"
    <3>1. /\ UNCHANGED <<scope, given, clock>>
          /\ \/ UNCHANGED <<rec, outbox>>
             \/ /\ Renewable(h) /\ rec' = [rec EXCEPT ![h] = Retry(h)]
                /\ outbox' = outbox \cup {Event(h, "failed")}
      BY <1>5, <2>3 DEF PromptAnswered
    <3>2. rec' \in [Hosts -> Rec] /\ outbox' \subseteq Message
      BY <1>0, <1>2, <3>1, NewShapes DEF Phases
    <3> QED BY <1>5, <2>1, <3>1, <3>2 DEF PromptAnswered, server, codexVars, CallsTypeOK
  <2> QED BY <2>2, <2>3
<1>6. CASE Stop(k)
  <2>1. call' \in [Calls -> Call]
    BY <1>0, <1>6, CallShapes, Writes DEF Stop
  <2>2. <<h, rec[h].n>> \in Attempts
    BY <1>0 DEF Rec, Attempts
  <2>3. intents' \subseteq Attempts
    BY <1>6, <2>2 DEF Stop
  <2> QED BY <1>6, <2>1, <2>3 DEF Stop, serverVars, server, CallsTypeOK
<1>7. CASE StopEnds(k)
  <2>1. call' \in [Calls -> Call]
    BY <1>0, <1>7, CallShapes, Writes DEF StopEnds
  <2>2. \/ /\ RecIs(h, Finished(h)) /\ outbox' = outbox \cup {Event(h, "acknowledged")}
           /\ Tick(rec[h])
        \/ RecIs(h, [rec[h] EXCEPT !.armed = "yes"]) /\ UNCHANGED <<outbox, clock>>
        \/ UNCHANGED <<rec, outbox, clock>>
    BY <1>7 DEF StopEnds, FinishDelivery
  <2>3. [rec[h] EXCEPT !.armed = "yes"] \in Rec /\ Finished(h) \in Rec
    BY <1>0, RecShapes, NewShapes
  <2>4. rec' \in [Hosts -> Rec] /\ outbox' \subseteq Message /\ clock' \in Nat
    BY <1>0, <1>2, <2>2, <2>3, Writes DEF Phases
  <2>5. UnderLock(h) \/ WithoutLock
    BY <1>7 DEF StopEnds
  <2>6. faults' \in 0..MaxFaults /\ lock' \in [CodexHosts -> Calls \cup {"free", "dead"}]
    BY <1>0, <1>1, <2>5, LockShapes
  <2> QED BY <1>7, <2>1, <2>4, <2>6 DEF StopEnds, server, CallsTypeOK
<1> QED BY <1>3, <1>4, <1>5, <1>6, <1>7

\* Every step of a Codex host.
LEMMA CodexTypes ==
  ASSUME TypeOK, UNCHANGED party, NEW h \in Hosts, NEW running, CodexNext(h, running)
  PROVE  TypeOK'
<1> USE DEF TypeOK, ServerTypeOK, CodexTypeOK
<1>0. Tools \subseteq Calls /\ Hooks \subseteq Calls
  BY CodexAssumption
<1>1. CASE CodexConfirm(h)
  <2>1. \/ UNCHANGED <<rec, scope>>
        \/ \E kind \in Kinds, armed \in {"yes", "no"} :
             /\ rec[h].status = "none" /\ RecIs(h, NewRec(h, "agent", kind, armed))
             /\ scope' = [scope EXCEPT ![h] = "pending"]
    BY <1>1 DEF CodexConfirm
  <2>2. rec' \in [Hosts -> Rec] /\ scope' \in [Hosts -> Scopes]
    BY <2>1, NewShapes, Writes DEF CallsTypeOK, Scopes
  <2>3. resume' \in Resume
    BY <1>1 DEF CodexConfirm, Confirmed, Resume
  <2> QED BY <1>1, <2>2, <2>3 DEF CodexConfirm, codexVars, CallsTypeOK
<1>2. ASSUME NEW c \in Calls, NEW kind \in Kinds, Kill(c, kind), c \in Tools \cup Hooks
      PROVE  TypeOK'
  <2>1. call' \in [Calls -> Call] /\ network' \subseteq Message
    BY <1>2, KillTypes DEF Kill
  <2>2. faults' \in 0..MaxFaults
    BY <1>2, CallsAssumption DEF Kill, CallsTypeOK
  <2>3. HostOf[c] \in CodexHosts
    BY <1>2 DEF CodexHosts
  <2>4. lock' \in [CodexHosts -> Calls \cup {"free", "dead"}]
    BY <1>2, <2>3 DEF Kill
  <2>5. <<HostOf[c], call[c].n>> \in Attempts
    BY <1>2, CallsAssumption DEF CallsTypeOK, Call, Attempts
  <2>6. cut' \subseteq Attempts
    BY <1>2, <2>5 DEF Kill
  <2> QED BY <1>2, <2>1, <2>2, <2>4, <2>6 DEF Kill, serverVars, server, CallsTypeOK
<1>3. ASSUME NEW c \in Calls, NEW kind \in Kinds, UNCHANGED codexVars,
             Answer(c, kind) \/ Lose(c, kind) \/ Pulled(c)
      PROVE  TypeOK'
  BY <1>3, AnswerTypes
<1>4. "receipt" \in Kinds /\ "injection" \in Kinds
  BY DEF Kinds
<1>5. ASSUME NEW c \in Tools \cap running,
             \/ TakePendingResume(c)
             \/ Pulled(c) /\ UNCHANGED codexVars
             \/ PendingPulled(c)
             \/ (Answer(c, "receipt") \/ Lose(c, "receipt")) /\ UNCHANGED codexVars
             \/ TakeAnswered(c) \/ MarkReturned(c) \/ HandOver(c)
             \/ Kill(c, "receipt")
      PROVE  TypeOK'
  BY <1>0, <1>2, <1>3, <1>4, <1>5, ToolTypes
<1>6. ASSUME NEW k \in Hooks \cap running,
             \/ \E source \in {"startup", "compact"} : SessionStart(k, source)
             \/ PromptSubmit(k)
             \/ (Answer(k, "injection") \/ Lose(k, "injection")) /\ UNCHANGED codexVars
             \/ PromptAnswered(k)
             \/ Stop(k) \/ StopEnds(k)
             \/ Kill(k, "injection")
      PROVE  TypeOK'
  BY <1>0, <1>2, <1>3, <1>4, <1>6, HookTypes
<1> QED BY <1>1, <1>5, <1>6 DEF CodexNext

\* Every step of an OpenClaw host.
LEMMA OpenClawTypes ==
  ASSUME TypeOK, UNCHANGED <<codexVars, party>>, NEW h \in Hosts, NEW running,
         OpenClawNext(h, running)
  PROVE  TypeOK'
<1> USE DEF TypeOK, ServerTypeOK, CodexTypeOK, codexVars
<1>0. /\ OpenClawBuilds \subseteq Calls /\ "injection" \in Kinds /\ rec[h] \in Rec
      /\ rec \in [Hosts -> Rec] /\ call \in [Calls -> Call] /\ scope \in [Hosts -> Scopes]
      /\ outbox \subseteq Message /\ clock \in Nat
  BY OpenClawAssumption DEF Kinds, CallsTypeOK
<1>1. CASE OpenClawConfirm(h)
  <2>1. \/ UNCHANGED <<rec, scope>>
        \/ /\ Renewable(h) /\ RecIs(h, NewRec(h, "agent", "injection", "yes"))
           /\ scope' = scope \/ scope' = [scope EXCEPT ![h] = "pending"]
    BY <1>1 DEF OpenClawConfirm
  <2>2. rec' \in [Hosts -> Rec] /\ scope' \in [Hosts -> Scopes]
    BY <1>0, <2>1, NewShapes, Writes DEF Scopes
  <2>3. resume' \in Resume
    BY <1>1 DEF OpenClawConfirm, Confirmed, Resume
  <2> QED BY <1>1, <2>2, <2>3 DEF OpenClawConfirm, CallsTypeOK
<1>2. ASSUME NEW success, AgentEnd(h, success) PROVE TypeOK'
  <2>1. FailAttempt(h) \/ AcknowledgeAttempt(h)
    BY <1>2 DEF AgentEnd
  <2>2. rec' \in [Hosts -> Rec] /\ outbox' \subseteq Message /\ clock' \in Nat
    BY <2>1, Writes
  <2> QED BY <1>2, <2>2 DEF AgentEnd, server, CallsTypeOK
<1>3. CASE GatewayStart(h)
  <2>1. FailAttempt(h) \/ UNCHANGED <<rec, outbox, clock>>
    BY <1>3 DEF GatewayStart
  <2>2. rec' \in [Hosts -> Rec] /\ outbox' \subseteq Message /\ clock' \in Nat
    BY <1>0, <2>1, Writes
  <2>3. call' \in [Calls -> Call] /\ network' \subseteq Message
    <3> DEFINE killed == {c \in OpenClawBuilds : HostOf[c] = h}
    <3>1. killed \in SUBSET Calls /\ KillAll(killed, "injection")
      BY <1>0, <1>3 DEF GatewayStart
    <3> QED BY <1>0, <3>1, KillTypes
  <2>4. faults' \in 0..MaxFaults
    BY <1>3, CallsAssumption DEF GatewayStart, CallsTypeOK
  <2> QED BY <1>3, <2>2, <2>3, <2>4 DEF GatewayStart, server, CallsTypeOK
<1>4. ASSUME NEW c \in OpenClawBuilds, HostOf[c] = h,
             BeforePromptBuild(c) \/ OpenClawPulled(c) \/ OpenClawAnswered(c)
      PROVE  TypeOK'
  <2>0. c \in Calls /\ call[c] \in Call
    BY <1>0
  <2>1. CASE BeforePromptBuild(c)
    <3>1. CASE ClaimPending(c, rec[h]) \/ ClaimAgain(c, rec[h])
      <4>1. rec' \in [Hosts -> Rec] /\ call' \in [Calls -> Call] /\ clock' \in Nat
        BY <1>0, <2>0, <3>1, ClaimTypes
      <4> QED BY <1>0, <1>4, <2>1, <4>1, Writes DEF BeforePromptBuild, server, CallsTypeOK, ActivateScope, Scopes
    <3>2. CASE UNCHANGED <<rec, clock>>
      <4>1. CallIs(c, Waiting("pull")) \/ CallIs(c, Sending(rec[h]))
              \/ CallIs(c, Sending(Claimed(rec[h]))) \/ call' = call
        BY <1>4, <2>1 DEF BeforePromptBuild, ClaimPending, ClaimAgain
      <4>2. call' \in [Calls -> Call]
        BY <1>0, <2>0, <4>1, CallShapes, RecShapes, Writes
      <4>3. scope' \in [Hosts -> Scopes]
        BY <1>0, <1>4, <2>1, Writes DEF BeforePromptBuild
      <4> QED BY <2>1, <3>2, <4>2, <4>3 DEF BeforePromptBuild, server, CallsTypeOK
    <3> QED BY <1>4, <2>1, <3>1, <3>2 DEF BeforePromptBuild
  <2>2. CASE OpenClawPulled(c)
    <3> DEFINE renew == rec[h].status = "pending" /\ rec[h].fresh = "no"
               queued == IF call[c].answer = "packet" /\ (rec[h].status = "none" \/ renew)
                         THEN NewRec(h, "console", "injection", "yes") ELSE rec[h]
    <3>1. call[c].answer = "packet" /\ renew => Renewable(h)
      BY <1>4, <2>2 DEF OpenClawPulled
    <3>2. queued \in Rec
      BY <1>0, <3>1, NewShapes
    <3>3. \/ ClaimPending(c, queued) \/ ClaimAgain(c, queued)
          \/ CallIs(c, Idle) /\ UNCHANGED <<rec, clock>>
      BY <1>4, <2>2 DEF OpenClawPulled
    <3> HIDE DEF renew, queued
    <3>4. rec' \in [Hosts -> Rec] /\ call' \in [Calls -> Call] /\ clock' \in Nat
      BY <1>0, <2>0, <3>2, <3>3, ClaimTypes, CallShapes, Writes
    <3> QED BY <2>2, <3>4 DEF OpenClawPulled, server, CallsTypeOK
  <2>3. CASE OpenClawAnswered(c)
    <3>1. call' \in [Calls -> Call]
      BY <1>0, <2>0, <2>3, CallShapes, Writes DEF OpenClawAnswered
    <3>2. <<h, call[c].n>> \in Attempts
      BY <2>0 DEF Call, Attempts
    <3>3. CASE MarkHandedOff(c)
      <4>1. [rec[h] EXCEPT !.returned = "yes"] \in Rec
        BY <1>0, RecShapes
      <4>2. rec' \in [Hosts -> Rec] /\ given' \in [Kinds -> [Attempts -> 0..2]]
        BY <1>0, <1>4, <3>2, <3>3, <4>1, Writes, GiveShapes DEF MarkHandedOff
      <4>3. scope' \in [Hosts -> Scopes]
        BY <1>4, <3>3, Writes DEF MarkHandedOff, Scopes
      <4> QED BY <2>3, <3>1, <3>3, <4>2, <4>3 DEF MarkHandedOff, OpenClawAnswered, server, CallsTypeOK
    <3>4. CASE FailClaim(c)
      <4>1. rec' \in [Hosts -> Rec]
        <5>1. \E r \in Rec : RecIs(h, r)
          BY <1>4, <3>4, NewShapes DEF FailClaim
        <5> QED BY <5>1, Writes
      <4>2. outbox' \subseteq Message /\ clock' \in Nat
        BY <1>4, <3>4, Writes DEF FailClaim, Phases
      <4> QED BY <2>3, <3>1, <3>4, <4>1, <4>2 DEF FailClaim, OpenClawAnswered, server, CallsTypeOK
    <3>5. CASE UNCHANGED <<rec, scope, outbox, given, clock>>
      BY <2>3, <3>1, <3>5 DEF OpenClawAnswered, server, CallsTypeOK
    <3> QED BY <2>3, <3>3, <3>4, <3>5 DEF OpenClawAnswered
  <2> QED BY <1>4, <2>1, <2>2, <2>3
<1>5. ASSUME NEW c \in OpenClawBuilds,
             Pulled(c) \/ Answer(c, "injection") \/ Lose(c, "injection")
      PROVE  TypeOK'
  BY <1>0, <1>5, AnswerTypes
<1> QED BY <1>1, <1>2, <1>3, <1>4, <1>5 DEF OpenClawNext

\* Every step of a Hermes host.
LEMMA HermesTypes ==
  ASSUME TypeOK, UNCHANGED <<codexVars, party>>, NEW h \in Hosts, NEW running,
         HermesNext(h, running)
  PROVE  TypeOK'
<1> USE DEF TypeOK, ServerTypeOK, CodexTypeOK, codexVars
<1>0. /\ HermesCalls \subseteq Calls /\ "injection" \in Kinds /\ rec[h] \in Rec
      /\ rec \in [Hosts -> Rec] /\ call \in [Calls -> Call] /\ scope \in [Hosts -> Scopes]
      /\ outbox \subseteq Message /\ clock \in Nat
  BY HermesAssumption DEF Kinds, CallsTypeOK
<1>1. CASE HermesConfirm(h)
  <2>1. \/ UNCHANGED <<rec, scope>>
        \/ /\ rec[h].status = "none" /\ RecIs(h, NewRec(h, "agent", "injection", "yes"))
           /\ scope' = scope \/ scope' = [scope EXCEPT ![h] = "pending"]
    BY <1>1 DEF HermesConfirm
  <2>2. rec' \in [Hosts -> Rec] /\ scope' \in [Hosts -> Scopes]
    BY <1>0, <2>1, NewShapes, Writes DEF Scopes
  <2>3. resume' \in Resume
    BY <1>1 DEF HermesConfirm, Confirmed, Resume
  <2> QED BY <1>1, <2>2, <2>3 DEF HermesConfirm, CallsTypeOK
<1>2. ASSUME NEW success, OnSessionEnd(h, success) PROVE TypeOK'
  <2>1. FailAttempt(h) \/ AcknowledgeAttempt(h)
    BY <1>2 DEF OnSessionEnd
  <2>2. rec' \in [Hosts -> Rec] /\ outbox' \subseteq Message /\ clock' \in Nat
    BY <2>1, Writes
  <2> QED BY <1>2, <2>2 DEF OnSessionEnd, server, CallsTypeOK
<1>3. CASE Register(h)
  <2>1. rec' \in [Hosts -> Rec] /\ outbox' \subseteq Message /\ clock' \in Nat
    BY <1>3, Writes DEF Register
  <2>2. PICK killed \in SUBSET {c \in HermesCalls : HostOf[c] = h} :
          KillAll(killed, "injection")
    BY <1>3 DEF Register
  <2>3. killed \in SUBSET Calls
    BY <1>0
  <2>4. call' \in [Calls -> Call] /\ network' \subseteq Message
    BY <1>0, <2>2, <2>3, KillTypes
  <2>5. faults' \in 0..MaxFaults
    BY <1>3, CallsAssumption DEF Register, CallsTypeOK
  <2> QED BY <1>3, <2>1, <2>4, <2>5 DEF Register, server, CallsTypeOK
<1>4. ASSUME NEW c \in HermesCalls, HostOf[c] = h,
             PreLlmCall(c) \/ HermesPulled(c) \/ HermesAnswered(c)
      PROVE  TypeOK'
  <2>0. c \in Calls /\ call[c] \in Call
    BY <1>0
  <2>1. CASE PreLlmCall(c)
    <3>1. scope' \in [Hosts -> Scopes]
      BY <1>4, <2>1, Writes DEF PreLlmCall
    <3>2. \/ HermesClaims(c, rec[h])
          \/ CallIs(c, Waiting("pull")) /\ UNCHANGED <<rec, clock>>
          \/ UNCHANGED <<call, rec, clock>>
      BY <1>4, <2>1 DEF PreLlmCall, CallIs
    <3>3. rec' \in [Hosts -> Rec] /\ call' \in [Calls -> Call] /\ clock' \in Nat
      BY <1>0, <2>0, <3>2, ClaimTypes, CallShapes, Writes
    <3> QED BY <2>1, <3>1, <3>3 DEF PreLlmCall, server, CallsTypeOK
  <2>2. CASE HermesPulled(c)
    <3> DEFINE renew == \/ rec[h].status \in {"none", "cancelled"}
                        \/ /\ rec[h].status = "pending" /\ rec[h].source = "console"
                           /\ rec[h].fresh = "no"
               queued == IF renew THEN NewRec(h, "console", "injection", "yes") ELSE rec[h]
    <3>1. \/ /\ renew => rec[h].status = "none" \/ Renewable(h)
             /\ HermesClaims(c, queued)
          \/ CallIs(c, Idle) /\ UNCHANGED <<rec, clock>>
      BY <1>4, <2>2 DEF HermesPulled
    <3>2. (renew => rec[h].status = "none" \/ Renewable(h)) => queued \in Rec
      BY <1>0, NewShapes
    <3> HIDE DEF renew, queued
    <3>3. rec' \in [Hosts -> Rec] /\ call' \in [Calls -> Call] /\ clock' \in Nat
      BY <1>0, <2>0, <3>1, <3>2, ClaimTypes, CallShapes, Writes
    <3> QED BY <2>2, <3>3 DEF HermesPulled, server, CallsTypeOK
  <2>3. CASE HermesAnswered(c)
    <3>1. call' \in [Calls -> Call]
      BY <1>0, <2>0, <2>3, CallShapes, Writes DEF HermesAnswered
    <3>2. <<h, call[c].n>> \in Attempts
      BY <2>0 DEF Call, Attempts
    <3>3. CASE MarkContextReturned(c)
      <4>1. [rec[h] EXCEPT !.returned = "yes"] \in Rec
        BY <1>0, RecShapes
      <4>2. rec' \in [Hosts -> Rec] /\ given' \in [Kinds -> [Attempts -> 0..2]]
        BY <1>0, <1>4, <3>2, <3>3, <4>1, Writes, GiveShapes DEF MarkContextReturned
      <4>3. scope' \in [Hosts -> Scopes]
        BY <1>0, <1>4, <3>3, Writes DEF MarkContextReturned, Scopes
      <4> QED BY <2>3, <3>1, <3>3, <4>2, <4>3 DEF MarkContextReturned, HermesAnswered, server, CallsTypeOK
    <3>4. CASE CancelConsoleAuthorization(h)
      <4>1. rec' \in [Hosts -> Rec]
        BY <1>0, <3>4, RecShapes, Writes DEF CancelConsoleAuthorization
      <4> QED BY <2>3, <3>1, <3>4, <4>1 DEF CancelConsoleAuthorization, HermesAnswered, server, CallsTypeOK
    <3>5. CASE FailAttempt(h) /\ UNCHANGED <<scope, given>>
      <4>1. rec' \in [Hosts -> Rec] /\ outbox' \subseteq Message /\ clock' \in Nat
        BY <3>5, Writes
      <4> QED BY <2>3, <3>1, <3>5, <4>1 DEF HermesAnswered, server, CallsTypeOK
    <3>6. CASE UNCHANGED <<rec, scope, outbox, given, clock>>
      BY <2>3, <3>1, <3>6 DEF HermesAnswered, server, CallsTypeOK
    <3> QED BY <1>4, <2>3, <3>3, <3>4, <3>5, <3>6 DEF HermesAnswered
  <2> QED BY <1>4, <2>1, <2>2, <2>3
<1>5. ASSUME NEW c \in HermesCalls,
             Pulled(c) \/ Answer(c, "injection") \/ Lose(c, "injection")
      PROVE  TypeOK'
  BY <1>0, <1>5, AnswerTypes
<1> QED BY <1>1, <1>2, <1>3, <1>4, <1>5 DEF HermesNext

\* Whatever the server and the hosts do, the tables, records and messages keep
\* their shape; in particular no attempt is numbered past the last.
LEMMA TypesKept ==
  ASSUME TypeOK, [Next]_vars PROVE TypeOK'
<1>1. Present \subseteq Hosts
  BY CallsAssumption, PartiesAssumption DEF Present, TypeOK
<1>2. CASE Next
  <2>1. party' = party
    BY <1>2 DEF Next
  <2>2. CASE ServerNext /\ UNCHANGED codexVars
    BY <2>1, <2>2, ServerTypes
  <2>3. ASSUME NEW h \in Hosts, CodexNext(h, party) PROVE TypeOK'
    BY <2>1, <2>3, CodexTypes
  <2>4. ASSUME NEW h \in Hosts, OpenClawNext(h, party) /\ UNCHANGED codexVars PROVE TypeOK'
    BY <2>1, <2>4, OpenClawTypes
  <2>5. ASSUME NEW h \in Hosts, HermesNext(h, party) /\ UNCHANGED codexVars PROVE TypeOK'
    BY <2>1, <2>5, HermesTypes
  <2> QED BY <1>1, <1>2, <2>2, <2>3, <2>4, <2>5 DEF Next
<1>3. CASE UNCHANGED vars
  BY <1>3 DEF vars, deliveryVars, serverVars, server, callVars, codexVars, TypeOK,
              ServerTypeOK, CallsTypeOK, CodexTypeOK
<1> QED BY <1>2, <1>3

\* The initial state has the shape.
LEMMA InitTypes ==
  ASSUME Init PROVE TypeOK
<1> USE DEF Init
<1>1. ServerTypeOK
  BY ServerAssumption DEF ServerInit, ServerTypeOK, Resume, Handoff
<1>2. NoRec \in Rec /\ Idle \in Call
  BY ServerAssumption, CallShapes DEF NoRec, Rec, Kinds
<1>3. CallsTypeOK
  BY <1>2, CallsAssumption DEF CallsInit, CallsTypeOK, Scopes
<1>4. CodexTypeOK
  BY DEF CodexInit, CodexTypeOK
<1> QED BY <1>1, <1>3, <1>4 DEF TypeOK

\* Every reachable state of a Resume, its server and its hosts has the declared
\* shape; in particular no host numbers an attempt past its bound, and a counter
\* of hand-overs never leaves 0..2.
THEOREM TypeCorrect == Spec => []TypeOK
BY InitTypes, TypesKept, PTL DEF Spec

===============================================================================
