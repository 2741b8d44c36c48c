------------------------------- MODULE CodexHost -------------------------------
(***************************************************************************)
(* Hosts that run the Codex plugin.  The tool mnemuron_take_pending_resume *)
(* hands the context to the model as its result and reports it with a      *)
(* delivery receipt; where the tool server has another data directory, the *)
(* hooks inject the context into a prompt and report an injection.  Tool   *)
(* calls and hooks are processes of their own that share the record of the *)
(* Resume; a lock directory keeps tool calls and recovery apart.           *)
(*                                                                         *)
(* A process runs from one await to the next without another one of the    *)
(* session interfering, and the lock is not taken for stale in the moment  *)
(* between the last look at it and the end of the call.                    *)
(***************************************************************************)
EXTENDS DeliveryCalls

CONSTANTS
  Tools,        \* calls of mnemuron_take_pending_resume
  Hooks         \* runs of hook.mjs

ASSUME CodexAssumption ==
  /\ Tools \subseteq Calls /\ Hooks \subseteq Calls
  /\ "free" \notin Calls /\ "dead" \notin Calls

VARIABLES
  lock,         \* resume-delivery.lock of each host
  intents,      \* attempts whose turn has stopped: mcp-delivery-ack-intents
  cut           \* history: attempts whose call was killed with its result unsent

codexVars == <<lock, intents, cut>>
CodexHosts == {HostOf[c] : c \in Tools \cup Hooks}

CodexInit ==
  /\ lock = [h \in CodexHosts |-> "free"]
  /\ intents = {}
  /\ cut = {}

CodexTypeOK ==
  /\ lock \in [CodexHosts -> Calls \cup {"free", "dead"}]
  /\ intents \subseteq Attempts
  /\ cut \subseteq Attempts

-----------------------------------------------------------------------------
(* acquireMcpResumeDeliveryLock, by a tool call or a hook: free, left by a dead *)
(* process, or held for two minutes by a call that waits for the server.        *)

Waits(c) == call[c].pc \in {"pull", "pulled", "send", "answered"}
CanAcquire(h) == lock[h] \in {"free", "dead"}
CanSteal(h) == lock[h] \in Calls /\ Waits(lock[h]) /\ faults < MaxFaults
Acquires(h) ==
  \/ CanAcquire(h) /\ faults' = faults
  \/ CanSteal(h) /\ faults' = faults + 1
Acquire(h, c) == Acquires(h) /\ lock' = [lock EXCEPT ![h] = c]
\* A hook acquires and releases the lock between two awaits.
UnderLock(h) == Acquires(h) /\ lock' = [lock EXCEPT ![h] = "free"]
WithoutLock == UNCHANGED <<lock, faults>>
Owns(c) == lock[HostOf[c]] = c
Release(c) ==
  lock' = IF Owns(c) THEN [lock EXCEPT ![HostOf[c]] = "free"] ELSE lock

\* The tool or, when the tool stages nothing here, the hook after it: the scope
\* and the record are written unless they exist.  The answer may be lost.
CodexConfirm(h) ==
  /\ ~Bound /\ Confirmable /\ Confirmed
  /\ \/ UNCHANGED <<rec, scope>>
     \/ \E kind \in Kinds :
          /\ rec[h].status = "none"
          /\ RecIs(h, NewRec(h, "agent", kind, IF kind = "receipt" THEN "no" ELSE "yes"))
          /\ scope' = [scope EXCEPT ![h] = "pending"]
  /\ UNCHANGED <<handoff, rows, clock, events, call, outbox, network, given, faults, codexVars>>

-----------------------------------------------------------------------------
(* mnemuron_take_pending_resume *)

\* claimMcpResumeDelivery: the attempt in flight, or the pending one.
ClaimableNow(r) == r.status = "pending" /\ r.armed = "yes" /\ r.fresh = "yes"
HeldNow(r) == r.status = "in_flight" /\ r.kind = "receipt" /\ r.fresh = "yes"
ClaimReturnedToo(c, r) ==
  LET h == HostOf[c]
      claimed == Claimed([r EXCEPT !.kind = "receipt"]) IN
  \/ HeldNow(r) /\ CallIs(c, Sending(r)) /\ RecIs(h, r) /\ clock' = clock
  \/ /\ ClaimableNow(r)
     /\ CallIs(c, Sending(claimed)) /\ RecIs(h, claimed) /\ Tick(claimed)
ClaimMcpResumeDelivery(c, r) ==
  LET h == HostOf[c]
      claimed == Claimed([r EXCEPT !.kind = "receipt"]) IN
  \/ /\ HeldNow(r) /\ r.returned = "no"
     /\ CallIs(c, Sending(r)) /\ RecIs(h, r) /\ clock' = clock
  \/ /\ ClaimableNow(r)
     /\ CallIs(c, Sending(claimed)) /\ RecIs(h, claimed) /\ Tick(claimed)

\* What is in flight and was handed over is not handed over again.
TakePendingResume(c) ==
  LET h == HostOf[c] IN
  /\ call[c].pc = "idle"
  /\ Acquire(h, c)
  /\ \/ ClaimMcpResumeDelivery(c, rec[h])
     \/ /\ ~HeldNow(rec[h]) /\ ~ClaimableNow(rec[h]) /\ Bound
        /\ CallIs(c, Waiting("pull"))
        /\ UNCHANGED <<rec, clock>>
  /\ UNCHANGED <<server, events, scope, outbox, network, given, intents, cut>>

\* The packet of the console is staged under the lock: createTaskScope and
\* queueResumeInjection keep what exists, and renew it once it has expired.
PendingPulled(c) ==
  LET h == HostOf[c]
      staged == IF rec[h].status = "none" THEN NewRec(h, "console", "receipt", "yes")
                ELSE IF rec[h].status = "pending" THEN [rec[h] EXCEPT !.fresh = "yes"]
                ELSE rec[h]
      offered == call[c].answer = "packet" /\ Owns(c)
  IN
  /\ call[c].pc = "pulled"
  /\ scope' = IF offered /\ scope[h] = "none" THEN [scope EXCEPT ![h] = "pending"] ELSE scope
  /\ \/ offered /\ ClaimMcpResumeDelivery(c, staged) /\ lock' = lock
     \/ /\ ~(offered /\ (HeldNow(staged) \/ ClaimableNow(staged)))
        /\ CallIs(c, Idle) /\ Release(c)
        /\ RecIs(h, IF offered THEN staged ELSE rec[h])
        /\ clock' = clock
  /\ UNCHANGED <<server, events, outbox, network, given, faults, intents, cut>>

\* cancelStaleConsoleResumeDelivery.
StaleCodes == {"RESUME_CONTEXT_CHANGED", "RESUME_TARGET_UNAVAILABLE",
               "LIFECYCLE_AUTHORITY_STALE", "PROJECT_DELETED"}
Stale(c) ==
  LET r == rec[HostOf[c]] IN
  /\ call[c].answer \in StaleCodes /\ Owns(c)
  /\ Holds(c) /\ r.source = "console" /\ r.returned = "no"
CancelStale(h) ==
  /\ RecIs(h, [rec[h] EXCEPT !.status = "cancelled"])
  /\ scope' = IF scope[h] = "pending" THEN [scope EXCEPT ![h] = "cancelled"] ELSE scope

\* After the answer: give up keeping the claim, retire a stale one, or activate
\* the scope (activateTaskScopeForResume) if the lock is still this call's.
DeliverableAnyhow(c) == call[c].answer # "lost" /\ Owns(c)
Deliverable(c) == call[c].answer = "accepted" /\ Owns(c)
ScopeReady(h) == scope[h] = "active" \/ (scope[h] = "pending" /\ rec[h].fresh = "yes")
TakeAnswered(c) ==
  LET h == HostOf[c] IN
  /\ call[c].pc = "answered"
  /\ \/ /\ Deliverable(c) /\ ScopeReady(h)
        /\ scope' = [scope EXCEPT ![h] = "active"]
        /\ CallIs(c, [call[c] EXCEPT !.pc = "mark"])
        /\ UNCHANGED <<rec, lock>>
     \/ Stale(c) /\ CancelStale(h) /\ CallIs(c, Idle) /\ Release(c)
     \/ /\ ~(Deliverable(c) /\ ScopeReady(h)) /\ ~Stale(c)
        /\ CallIs(c, Idle) /\ Release(c)
        /\ UNCHANGED <<rec, scope>>
  /\ UNCHANGED <<serverVars, outbox, network, given, faults, intents, cut>>

\* markMcpResumeContextReturned, and the release of the lock: an error if the
\* record has moved on, else the result is ready to be sent.
MarkReturned(c) ==
  LET h == HostOf[c] IN
  /\ call[c].pc = "mark"
  /\ \/ /\ Holds(c)
        /\ RecIs(h, [rec[h] EXCEPT !.returned = "yes"])
        /\ CallIs(c, [call[c] EXCEPT !.pc = "return"])
     \/ ~Holds(c) /\ CallIs(c, Idle) /\ rec' = rec
  /\ Release(c)
  /\ UNCHANGED <<serverVars, scope, outbox, network, given, faults, intents, cut>>

\* The model gets the result of the tool.
HandOver(c) ==
  /\ call[c].pc = "return"
  /\ Give("receipt", <<HostOf[c], call[c].n>>)
  /\ CallIs(c, Idle)
  /\ UNCHANGED <<serverVars, rec, scope, outbox, network, faults, codexVars>>

\* The process of a tool call or of a hook is killed.  After the marker, no later
\* call hands the context over in its place.
Kill(c, kind) ==
  /\ call[c].pc # "idle"
  /\ faults < MaxFaults /\ faults' = faults + 1
  /\ KillAll({c}, kind)
  /\ lock' = IF Owns(c) THEN [lock EXCEPT ![HostOf[c]] = "dead"] ELSE lock
  /\ cut' = IF kind = "receipt" /\ call[c].pc = "return"
            THEN cut \cup {<<HostOf[c], call[c].n>>} ELSE cut
  /\ UNCHANGED <<serverVars, rec, scope, outbox, given, intents>>

-----------------------------------------------------------------------------
(* hook.mjs *)

\* finishMcpResumeDelivery for a recorded intent; the acknowledgement is in the
\* record, from which every later hook queues it again until it is accepted.
IntentApplies(h) ==
  /\ <<h, rec[h].n>> \in intents
  /\ rec[h].status = "in_flight" /\ rec[h].kind = "receipt" /\ rec[h].returned = "yes"
FinishedAsPhase(h) == [rec[h] EXCEPT !.status = "acknowledged"]
Finished(h) == [rec[h] EXCEPT !.status = "delivered"]

FinishDelivery(h) ==
  /\ RecIs(h, Finished(h))
  /\ outbox' = outbox \cup {Event(h, "acknowledged")}
  /\ Tick(rec[h])

\* SessionStart: under the lock, apply intents and then fail what is in flight
\* (not after a compaction); injections are recovered without the lock.
SessionStart(k, source) ==
  LET h == HostOf[k]
      interrupted == rec[h].status = "in_flight" /\ source # "compact"
  IN
  /\ call[k].pc = "idle"
  /\ \/ IntentApplies(h) /\ UnderLock(h) /\ FinishDelivery(h)
     \/ /\ ~IntentApplies(h) /\ interrupted
        /\ UnderLock(h) \/ (rec[h].kind = "injection" /\ ~CanAcquire(h) /\ WithoutLock)
        /\ FailAttempt(h)
     \/ /\ ~IntentApplies(h) /\ ~interrupted
        /\ UnderLock(h) /\ UNCHANGED <<rec, outbox, clock>>
  /\ UNCHANGED <<server, events, scope, call, network, given, intents, cut>>

\* UserPromptSubmit, and the probe after the tool: claimResumeInjection when
\* nothing is left to report; a second hook of the same turn claims it again.
PromptSubmit(k) ==
  LET h == HostOf[k] IN
  /\ call[k].pc = "idle"
  /\ \A m \in outbox : m.id[1] # h
  /\ rec[h].kind = "injection" /\ rec[h].fresh = "yes"
  /\ \/ /\ rec[h].status = "pending"
        /\ RecIs(h, Claimed(rec[h])) /\ CallIs(k, Sending(Claimed(rec[h])))
        /\ Tick(rec[h])
     \/ /\ rec[h].status = "in_flight"
        /\ CallIs(k, Sending(rec[h]))
        /\ UNCHANGED <<rec, clock>>
  /\ UNCHANGED <<server, events, scope, outbox, network, given, faults, codexVars>>

\* The context goes out with the hook's output, or the attempt fails.
PromptAnswered(k) ==
  LET h == HostOf[k]
      mine == Holds(k) /\ rec[h].kind = "injection" IN
  /\ call[k].pc = "answered"
  /\ CallIs(k, Idle)
  /\ IF call[k].answer = "accepted"
     THEN /\ Give("injection", <<h, call[k].n>>)
          /\ scope' = IF ScopeReady(h) THEN [scope EXCEPT ![h] = "active"] ELSE scope
          /\ UNCHANGED <<rec, outbox, clock>>
     ELSE /\ mine => Renewable(h)
          /\ rec' = IF mine THEN [rec EXCEPT ![h] = Retry(h)] ELSE rec
          /\ outbox' = IF mine THEN outbox \cup {Event(h, "failed")} ELSE outbox
          /\ clock' = clock
          /\ UNCHANGED <<scope, given>>
  /\ UNCHANGED <<server, events, network, faults, codexVars>>

\* Stop begins with the intent, before anything it may have to wait for.
Stop(k) ==
  LET h == HostOf[k] IN
  /\ call[k].pc = "idle"
  /\ rec[h].status \in {"pending", "in_flight"}
  /\ intents' = IF rec[h].status = "in_flight" /\ rec[h].kind = "receipt" /\ rec[h].returned = "yes"
                THEN intents \cup {<<h, rec[h].n>>} ELSE intents
  /\ CallIs(k, Waiting("stop"))
  /\ UNCHANGED <<serverVars, rec, scope, outbox, network, given, faults, lock, cut>>

\* It ends with the acknowledgements, of an injection without a look at whether
\* the context went out, and arms what was confirmed in this turn.
StopEnds(k) ==
  LET h == HostOf[k] IN
  /\ call[k].pc = "stop"
  /\ CallIs(k, Idle)
  /\ \/ IntentApplies(h) /\ UnderLock(h) /\ FinishDelivery(h)
     \/ /\ (UnderLock(h) /\ ~IntentApplies(h)) \/ (~CanAcquire(h) /\ WithoutLock)
        /\ \/ rec[h].status = "in_flight" /\ rec[h].kind = "injection" /\ FinishDelivery(h)
           \/ /\ rec[h].status = "pending" /\ rec[h].fresh = "yes"
              /\ RecIs(h, [rec[h] EXCEPT !.armed = "yes"])
              /\ UNCHANGED <<outbox, clock>>
           \/ UNCHANGED <<rec, outbox, clock>>
  /\ UNCHANGED <<server, events, scope, network, given, intents, cut>>

CodexNext(h, running) ==
  \/ CodexConfirm(h)
  \/ \E c \in {t \in Tools \cap running : HostOf[t] = h} :
       \/ TakePendingResume(c)
       \/ Pulled(c) /\ UNCHANGED codexVars
       \/ PendingPulled(c)
       \/ (Answer(c, "receipt") \/ Lose(c, "receipt")) /\ UNCHANGED codexVars
       \/ TakeAnswered(c) \/ MarkReturned(c) \/ HandOver(c)
       \/ Kill(c, "receipt")
  \/ \E k \in {t \in Hooks \cap running : HostOf[t] = h} :
       \/ \E source \in {"startup", "compact"} : SessionStart(k, source)
       \/ PromptSubmit(k)
       \/ (Answer(k, "injection") \/ Lose(k, "injection")) /\ UNCHANGED codexVars
       \/ PromptAnswered(k)
       \/ Stop(k) \/ StopEnds(k)
       \/ Kill(k, "injection")

=============================================================================
