----------------------------- MODULE OpenClawHost -----------------------------
(***************************************************************************)
(* Hosts that run the OpenClaw adapter: one process whose before_prompt_   *)
(* build callbacks overlap at their awaits, return the context of a Resume *)
(* to the run they build the prompt of, and report it as an injection.     *)
(* The record is written synchronously between two awaits.                 *)
(***************************************************************************)
EXTENDS DeliveryCalls

CONSTANT OpenClawBuilds     \* callbacks of before_prompt_build

ASSUME OpenClawAssumption == OpenClawBuilds \subseteq Calls

OpenClawHosts == {HostOf[c] : c \in OpenClawBuilds}

\* mnemuron_confirm_resume and /mnemuron confirm: the scope is staged unless it
\* is there; every record but a delivered one is replaced.
OpenClawConfirm(h) ==
  /\ ~Bound /\ Confirmable /\ Confirmed
  /\ \/ UNCHANGED <<rec, scope>>
     \/ /\ rec[h].status # "delivered" /\ Renewable(h)
        /\ RecIs(h, NewRec(h, "agent", "injection", "yes"))
        /\ scope' = IF scope[h] = "none" THEN [scope EXCEPT ![h] = "pending"] ELSE scope
  /\ UNCHANGED <<handoff, rows, clock, events, call, outbox, network, given, faults>>

\* claim: the attempt of this run, or the pending one.
Claimable(r) == r.status = "pending" /\ r.fresh = "yes"
ClaimPending(c, r) ==
  LET claimed == Claimed(r) IN
  /\ Claimable(r)
  /\ RecIs(HostOf[c], claimed) /\ CallIs(c, Sending(claimed)) /\ Tick(claimed)
ClaimAgain(c, r) ==
  /\ r.status = "in_flight" /\ r.fresh = "yes" /\ r.returned = "no"
  /\ RecIs(HostOf[c], r) /\ CallIs(c, Sending(r)) /\ clock' = clock

\* An attempt in flight may be that of another run; then the server is asked,
\* and a scope an agent confirmed is activated when there is nothing to inject.
BeforePromptBuild(c) ==
  LET h == HostOf[c] IN
  /\ call[c].pc = "idle"
  /\ \/ (ClaimPending(c, rec[h]) \/ ClaimAgain(c, rec[h])) /\ scope' = scope
     \/ /\ ~Claimable(rec[h])
        /\ IF Bound THEN CallIs(c, Waiting("pull")) /\ scope' = scope
           ELSE call' = call /\ ActivateScope(h)
        /\ UNCHANGED <<rec, clock>>
  /\ UNCHANGED <<server, events, outbox, network, given, faults>>

\* pullPendingResume queues the packet, keeping what exists unless it is pending
\* and expired; then claim is tried again.
OpenClawPulled(c) ==
  LET h == HostOf[c]
      renew == rec[h].status = "pending" /\ rec[h].fresh = "no"
      queued == IF call[c].answer = "packet" /\ (rec[h].status = "none" \/ renew)
                THEN NewRec(h, "console", "injection", "yes") ELSE rec[h]
  IN
  /\ call[c].pc = "pulled"
  /\ call[c].answer = "packet" /\ renew => Renewable(h)
  /\ \/ ClaimPending(c, queued) \/ ClaimAgain(c, queued)
     \/ ~Claimable(queued) /\ CallIs(c, Idle) /\ UNCHANGED <<rec, clock>>
  /\ UNCHANGED <<server, events, scope, outbox, network, given, faults>>

\* markHandedOff, with the scope in the same write, and the context; or fail.
PermanentCodes == {"RESUME_CONTEXT_CHANGED", "RESUME_TARGET_UNAVAILABLE",
                   "LIFECYCLE_AUTHORITY_STALE", "PROJECT_DELETED"}
MarkHandedOff(c) ==
  LET h == HostOf[c] IN
  /\ RecIs(h, [rec[h] EXCEPT !.returned = "yes"])
  /\ Give("injection", <<h, call[c].n>>)
  /\ IF rec[h].source = "console" THEN scope' = [scope EXCEPT ![h] = "active"] ELSE ActivateScope(h)
  /\ UNCHANGED <<outbox, clock>>
FailClaim(c) ==
  LET h == HostOf[c]
      retired == rec[h].source = "console" /\ call[c].answer \in PermanentCodes IN
  /\ Renewable(h)
  /\ RecIs(h, [Retry(h) EXCEPT !.status = IF retired THEN "cancelled" ELSE "pending"])
  /\ outbox' = outbox \cup {Event(h, "failed")}
  /\ Tick(rec[h])
  /\ UNCHANGED <<scope, given>>
OpenClawAnswered(c) ==
  LET h == HostOf[c]
      accepted == call[c].answer = "accepted"
      marks == accepted /\ Holds(c) /\ rec[h].returned = "no"
      fails == ~accepted /\ Holds(c) /\ ~(rec[h].source = "console" /\ rec[h].returned = "yes")
  IN
  /\ call[c].pc = "answered"
  /\ CallIs(c, Idle)
  /\ \/ marks /\ MarkHandedOff(c)
     \/ fails /\ FailClaim(c)
     \/ ~marks /\ ~fails /\ UNCHANGED <<rec, scope, outbox, given, clock>>
  /\ UNCHANGED <<server, events, network, faults>>

\* agent_end: finish.
AgentEndUnreturned(h, success) ==
  /\ rec[h].status = "in_flight"
  /\ IF success THEN AcknowledgeAttempt(h) ELSE FailAttempt(h)
  /\ UNCHANGED <<server, events, scope, call, network, given, faults>>
AgentEnd(h, success) ==
  /\ rec[h].status = "in_flight"
  /\ IF success /\ (rec[h].source = "agent" \/ rec[h].returned = "yes")
     THEN AcknowledgeAttempt(h) ELSE FailAttempt(h)
  /\ UNCHANGED <<server, events, scope, call, network, given, faults>>

\* The process restarts; gateway_start fails what was in flight.
GatewayStart(h) ==
  /\ faults < MaxFaults /\ faults' = faults + 1
  /\ KillAll({c \in OpenClawBuilds : HostOf[c] = h}, "injection")
  /\ IF rec[h].status = "in_flight" THEN FailAttempt(h) ELSE UNCHANGED <<rec, outbox, clock>>
  /\ UNCHANGED <<server, events, scope, given>>

OpenClawNext(h, running) ==
  \/ OpenClawConfirm(h)
  \/ \E success \in BOOLEAN : AgentEnd(h, success)
  \/ GatewayStart(h)
  \/ \E c \in {b \in OpenClawBuilds \cap running : HostOf[b] = h} :
       \/ BeforePromptBuild(c)
       \/ Pulled(c)
       \/ OpenClawPulled(c)
       \/ Answer(c, "injection") \/ Lose(c, "injection")
       \/ OpenClawAnswered(c)

=============================================================================
