------------------------------ MODULE HermesHost ------------------------------
(***************************************************************************)
(* Hosts that run the Hermes adapter: threads and processes whose          *)
(* pre_llm_call returns the context of a Resume and reports an injection.  *)
(* Each operation on the record holds the directory lock, an flock that is *)
(* never stolen, so it is one step.                                        *)
(***************************************************************************)
EXTENDS DeliveryCalls

CONSTANT HermesCalls        \* runs of pre_llm_call

ASSUME HermesAssumption == HermesCalls \subseteq Calls

HermesHosts == {HostOf[c] : c \in HermesCalls}

\* confirm_tool and /mnemuron confirm: the scope is staged unless it is there,
\* the record written unless one is there that was not cancelled.
HermesConfirm(h) ==
  /\ ~Bound /\ Confirmable /\ Confirmed
  /\ \/ UNCHANGED <<rec, scope>>
     \/ /\ rec[h].status = "none"
        /\ RecIs(h, NewRec(h, "agent", "injection", "yes"))
        /\ scope' = IF scope[h] = "none" THEN [scope EXCEPT ![h] = "pending"] ELSE scope
  /\ UNCHANGED <<handoff, rows, clock, events, call, outbox, network, given, faults>>

\* claim: the attempt of this session, or the pending one.
HermesClaims(c, r) ==
  LET claimed == Claimed(r) IN
  /\ r.fresh = "yes"
  /\ \/ /\ r.status = "pending"
        /\ RecIs(HostOf[c], claimed) /\ CallIs(c, Sending(claimed)) /\ Tick(claimed)
     \/ /\ r.status = "in_flight" /\ r.returned = "no"
        /\ RecIs(HostOf[c], r) /\ CallIs(c, Sending(r)) /\ clock' = clock

\* pre_llm_call up to its first request: an attempt in flight may be that of
\* another session; then the server is asked.
PreLlmCall(c) ==
  LET r == rec[HostOf[c]] IN
  /\ call[c].pc = "idle"
  /\ ActivateScope(HostOf[c])
  /\ \/ HermesClaims(c, r)
     \/ /\ ~(r.status = "pending" /\ r.fresh = "yes")
        /\ call' = IF Bound THEN [call EXCEPT ![c] = Waiting("pull")] ELSE call
        /\ UNCHANGED <<rec, clock>>
  /\ UNCHANGED <<server, events, outbox, network, given, faults>>

\* queue renews a pending record of the console that has expired and replaces
\* a cancelled one; then claim is tried again.
HermesPulled(c) ==
  LET h == HostOf[c]
      renew == \/ rec[h].status \in {"none", "cancelled"}
               \/ rec[h].status = "pending" /\ rec[h].source = "console" /\ rec[h].fresh = "no"
      queued == IF renew THEN NewRec(h, "console", "injection", "yes") ELSE rec[h]
  IN
  /\ call[c].pc = "pulled"
  /\ \/ /\ call[c].answer = "packet"
        /\ renew => rec[h].status = "none" \/ Renewable(h)
        /\ HermesClaims(c, queued)
     \/ /\ \/ call[c].answer # "packet"
           \/ queued.fresh = "no" \/ queued.status = "delivered" \/ queued.returned = "yes"
        /\ CallIs(c, Idle)
        /\ UNCHANGED <<rec, clock>>
  /\ UNCHANGED <<server, events, scope, outbox, network, given, faults>>

\* mark_context_returned, with the scope in the same write, and the context;
\* else the authorization of the console is cancelled, or the attempt fails.
PermanentRefusals ==
  {"RESUME_CONTEXT_CHANGED", "RESUME_TARGET_UNAVAILABLE", "RESUME_TARGET_MISMATCH",
   "RESUME_ALREADY_DELIVERED", "LIFECYCLE_AUTHORITY_STALE", "PROJECT_DELETED"}
MarkContextReturned(c) ==
  LET h == HostOf[c] IN
  /\ RecIs(h, [rec[h] EXCEPT !.returned = "yes"])
  /\ Give("injection", <<h, call[c].n>>)
  /\ scope' = IF rec[h].source = "console" THEN [scope EXCEPT ![h] = "active"] ELSE scope
  /\ UNCHANGED <<outbox, clock>>
CancelConsoleAuthorization(h) ==
  /\ RecIs(h, [rec[h] EXCEPT !.status = "cancelled"])
  /\ UNCHANGED <<scope, outbox, given, clock>>
HermesAnswered(c) ==
  LET h == HostOf[c]
      r == rec[h]
      accepted == call[c].answer = "accepted"
      handed == r.source = "console" /\ r.returned = "yes"
      retires == r.source = "console" /\ call[c].answer \in PermanentRefusals
      marks == accepted /\ Holds(c) /\ r.returned = "no"
      cancels == retires /\ r.n = call[c].n /\ ~handed
      fails == ~accepted /\ ~retires /\ Holds(c) /\ ~handed
  IN
  /\ call[c].pc = "answered"
  /\ CallIs(c, Idle)
  /\ \/ marks /\ MarkContextReturned(c)
     \/ cancels /\ CancelConsoleAuthorization(h)
     \/ fails /\ FailAttempt(h) /\ UNCHANGED <<scope, given>>
     \/ ~marks /\ ~cancels /\ ~fails /\ UNCHANGED <<rec, scope, outbox, given, clock>>
  /\ UNCHANGED <<server, events, network, faults>>

\* on_session_end: finish.
OnSessionEnd(h, success) ==
  /\ rec[h].status = "in_flight"
  /\ IF success /\ (rec[h].source = "agent" \/ rec[h].returned = "yes")
     THEN AcknowledgeAttempt(h) ELSE FailAttempt(h)
  /\ UNCHANGED <<server, events, scope, call, network, given, faults>>

\* register in a process that starts: recover_in_flight fails what is in flight,
\* its own or that of a process that still runs.
Register(h) ==
  /\ faults < MaxFaults /\ faults' = faults + 1
  /\ rec[h].status = "in_flight"
  /\ \E killed \in SUBSET {c \in HermesCalls : HostOf[c] = h} :
       KillAll(killed, "injection")
  /\ FailAttempt(h)
  /\ UNCHANGED <<server, events, scope, given>>

HermesNext(h, running) ==
  \/ HermesConfirm(h)
  \/ \E success \in BOOLEAN : OnSessionEnd(h, success)
  \/ Register(h)
  \/ \E c \in {k \in HermesCalls \cap running : HostOf[k] = h} :
       \/ PreLlmCall(c)
       \/ Pulled(c)
       \/ HermesPulled(c)
       \/ Answer(c, "injection") \/ Lose(c, "injection")
       \/ HermesAnswered(c)

=============================================================================
