----------------------------- MODULE DeliveryCalls -----------------------------
(***************************************************************************)
(* What the hosts of a Resume have in common: a local record of the        *)
(* confirmed packet, calls that run concurrently in a host and wait for    *)
(* the server in between, an outbox of events to report, and a network     *)
(* that may lose an answer or deliver a request late.  Outbox models how   *)
(* the queued events are sent; here one may arrive at any time.            *)
(***************************************************************************)
EXTENDS ResumeServer

CONSTANTS
  Calls,        \* concurrent calls (tool calls, hooks, callbacks)
  HostOf,       \* the host of each
  MaxFaults     \* bound: answers lost and hosts killed

ASSUME CallsAssumption == HostOf \in [Calls -> Hosts] /\ MaxFaults \in Nat

VARIABLES
  rec,          \* pending-resumes/<resume>.json of each host
  scope,        \* task-scopes/<resume>.json of each host
  call,         \* the local variables of each call
  outbox,       \* events queued on the hosts' disks
  network,      \* requests the caller has given up and that may still arrive
  given,        \* how often the context of an attempt was handed to a model: 0, 1 or more
  faults

callVars == <<rec, scope, call, outbox, network, given, faults>>
deliveryVars == <<serverVars, callVars>>

Message == Row
\* n numbers the attempt; at is the time it was claimed.
Rec ==
  [status : {"none", "pending", "in_flight", "delivered", "cancelled"},
   n : 1..MaxTries, at : Nat, source : {"agent", "console"},
   kind : Kinds, armed : {"yes", "no"}, returned : {"yes", "no"},
   fresh : {"yes", "no"}]
Scopes == {"none", "pending", "active", "cancelled"}
Codes == {"accepted", "HANDOFF_DISABLED", "CONFLICT", "PROJECT_DELETED",
          "RESUME_TARGET_MISMATCH", "LIFECYCLE_AUTHORITY_STALE",
          "RESUME_CONTEXT_CHANGED", "RESUME_TARGET_UNAVAILABLE",
          "RESUME_ALREADY_DELIVERED"}
Call ==
  [pc : {"idle", "pull", "pulled", "send", "answered", "accepted", "mark", "return", "stop"},
   n : 1..MaxTries, at : Nat,
   answer : Codes \cup {"none", "lost", "packet", "not_latest"}]

NoRec == [status |-> "none", n |-> 1, at |-> 0, source |-> "agent",
          kind |-> "injection", armed |-> "yes", returned |-> "no", fresh |-> "yes"]
Idle == [pc |-> "idle", n |-> 1, at |-> 0, answer |-> "none"]

CallsInit ==
  /\ rec = [h \in Hosts |-> NoRec]
  /\ scope = [h \in Hosts |-> "none"]
  /\ call = [c \in Calls |-> Idle]
  /\ outbox = {}
  /\ network = {}
  /\ given = [kind \in Kinds |-> [id \in Attempts |-> 0]]
  /\ faults = 0

CallsTypeOK ==
  /\ rec \in [Hosts -> Rec]
  /\ scope \in [Hosts -> Scopes]
  /\ call \in [Calls -> Call]
  /\ outbox \subseteq Message
  /\ network \subseteq Message
  /\ given \in [Kinds -> [Attempts -> 0..2]]
  /\ faults \in 0..MaxFaults

-----------------------------------------------------------------------------
CallIs(c, r) == call' = [call EXCEPT ![c] = r]
RecIs(h, r) == rec' = [rec EXCEPT ![h] = r]
Give(kind, id) == given' = [given EXCEPT ![kind][id] = IF @ < 2 THEN @ + 1 ELSE 2]

\* The time, of which only the order matters: receipts of several hosts are
\* compared, injections only of the target of the console, whose attempts
\* follow each other, so the number of the attempt is their time.
Now(r) == IF r.kind = "receipt" THEN clock ELSE r.n
Tick(r) == clock' = IF r.kind = "receipt" THEN clock + 1 ELSE clock
Event(h, phase) ==
  [kind |-> rec[h].kind, id |-> <<h, rec[h].n>>, phase |-> phase, at |-> Now(rec[h])]
Claimed(r) == [r EXCEPT !.status = "in_flight", !.at = Now(r)]
Renewable(h) == rec[h].n < MaxTries
RetrySameAttempt(h) == [rec[h] EXCEPT !.status = "pending", !.at = 0, !.returned = "no"]
Retry(h) == [rec[h] EXCEPT !.status = "pending", !.n = @ + 1, !.at = 0, !.returned = "no"]
\* A new record is a new attempt, whatever becomes of the one it replaces.
NewRec(h, source, kind, armed) ==
  [NoRec EXCEPT !.status = "pending", !.source = source, !.kind = kind, !.armed = armed,
                !.n = IF rec[h].status = "none" THEN 1 ELSE rec[h].n + 1]
Sending(r) == [pc |-> "send", n |-> r.n, at |-> r.at, answer |-> "none"]
Waiting(pc) == [Idle EXCEPT !.pc = pc]

\* The request of a call that waits at "send": its claimed attempt is declared.
Declaration(c, kind) ==
  [kind |-> kind, id |-> <<HostOf[c], call[c].n>>, phase |-> "initial", at |-> call[c].at]

\* The status in the answer says that this receipt, and no other, is in flight.
CentralDeliveryAcceptance(id) == Latest("receipt") = id /\ InFlight("receipt", id)

\* The server handles the declaration and its answer arrives; only the receipt
\* protocol looks at the status in it.
Answer(c, kind) ==
  \E m \in {Declaration(c, kind)} :
    /\ call[c].pc = "send"
    /\ Record(m)
    /\ CallIs(c, [call[c] EXCEPT
         !.pc = "answered",
         !.answer = IF /\ Verdict(m) = "accepted" /\ kind = "receipt"
                       /\ ~CentralDeliveryAcceptance(m.id)'
                    THEN "not_latest" ELSE Verdict(m)])
    /\ UNCHANGED <<resume, handoff, clock, events, rec, scope, outbox, network, given, faults>>

\* The caller sees an error; the request may still arrive.
Lose(c, kind) ==
  /\ call[c].pc = "send"
  /\ faults < MaxFaults /\ faults' = faults + 1
  /\ network' = network \cup {Declaration(c, kind)}
  /\ CallIs(c, [call[c] EXCEPT !.pc = "answered", !.answer = "lost"])
  /\ UNCHANGED <<serverVars, rec, scope, outbox, given>>

\* Processes are killed; a request they have sent may still arrive.
KillAll(killed, kind) ==
  /\ call' = [c \in Calls |-> IF c \in killed THEN Idle ELSE call[c]]
  /\ network' = network \cup {Declaration(c, kind) : c \in {k \in killed : call[k].pc = "send"}}

\* A late request, or a queued event: it leaves the outbox once it is accepted.
Arrive ==
  \E m \in network \cup outbox :
    /\ Record(m)
    /\ network' = network \ {m}
    /\ outbox' = IF Verdict(m) = "accepted" THEN outbox \ {m} ELSE outbox
    /\ UNCHANGED <<resume, handoff, clock, events, rec, scope, call, given, faults>>

\* POST /v1/resume/pending: the packet is offered or not; a caller that gets no
\* answer does as if it was not.  Only a Resume of the console is ever offered,
\* so a call asks for no other.
Pulled(c) ==
  /\ call[c].pc = "pull"
  /\ CallIs(c, [call[c] EXCEPT
       !.pc = "pulled", !.answer = IF Pending(HostOf[c]) THEN "packet" ELSE "none"])
  /\ UNCHANGED <<serverVars, rec, scope, outbox, network, given, faults>>

\* An attempt that did not end well: its failure is reported and the next one
\* takes its place.  (OpenClaw and Hermes; retryRecord, _retry_record.)
FailAttempt(h) ==
  /\ Renewable(h)
  /\ RecIs(h, Retry(h))
  /\ outbox' = outbox \cup {Event(h, "failed")}
  /\ Tick(rec[h])
\* A turn ended with success.
AcknowledgeAttempt(h) ==
  /\ RecIs(h, [rec[h] EXCEPT !.status = "delivered"])
  /\ outbox' = outbox \cup {Event(h, "acknowledged")}
  /\ Tick(rec[h])
\* TaskScopeStore.activate of a scope an agent confirmed: unless it has expired
\* or belongs to another conversation.
ActivateScope(h) ==
  \/ scope' = scope
  \/ scope[h] = "pending" /\ scope' = [scope EXCEPT ![h] = "active"]

Holds(c) ==
  LET r == rec[HostOf[c]] IN r.status = "in_flight" /\ r.n = call[c].n

\* The local copy of a packet expires after 24 hours.
Expire(h) ==
  /\ rec[h].status \in {"pending", "in_flight"} /\ rec[h].fresh = "yes"
  /\ events < MaxEvents /\ events' = events + 1
  /\ RecIs(h, [rec[h] EXCEPT !.fresh = "no"])
  /\ UNCHANGED <<server, clock, scope, call, outbox, network, given, faults>>

=============================================================================
