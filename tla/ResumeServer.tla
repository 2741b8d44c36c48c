----------------------------- MODULE ResumeServer -----------------------------
(***************************************************************************)
(* One Resume on the central server: the frozen preview and its            *)
(* confirmation, the handoff switch with its drain, and the two receipt    *)
(* protocols in which hosts declare that they hand the Resume's context to *)
(* a model, that a turn completed with it, or that the attempt failed:     *)
(* resume_delivery_receipts ("receipt") and resume_injection_events        *)
(* ("injection").  Every operation is one SQLite transaction.              *)
(*                                                                         *)
(* An attempt is a host and a number: hosts draw random identifiers, and   *)
(* send each with one session, workstream and method, so the provenance    *)
(* comparison of the server is left out.  Times are ranks of one clock.    *)
(***************************************************************************)
EXTENDS Naturals, FiniteSets

CONSTANTS
  Hosts,        \* agents that can be handed a Resume
  NoHost,
  MaxTries,     \* bound: attempts of a host
  MaxEvents     \* bound: changes of the world around the Resume

ASSUME ServerAssumption ==
  /\ NoHost \notin Hosts
  /\ MaxTries \in Nat \ {0}
  /\ MaxEvents \in Nat

VARIABLES
  resume,       \* the row of resumes, and what its guards look at
  handoff,      \* handoff_module_state and handoff_drain_resumes
  rows,         \* both receipt tables
  clock,        \* the time
  events        \* changes of the world so far

server == <<resume, handoff, rows>>
serverVars == <<server, clock, events>>

Kinds == {"receipt", "injection"}
Phases == {"initial", "acknowledged", "failed"}
Attempts == Hosts \X (1..MaxTries)
Row == [kind : Kinds, id : Attempts, phase : Phases, at : Nat]
\* context: "progressed" is a change of the task or of a source, "stale" a
\* change of the lifecycle generation, "deleted" that of the project.
Resume ==
  [status : {"none", "pending_confirmation", "confirmed", "cancelled"},
   target : Hosts \cup {NoHost},
   context : {"current", "progressed", "stale", "deleted"},
   session : {"open", "ended"}, preview : {"valid", "expired"}]
Handoff == [enabled : {"yes", "no"}, drain : {"yes", "no"}]

ServerInit ==
  /\ resume = [status |-> "none", target |-> NoHost, context |-> "current",
               session |-> "open", preview |-> "valid"]
  /\ handoff = [enabled |-> "yes", drain |-> "no"]
  /\ rows = {}
  /\ clock = 0
  /\ events = 0

ServerTypeOK ==
  /\ resume \in Resume
  /\ handoff \in Handoff
  /\ rows \subseteq Row
  /\ clock \in Nat
  /\ events \in 0..MaxEvents

-----------------------------------------------------------------------------
(* What the tables say *)

Has(kind, id, phase) == \E r \in rows : r.kind = kind /\ r.id = id /\ r.phase = phase
Recorded(kind) == {r.id : r \in {s \in rows : s.kind = kind}}
Completed(kind, id) == Has(kind, id, "initial") /\ Has(kind, id, "acknowledged")
InFlight(kind, id) ==
  /\ Has(kind, id, "initial")
  /\ ~Has(kind, id, "acknowledged") /\ ~Has(kind, id, "failed")

AttemptStatus(kind, id) ==
  CASE Completed(kind, id) -> "acknowledged"
    [] ~Completed(kind, id) /\ Has(kind, id, "failed") -> "failed"
    [] InFlight(kind, id) -> "in_flight"
    [] OTHER -> "acknowledged_unpaired"

\* An attempt is dated by its acknowledgement, else by its failure, else by its
\* declaration, whenever these were received.
DatedBy(kind, id) ==
  IF Has(kind, id, "acknowledged") THEN "acknowledged"
  ELSE IF Has(kind, id, "failed") THEN "failed" ELSE "initial"
Date(kind, id) ==
  (CHOOSE r \in rows : r.kind = kind /\ r.id = id /\ r.phase = DatedBy(kind, id)).at

\* injectionStatus and deliveryReceiptStatus: a completed attempt, else the one
\* of the latest date.
Latest(kind) ==
  CHOOSE id \in Recorded(kind) :
    \/ Completed(kind, id)
    \/ /\ \A other \in Recorded(kind) : ~Completed(kind, other)
       /\ \A other \in Recorded(kind) : Date(kind, other) =< Date(kind, id)
InjectionStatus ==
  IF Recorded("injection") = {} THEN "unreported"
  ELSE AttemptStatus("injection", Latest("injection"))
DeliveryReceiptStatus ==
  IF Recorded("receipt") = {} THEN "unreported"
  ELSE AttemptStatus("receipt", Latest("receipt"))

\* ConsoleResumeWorkflows.delivery.
DeliveryStatus ==
  LET both == {InjectionStatus, DeliveryReceiptStatus} IN
  CASE "acknowledged" \in both -> "completed"
    [] "acknowledged" \notin both /\ "in_flight" \in both -> "delivered"
    [] both \cap {"acknowledged", "in_flight"} = {} /\ "failed" \in both -> "failed"
    [] OTHER -> IF "acknowledged_unpaired" \in both THEN "acknowledged_unpaired"
                ELSE "not_delivered"

-----------------------------------------------------------------------------
(* Preview, confirmation and the handoff switch *)

Enabled == handoff.enabled = "yes"
Bound == resume.target # NoHost
ContextCurrent == resume.context = "current"
TargetOpen == resume.session = "open"

\* createPreview for an agent, or preview of the console for one open session.
CreatePreview(target) ==
  /\ Enabled
  /\ resume.status = "none"
  /\ resume' = [resume EXCEPT !.status = "pending_confirmation", !.target = target]
  /\ UNCHANGED <<handoff, rows, clock, events>>

\* confirmPreview with confirmed = true answers with the packet: the first time
\* and when it is repeated.
Confirmable ==
  /\ Enabled
  /\ resume.context \notin {"stale", "deleted"}
  /\ \/ resume.status = "confirmed"
     \/ resume.status = "pending_confirmation" /\ resume.preview = "valid"
Confirmed == resume' = [resume EXCEPT !.status = "confirmed"]

\* confirmPreview with confirmed = false: of a pending preview, whatever has
\* happened to its sources.
Cancel ==
  /\ Enabled
  /\ resume.status = "pending_confirmation" /\ resume.preview = "valid"
  /\ Bound => resume.context # "deleted"
  /\ resume' = [resume EXCEPT !.status = "cancelled"]
  /\ UNCHANGED <<handoff, rows, clock, events>>

\* confirm of the console; no agent may confirm a Resume of the console.
ConsoleConfirm ==
  /\ Bound
  /\ ContextCurrent /\ TargetOpen
  /\ Confirmable
  /\ Confirmed
  /\ UNCHANGED <<handoff, rows, clock, events>>

\* setEnabled, and the constructor when the configuration changed: switching
\* off remembers the confirmed Resumes, whose deliveries may still end.
SetEnabled ==
  /\ events < MaxEvents /\ events' = events + 1
  /\ handoff' = IF Enabled
                THEN [enabled |-> "no",
                      drain |-> IF resume.status = "confirmed" THEN "yes" ELSE "no"]
                ELSE [handoff EXCEPT !.enabled = "yes"]
  /\ UNCHANGED <<resume, rows, clock>>

\* The sources move on, the selected session ends, or the preview expires.
World ==
  /\ resume.status # "none"
  /\ events < MaxEvents /\ events' = events + 1
  /\ \/ /\ resume.context = "current"
        /\ \E to \in {"progressed", "stale", "deleted"} :
             resume' = [resume EXCEPT !.context = to]
     \/ Bound /\ TargetOpen /\ resume' = [resume EXCEPT !.session = "ended"]
     \/ /\ resume.status = "pending_confirmation" /\ resume.preview = "valid"
        /\ resume' = [resume EXCEPT !.preview = "expired"]
  /\ UNCHANGED <<handoff, rows, clock>>

-----------------------------------------------------------------------------
(* Receipts.  A request either is accepted or refused with a code. *)

Duplicate(m) == Has(m.kind, m.id, m.phase)

\* HandoffPolicy.allowReceipt.
AllowReceipt(m) ==
  Enabled \/ /\ handoff.drain = "yes"
             /\ m.phase = "initial" => Recorded(m.kind) = {} \/ m.id \in Recorded(m.kind)

\* ConsoleResumeWorkflows.assertReceipt: the code it refuses with, or "none".
AssertReceipt(m) ==
  LET other == IF m.kind = "injection" THEN DeliveryReceiptStatus ELSE InjectionStatus
      first == m.phase = "initial" /\ ~Duplicate(m)
  IN IF ~Bound THEN "none"
     ELSE IF resume.context = "deleted" THEN "PROJECT_DELETED"
     ELSE IF m.id[1] # resume.target THEN "RESUME_TARGET_MISMATCH"
     ELSE IF first /\ resume.context = "stale" THEN "LIFECYCLE_AUTHORITY_STALE"
     ELSE IF first /\ resume.context = "progressed" THEN "RESUME_CONTEXT_CHANGED"
     ELSE IF first /\ ~TargetOpen THEN "RESUME_TARGET_UNAVAILABLE"
     ELSE IF first /\ other \in {"acknowledged", "in_flight"} THEN "RESUME_ALREADY_DELIVERED"
     ELSE "none"

\* recordInjectionEvent and recordDeliveryReceipt admit one delivery at a time,
\* and none after a completed one.
NotInFlightElsewhere(m) ==
  \A other \in Recorded(m.kind) \ {m.id} : ~InFlight(m.kind, other)
NotCompletedElsewhere(m) ==
  \A other \in Recorded(m.kind) \ {m.id} : ~Completed(m.kind, other)
NotElsewhere(m) ==
  \A other \in Recorded(m.kind) \ {m.id} :
    ~Completed(m.kind, other) /\ ~InFlight(m.kind, other)

\* Only the receipt protocol asks for the declaration before its acknowledgement.
RecordInjectionEvent(m) == m.phase = "initial" => NotElsewhere(m)
RecordAnyReceipt(m) == m.phase = "acknowledged" => Has("receipt", m.id, "initial")
RecordDeliveryReceipt(m) ==
  /\ m.phase = "initial" => NotElsewhere(m)
  /\ m.phase = "acknowledged" => Has("receipt", m.id, "initial")

Verdict(m) ==
  IF ~AllowReceipt(m) THEN "HANDOFF_DISABLED"
  ELSE IF resume.status # "confirmed" THEN "CONFLICT"
  ELSE IF AssertReceipt(m) # "none" THEN AssertReceipt(m)
  ELSE IF resume.context = "deleted" THEN "PROJECT_DELETED"
  ELSE IF \/ Duplicate(m)
          \/ m.kind = "injection" /\ RecordInjectionEvent(m)
          \/ m.kind = "receipt" /\ RecordDeliveryReceipt(m) THEN "accepted"
  ELSE "CONFLICT"

\* What the tables hold after a request.
Record(m) ==
  rows' = IF Verdict(m) = "accepted" /\ ~Duplicate(m) THEN rows \cup {m} ELSE rows

\* pending of the console: the packet is offered to the target until a delivery
\* of it is under way or done; while draining, until the first attempt.
Unconsumed(kind) ==
  \A id \in Recorded(kind) : ~Completed(kind, id) /\ ~InFlight(kind, id)
Pending(host) ==
  /\ resume.status = "confirmed" /\ resume.target = host
  /\ \A kind \in Kinds : Unconsumed(kind)
  /\ DeliveryStatus \in {"failed", "not_delivered"}
  /\ Enabled \/ (handoff.drain = "yes" /\ DeliveryStatus # "failed")
  /\ ContextCurrent /\ TargetOpen

=============================================================================
