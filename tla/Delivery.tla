------------------------------- MODULE Delivery -------------------------------
(***************************************************************************)
(* One Resume, its server and the hosts that can hand its context to a     *)
(* model: the composition of ResumeServer with CodexHost, OpenClawHost and *)
(* HermesHost.                                                             *)
(***************************************************************************)
EXTENDS CodexHost, OpenClawHost, HermesHost

CONSTANT Parties     \* the sets of calls that may overlap
VARIABLE party       \* the calls that do

vars == <<deliveryVars, codexVars, party>>

\* A host runs one agent, with a data directory of its own; a call is a tool call
\* or a hook.
ASSUME PartiesAssumption ==
  /\ Parties \subseteq SUBSET Calls
  /\ Tools \cap Hooks = {}
  /\ CodexHosts \cap (OpenClawHosts \cup HermesHosts) = {}
  /\ OpenClawHosts \cap HermesHosts = {}

Init ==
  /\ ServerInit /\ CallsInit /\ CodexInit
  /\ party \in Parties

Present == {HostOf[c] : c \in party}

\* The console and agents at the server, and the delayed requests.
ServerNext ==
  \/ \E target \in Present \cup {NoHost} : CreatePreview(target) /\ UNCHANGED callVars
  \/ (Cancel \/ ConsoleConfirm \/ SetEnabled \/ World) /\ UNCHANGED callVars
  \/ Arrive
  \/ \E h \in Present : Expire(h)

Next ==
  /\ party' = party
  /\ \/ ServerNext /\ UNCHANGED codexVars
     \/ \E h \in Present \cap CodexHosts : CodexNext(h, party)
     \/ \E h \in Present \cap OpenClawHosts : OpenClawNext(h, party) /\ UNCHANGED codexVars
     \/ \E h \in Present \cap HermesHosts : HermesNext(h, party) /\ UNCHANGED codexVars

Spec == Init /\ [][Next]_vars

-----------------------------------------------------------------------------
TypeOK == ServerTypeOK /\ CallsTypeOK /\ CodexTypeOK /\ party \in Parties

\* What the tables say, as the abstract specification sees it.
HoldingOf(kind) == {id \in Recorded(kind) : InFlight(kind, id)}
CompletedOf(kind) == {id \in Recorded(kind) : Completed(kind, id)}
Receipts == INSTANCE DeliveryOnce WITH
  holding <- HoldingOf("receipt"), completed <- CompletedOf("receipt")
Injections == INSTANCE DeliveryOnce WITH
  holding <- HoldingOf("injection"), completed <- CompletedOf("injection")

\* Through lost answers, late and repeated requests, crashes and retries, each
\* protocol delivers a Resume once: one attempt holds it at a time, and none is
\* admitted after one completed (recordInjectionEvent, recordDeliveryReceipt,
\* with hosts that never report two ends of one attempt).
DeliveredOnce == Receipts!Spec /\ Injections!Spec

\* The server never has two attempts of one protocol in flight, whatever
\* messages reach it.
OneInFlight ==
  \A kind \in Kinds : \A one, two \in Attempts :
    InFlight(kind, one) /\ InFlight(kind, two) => one = two

\* In each protocol, a context that a tool or a callback has marked as handed to
\* a model is in no other host's hands: no two records of one protocol are both
\* marked and still in flight.  Nothing is said of a receipt beside an injection:
\* the two protocols have a table each.
NoDoubleHold ==
  \A one, two \in Hosts :
    /\ rec[one].status = "in_flight" /\ rec[one].returned = "yes"
    /\ rec[two].status = "in_flight" /\ rec[two].returned = "yes"
    /\ rec[one].kind = rec[two].kind
    => one = two

\* No context is handed over before the server has the declaration, and none
\* twice in one attempt where a marker is kept (markMcpResumeContextReturned,
\* markHandedOff, mark_context_returned); a Codex prompt hook keeps none.
GivenOnce ==
  \A kind \in Kinds : \A id \in Attempts :
    given[kind][id] > 0 =>
      /\ Has(kind, id, "initial")
      /\ given[kind][id] = 1 \/ (kind = "injection" /\ id[1] \in CodexHosts)

\* A delivery of the console that is reported complete, queued or accepted, did
\* hand over its context, or its tool call is about to, or was killed after the
\* marker: the hook Stop looks at the marker alone, so such an attempt is
\* acknowledged though the model never got the context (mcp-core.mjs:1235,
\* hook.mjs:484).  Nothing else completes without a hand-over.
OnItsWay(id) ==
  \E c \in Tools : call[c].pc = "return" /\ <<HostOf[c], call[c].n>> = id
GivenOrCut(kind, id) ==
  given[kind][id] > 0 \/ (kind = "receipt" /\ (OnItsWay(id) \/ id \in cut))
AcknowledgedGiven ==
  Bound => \A m \in rows \cup outbox :
             m.phase = "acknowledged" => GivenOrCut(m.kind, m.id)

\* One attempt never ends both ways, in the queue or at the server.
EndsOnce ==
  \A m, o \in rows \cup outbox :
    m.kind = o.kind /\ m.id = o.id => {m.phase, o.phase} # {"acknowledged", "failed"}

\* Events of a session are labelled with the task of a console Resume only
\* after the server accepted a delivery to that host.
ScopeBacked ==
  Bound => \A h \in Hosts :
    scope[h] = "active" => \E r \in rows : r.id[1] = h /\ r.phase = "initial"

=============================================================================
