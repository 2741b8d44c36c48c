-------------------------------- MODULE Outbox --------------------------------
(***************************************************************************)
(* The outbox of an agent's data directory: envelopes queued as immutable  *)
(* files, and the processes (hooks, the background pump, maintenance) that *)
(* send them to the server with flushQueue of sync-protocol.mjs.           *)
(*                                                                         *)
(* Items are numbered in the order of their time; those of one lane (one   *)
(* session) are queued in that order.  A lane is locked while a process is *)
(* at an item of it.  LaneLock models how at the grain of file system      *)
(* calls; here claimLane is one step, or two when it finds the lock that a *)
(* killed process has left: two processes that both found it may then hold *)
(* the lane together.  What a process does to the files of a lane is cut   *)
(* where a kill or the other holder of the lane can come in between.       *)
(* Damaged files are left out: envelopes are immutable and sidecars are    *)
(* replaced atomically.                                                    *)
(***************************************************************************)
EXTENDS Naturals, FiniteSets

CONSTANTS
  Items,        \* envelopes
  Lane,         \* the session of each
  Kind,         \* the queue of each: "event", "receipt" or "injection"
  Broken,       \* envelopes that the server refuses, or answers wrongly
  Processes,    \* processes that flush
  MaxFaults,    \* bound: answers lost
  MaxCrashes,   \* bound: processes killed or stalled
  MaxCreds      \* bound: credentials, used one after the other

ASSUME ItemsAssumption == Items \subseteq Nat \ {0} /\ IsFiniteSet(Items)
ASSUME KindAssumption == Kind \in [Items -> {"event", "receipt", "injection"}]
ASSUME BrokenAssumption == Broken \subseteq Items
ASSUME BoundsAssumption ==
  /\ MaxFaults \in Nat /\ MaxCrashes \in Nat /\ MaxCreds \in Nat \ {0}
  /\ "dead" \notin Processes

VARIABLES
  queued,       \* items queued so far
  files,        \* items whose envelope is in its queue directory
  quarantine,   \* items moved to the quarantine directory
  sidecar,      \* <item>.json.state
  marker,       \* sync-lanes/<lane>.state: the item that stopped the lane
  authFile,     \* sync-auth.state: the credential that was refused, or 0
  cred,         \* the configured credential
  refused,      \* credentials the server refuses
  broken,       \* items of Broken that are not repaired on the server
  lock,         \* the owner files in the lock directory of each lane, by the
                \* process; "dead" for those of killed processes, and for a
                \* directory that has been empty for a minute
  flusher,      \* the local variables of flushQueue in each process
  server,       \* items the server has accepted
  faults, crashes,
  overlap,      \* history: a flush has begun while another process was in one
  shared        \* history: a process has taken a lane that another one held

disk == <<files, quarantine, sidecar, marker, authFile>>
remote == <<refused, broken, server>>
history == <<overlap, shared>>
vars == <<queued, disk, cred, lock, flusher, remote, faults, crashes, history>>

-----------------------------------------------------------------------------
Lanes == {Lane[i] : i \in Items}
Kinds == {"event", "receipt", "injection"}
None == 0
Creds == 1..MaxCreds
Stopped == {"quarantined", "blocked_protocol", "blocked_reconciliation"}
States == Stopped \cup {"pending", "retry_wait", "paused_auth", "blocked_gap"}
Sidecar == [state : States, cred : Creds \cup {None}, wait : {"yes", "no"}]
NoSidecar == [state |-> "pending", cred |-> None, wait |-> "no"]
Marker == [file : Items \cup {None}, state : States]
NoMarker == [file |-> None, state |-> "pending"]

\* How a request ends: accepted, refused by retryState's classes, or lost.
\* blocked_reconciliation is an answer that does not match what was sent; a
\* conflict (409) is stopped the same way, but cannot be reconciled, which
\* makes it one with blocked_protocol here.
Answers == Stopped \cup {"accepted", "paused_auth", "retry_wait"}
Flusher ==
  [pc : {"idle", "next", "reap", "check", "test", "sent", "answered", "unpause",
         "remove", "clean", "mark", "settle"},
   mode : {"flush", "reconcile"}, cred : Creds \cup {None},
   listed : SUBSET Items, todo : SUBSET Items,
   item : Items \cup {None}, blocked : SUBSET Lanes, sends : {"none", "some"},
   marker : Marker, state : Sidecar,
   via : {"flush", "reconcile"}, answer : Answers]
Idle ==
  [pc |-> "idle", mode |-> "flush", cred |-> None, listed |-> {}, todo |-> {},
   item |-> None, blocked |-> {}, sends |-> "none",
   marker |-> NoMarker, state |-> NoSidecar, via |-> "flush",
   answer |-> "accepted"]

TypeOK ==
  /\ queued \in SUBSET Items
  /\ files \in SUBSET Items
  /\ quarantine \in SUBSET Items
  /\ sidecar \in [Items -> Sidecar]
  /\ marker \in [Lanes -> Marker]
  /\ authFile \in Creds \cup {None}
  /\ cred \in Creds
  /\ refused \in SUBSET Creds
  /\ broken \in SUBSET Items
  /\ lock \in [Lanes -> SUBSET (Processes \cup {"dead"})]
  /\ flusher \in [Processes -> Flusher]
  /\ \A p \in Processes : flusher[p].pc \notin {"idle", "next"} => flusher[p].item \in Items
  /\ server \in SUBSET Items
  /\ faults \in Nat /\ crashes \in Nat
  /\ overlap \in {"no", "yes"} /\ shared \in {"no", "yes"}

Init ==
  /\ queued = {} /\ files = {} /\ quarantine = {}
  /\ sidecar = [i \in Items |-> NoSidecar]
  /\ marker = [l \in Lanes |-> NoMarker]
  /\ authFile = None
  /\ cred = 1
  /\ refused = {}
  /\ broken = Broken
  /\ lock = [l \in Lanes |-> {}]
  /\ flusher = [p \in Processes |-> Idle]
  /\ server = {}
  /\ faults = 0 /\ crashes = 0 /\ overlap = "no" /\ shared = "no"

-----------------------------------------------------------------------------
(* The beginning and the end of a flush *)

Becomes(p, r) == flusher' = [flusher EXCEPT ![p] = r]

\* enqueue: immutableEnvelope in storage.mjs.
Queue(i) ==
  /\ i \notin queued
  /\ \A j \in Items : j < i /\ Lane[j] = Lane[i] => j \in queued
  /\ queued' = queued \cup {i}
  /\ files' = files \cup {i}
  /\ UNCHANGED <<quarantine, sidecar, marker, authFile, cred, lock, flusher,
                 remote, faults, crashes, history>>

\* flushQueue is called for what queueItems lists, and returns at once while
\* the credential is known to be refused.
Begin(p, mode, list) ==
  /\ flusher[p].pc = "idle"
  /\ authFile # cred
  /\ Becomes(p, [Idle EXCEPT !.pc = "next", !.mode = mode, !.cred = cred,
                             !.listed = list, !.todo = list])
  /\ overlap' = IF \E q \in Processes : flusher[q].pc # "idle" THEN "yes" ELSE overlap
  /\ UNCHANGED <<queued, disk, cred, lock, remote, faults, crashes, shared>>

\* flushKind.
Flush(p, kind) ==
  LET list == {i \in files : Kind[i] = kind} IN
  list # {} /\ Begin(p, "flush", list)

\* reconcileEventOutbox: a maintenance flush of chosen blocked events.
Reconcile(p) ==
  \E list \in SUBSET {i \in files : /\ Kind[i] = "event"
                                    /\ sidecar[i].state = "blocked_reconciliation"} :
    list # {} /\ Begin(p, "reconcile", list)

\* The list is done; or 100 requests were sent or 15 seconds have passed (which
\* takes at least one request).
End(p) ==
  /\ flusher[p].pc = "next"
  /\ flusher[p].todo = {}
  /\ Becomes(p, Idle)
  /\ UNCHANGED <<queued, disk, cred, lock, remote, faults, crashes, history>>
TimeIsUp(p) ==
  /\ flusher[p].pc = "next"
  /\ flusher[p].todo # {} /\ flusher[p].sends = "some"
  /\ Becomes(p, Idle)
  /\ UNCHANGED <<queued, disk, cred, lock, remote, faults, crashes, history>>

-----------------------------------------------------------------------------
(* One item *)

First(p, i) == i \in flusher[p].todo /\ \A j \in flusher[p].todo : i <= j
Held(l) == lock[l] \ {"dead"} # {}
Claims(p, i, pc) ==
  Becomes(p, [flusher[p] EXCEPT !.todo = @ \ {i}, !.item = i, !.pc = pc])

\* claimLane for the next item.  A lane that another process holds is passed
\* over, for this item only; a lock that was left is still to be removed.
Take(p) ==
  /\ flusher[p].pc = "next"
  /\ \E i \in Items :
       /\ First(p, i)
       /\ \/ /\ Held(Lane[i])
             /\ Becomes(p, [flusher[p] EXCEPT !.todo = @ \ {i}])
             /\ UNCHANGED lock
          \/ /\ lock[Lane[i]] = {}
             /\ Claims(p, i, "check")
             /\ lock' = [lock EXCEPT ![Lane[i]] = {p}]
          \/ /\ lock[Lane[i]] = {"dead"}
             /\ Claims(p, i, "reap")
             /\ UNCHANGED lock
  /\ UNCHANGED <<queued, disk, cred, remote, faults, crashes, history>>

\* The rest of claimLane for a lock that was left.  Another process that came
\* first is only noticed when its owner file is there: the empty directory it
\* has just made is removed like the one that was left.
Reap(p) ==
  LET l == Lane[flusher[p].item] IN
  /\ flusher[p].pc = "reap"
  /\ \/ /\ Held(l)
        /\ Becomes(p, [flusher[p] EXCEPT !.pc = "next"])
        /\ UNCHANGED <<lock, shared>>
     \/ /\ Becomes(p, [flusher[p] EXCEPT !.pc = "check"])
        /\ lock' = [lock EXCEPT ![l] = IF Held(l) THEN @ \cup {p} ELSE {p}]
        /\ shared' = IF Held(l) THEN "yes" ELSE shared
  /\ UNCHANGED <<queued, disk, cred, remote, faults, crashes, overlap>>

\* The finally clause: the lane is released, and the flush goes on as r.  The
\* directory is not removed while it has another owner, which ends the flush.
Leaves(p, r) ==
  LET l == Lane[flusher[p].item] IN
  /\ lock' = [lock EXCEPT ![l] = @ \ {p}]
  /\ Becomes(p, IF lock[l] = {p} THEN r ELSE Idle)
Between(p) ==
  [flusher[p] EXCEPT !.pc = "next", !.marker = NoMarker, !.state = NoSidecar,
                     !.via = "flush", !.answer = "accepted"]
OnToNext(p) == Leaves(p, Between(p))
\* The same with the lane stopped for the rest of the flush.
Stops(p) == Leaves(p, [Between(p) EXCEPT !.blocked = @ \cup {Lane[flusher[p].item]}])

\* The item was sent by another process since it was listed.
Gone(p) ==
  /\ flusher[p].pc = "check"
  /\ flusher[p].item \notin files
  /\ OnToNext(p)
  /\ UNCHANGED <<queued, disk, cred, remote, faults, crashes, history>>

\* The marker and the sidecar are read once, before anything is tested.
Read(p) ==
  LET i == flusher[p].item IN
  /\ flusher[p].pc = "check"
  /\ i \in files
  /\ Becomes(p, [flusher[p] EXCEPT !.pc = "test", !.marker = marker[Lane[i]],
                                   !.state = sidecar[i]])
  /\ UNCHANGED <<queued, disk, cred, lock, remote, faults, crashes, history>>

\* An older item of the session waits in another queue; a reconciliation also
\* minds the older events it was not asked for.
Predecessor(p, i) ==
  \E j \in files : /\ Lane[j] = Lane[i] /\ j < i
                   /\ \/ Kind[j] # Kind[i]
                      \/ flusher[p].mode = "reconcile" /\ j \notin flusher[p].listed
\* Fault: a marker that names another item is ignored.
LaneStoppedNow(p, i) == Lane[i] \in flusher[p].blocked
\* Another item of the lane failed, in this flush or before.
LaneStopped(p, i) ==
  \/ Lane[i] \in flusher[p].blocked
  \/ flusher[p].marker.file \notin {None, i}
CanReconcile(p, i) ==
  /\ flusher[p].mode = "reconcile"
  /\ Kind[i] = "event"
  /\ flusher[p].state.state = "blocked_reconciliation"
  /\ flusher[p].state.cred = flusher[p].cred
  /\ flusher[p].marker = [file |-> i, state |-> "blocked_reconciliation"]
Waits(p) ==
  /\ flusher[p].state.cred = flusher[p].cred
  /\ flusher[p].state.state = "paused_auth" \/ flusher[p].state.wait = "yes"
\* Fault: an item whose answer did not match is retried like any other.
OnHoldRetries(p, i) ==
  flusher[p].state.state \in {"quarantined", "blocked_protocol"} \/ Waits(p)
\* The item itself has to wait: for maintenance, a credential or its time.
OnHold(p, i) ==
  \/ flusher[p].state.state \in Stopped /\ ~CanReconcile(p, i)
  \/ Waits(p)

\* An older item or a failed one comes first.
Gap(p) ==
  LET i == flusher[p].item IN
  /\ flusher[p].pc = "test"
  /\ Predecessor(p, i) \/ LaneStopped(p, i)
  /\ sidecar' = IF flusher[p].state.state \in Stopped THEN sidecar
                ELSE [sidecar EXCEPT ![i] = [flusher[p].state EXCEPT !.state = "blocked_gap"]]
  /\ OnToNext(p)
  /\ UNCHANGED <<queued, files, quarantine, marker, authFile, cred, remote,
                 faults, crashes, history>>
Free(p) ==
  LET i == flusher[p].item IN
  flusher[p].pc = "test" /\ ~Predecessor(p, i) /\ ~LaneStopped(p, i)

\* The other holder of the lane has removed the envelope: reading it fails, and
\* the error ends the flush.
Vanished(p) ==
  /\ Free(p)
  /\ flusher[p].item \notin files
  /\ Leaves(p, Idle)
  /\ UNCHANGED <<queued, disk, cred, remote, faults, crashes, history>>

Hold(p) ==
  LET i == flusher[p].item IN
  /\ Free(p) /\ i \in files /\ OnHold(p, i)
  /\ Stops(p)
  /\ UNCHANGED <<queued, disk, cred, remote, faults, crashes, history>>

\* The sidecar is set to pending before the request is sent.
Send(p) ==
  LET i == flusher[p].item IN
  /\ Free(p) /\ i \in files /\ ~OnHold(p, i)
  /\ sidecar' = [sidecar EXCEPT ![i] = [flusher[p].state EXCEPT !.state = "pending"]]
  /\ Becomes(p, [flusher[p] EXCEPT !.pc = "sent", !.sends = "some",
                  !.via = IF CanReconcile(p, i) THEN "reconcile" ELSE "flush",
                  !.marker = NoMarker, !.state = NoSidecar])
  /\ UNCHANGED <<queued, files, quarantine, marker, authFile, cred, lock, remote,
                 faults, crashes, history>>

\* The server answers, or its answer is lost after it accepted or before.
Answered(p, answer) == Becomes(p, [flusher[p] EXCEPT !.pc = "answered", !.answer = answer])
Answer(p) ==
  LET i == flusher[p].item
      valid == flusher[p].cred \notin refused IN
  /\ flusher[p].pc = "sent"
  /\ \/ /\ valid /\ i \notin broken
        /\ server' = server \cup {i}
        /\ Answered(p, "accepted")
        /\ UNCHANGED faults
     \/ /\ valid /\ i \in broken
        /\ \E answer \in Stopped : Answered(p, answer)
        /\ UNCHANGED <<server, faults>>
     \/ /\ ~valid
        /\ Answered(p, "paused_auth")
        /\ UNCHANGED <<server, faults>>
     \/ /\ faults < MaxFaults
        /\ faults' = faults + 1
        /\ server' \in {server, IF valid /\ i \notin broken THEN server \cup {i} ELSE server}
        /\ Answered(p, "retry_wait")
  /\ UNCHANGED <<queued, disk, cred, lock, refused, broken, crashes, history>>

\* Fault: any answer is taken for an acceptance.
ValidAcceptanceAny(answer) == TRUE
\* validateAcceptance.
ValidAcceptance(answer) == answer = "accepted"

\* After an acceptance: the refused credential is forgotten (another process
\* may do the same between the test and the unlink, which then fails), the
\* envelope is unlinked, then its sidecar and the marker.
Accept(p) ==
  /\ flusher[p].pc = "answered"
  /\ ValidAcceptance(flusher[p].answer)
  /\ Becomes(p, [flusher[p] EXCEPT !.pc = IF authFile = None THEN "remove" ELSE "unpause"])
  /\ UNCHANGED <<queued, disk, cred, lock, remote, faults, crashes, history>>
Unpause(p) ==
  /\ flusher[p].pc = "unpause"
  /\ \/ authFile # None /\ Becomes(p, [flusher[p] EXCEPT !.pc = "remove"])
     \/ authFile = None /\ Answered(p, "retry_wait")
  /\ authFile' = None
  /\ UNCHANGED <<queued, files, quarantine, sidecar, marker, cred, lock, remote,
                 faults, crashes, history>>
\* Both unlinks fail when the other holder of the lane was faster.
Remove(p) ==
  LET i == flusher[p].item IN
  /\ flusher[p].pc = "remove"
  /\ files' = files \ {i}
  /\ \/ i \in files /\ Becomes(p, [flusher[p] EXCEPT !.pc = "clean"])
     \/ i \notin files /\ Answered(p, "retry_wait")
  /\ UNCHANGED <<queued, quarantine, sidecar, marker, authFile, cred, lock, remote,
                 faults, crashes, history>>
Clean(p) ==
  LET i == flusher[p].item IN
  /\ flusher[p].pc = "clean"
  /\ sidecar' = [sidecar EXCEPT ![i] = NoSidecar]
  /\ \/ marker' = [marker EXCEPT ![Lane[i]] = NoMarker] /\ OnToNext(p)
     \/ lock[Lane[i]] # {p} /\ Answered(p, "retry_wait") /\ UNCHANGED <<marker, lock>>
  /\ UNCHANGED <<queued, files, quarantine, authFile, cred, remote, faults, crashes, history>>

\* Fault: an error without a class is recorded by its code.
FailedStateIsCode(p) ==
  IF flusher[p].answer = "retry_wait" THEN "NETWORK_ERROR" ELSE flusher[p].answer
\* fail(), with the classes of retryState; a reconciliation that fails leaves
\* the item blocked.
FailedState(p) ==
  IF flusher[p].via = "reconcile" THEN "blocked_reconciliation" ELSE flusher[p].answer
Fail(p) ==
  LET i == flusher[p].item IN
  /\ flusher[p].pc = "answered"
  /\ ~ValidAcceptance(flusher[p].answer)
  /\ sidecar' = [sidecar EXCEPT ![i] =
       [state |-> FailedState(p), cred |-> flusher[p].cred,
        wait |-> IF FailedState(p) = "retry_wait" THEN "yes" ELSE "no"]]
  /\ Becomes(p, [flusher[p] EXCEPT !.pc = "mark"])
  /\ UNCHANGED <<queued, files, quarantine, marker, authFile, cred, lock, remote,
                 faults, crashes, history>>
\* What fail() has to do after the marker.
Refuses(p) == FailedState(p) = "quarantined" /\ Kind[flusher[p].item] = "event"
Settles(p) == FailedState(p) = "paused_auth" \/ Refuses(p)
Mark(p) ==
  LET i == flusher[p].item IN
  /\ flusher[p].pc = "mark"
  /\ marker' = [marker EXCEPT ![Lane[i]] = [file |-> i, state |-> FailedState(p)]]
  /\ \/ Settles(p) /\ Becomes(p, [flusher[p] EXCEPT !.pc = "settle"]) /\ UNCHANGED lock
     \/ ~Settles(p) /\ Stops(p)
  /\ UNCHANGED <<queued, files, quarantine, sidecar, authFile, cred, remote,
                 faults, crashes, history>>
\* The refused credential is recorded, which ends the flush, or the refused
\* event is moved to the quarantine.
Settle(p) ==
  LET i == flusher[p].item
      moved == {i} \cap {j \in files : Refuses(p)} IN
  /\ flusher[p].pc = "settle"
  /\ authFile' = IF FailedState(p) = "paused_auth" THEN flusher[p].cred ELSE authFile
  /\ files' = files \ moved
  /\ quarantine' = quarantine \cup moved
  /\ IF moved = {} THEN Leaves(p, Idle) ELSE Stops(p)
  /\ UNCHANGED <<queued, sidecar, marker, cred, remote, faults, crashes, history>>

-----------------------------------------------------------------------------
(* What happens to processes, credentials, time and the server *)

\* A process is killed; a later one takes its place.  It leaves its owner file,
\* or the empty directory of the lane it was about to take or had just left.
Crash(p) ==
  /\ flusher[p].pc # "idle"
  /\ crashes < MaxCrashes
  /\ crashes' = crashes + 1
  /\ Becomes(p, Idle)
  /\ \/ lock' = [l \in Lanes |-> IF p \in lock[l] THEN (lock[l] \ {p}) \cup {"dead"}
                                ELSE lock[l]]
     \/ \E i \in Items : /\ flusher[p].pc \in {"next", "reap"}
                         /\ First(p, i) \/ i = flusher[p].item
                         /\ lock[Lane[i]] = {}
                         /\ lock' = [lock EXCEPT ![Lane[i]] = {"dead"}]
  /\ UNCHANGED <<queued, disk, cred, remote, faults, history>>
\* A process stops for a minute between making the lock directory and writing
\* its owner file: to others the lane looks left.
Stall(p) ==
  /\ flusher[p].pc = "next"
  /\ crashes < MaxCrashes
  /\ crashes' = crashes + 1
  /\ \E i \in Items :
       /\ First(p, i)
       /\ lock[Lane[i]] = {}
       /\ Claims(p, i, "reap")
       /\ lock' = [lock EXCEPT ![Lane[i]] = {"dead"}]
  /\ UNCHANGED <<queued, disk, cred, remote, faults, history>>

Revoke ==
  /\ cred \notin refused /\ cred < MaxCreds
  /\ refused' = refused \cup {cred}
  /\ UNCHANGED <<queued, disk, cred, lock, flusher, broken, server, faults, crashes, history>>
NewCredential ==
  /\ cred \in refused /\ cred < MaxCreds
  /\ cred' = cred + 1
  /\ UNCHANGED <<queued, disk, lock, flusher, remote, faults, crashes, history>>
Due(i) ==
  /\ sidecar[i].wait = "yes"
  /\ sidecar' = [sidecar EXCEPT ![i].wait = "no"]
  /\ UNCHANGED <<queued, files, quarantine, marker, authFile, cred, lock, flusher,
                 remote, faults, crashes, history>>
Repair(i) ==
  /\ i \in broken
  /\ broken' = broken \ {i}
  /\ UNCHANGED <<queued, disk, cred, lock, flusher, refused, server, faults, crashes, history>>

-----------------------------------------------------------------------------
Step(p) ==
  \/ End(p) \/ Take(p) \/ Reap(p) \/ Gone(p) \/ Read(p) \/ Gap(p) \/ Vanished(p)
  \/ Hold(p) \/ Send(p) \/ Answer(p) \/ Accept(p) \/ Unpause(p) \/ Remove(p) \/ Clean(p)
  \/ Fail(p) \/ Mark(p) \/ Settle(p)
Next ==
  \/ \E p \in Processes : \/ Step(p) \/ TimeIsUp(p) \/ Reconcile(p) \/ Crash(p) \/ Stall(p)
                          \/ \E k \in Kinds : Flush(p, k)
  \/ \E i \in Items : Queue(i) \/ Due(i) \/ Repair(i)
  \/ Revoke \/ NewCredential

Spec == Init /\ [][Next]_vars

\* A flush that began goes on, every queue is flushed again and again (each
\* hook and the pump go through all three), backoff ends, and a refused
\* credential is replaced.
FairSpec ==
  /\ Spec
  /\ \A p \in Processes : WF_vars(Step(p))
  /\ \A p \in Processes, k \in Kinds : SF_vars(Flush(p, k))
  /\ \A i \in Items : WF_vars(Due(i))
  /\ WF_vars(NewCredential)

-----------------------------------------------------------------------------
(* Properties *)

\* An envelope leaves the outbox only for the quarantine or when the server
\* has accepted it, whatever is lost, refused or killed (Q-01, Q-07, Q-10).
NothingLost == \A i \in queued : i \in files \cup quarantine \cup server

\* The server sees the items of a session in their order, past no item that
\* is waiting, refused or quarantined (the plan's section on causal order).
InOrder ==
  \A i \in server : \A j \in queued : j < i /\ Lane[j] = Lane[i] => j \in server

\* What of that the locks and the markers give as long as a lane has one holder,
\* which LaneLock shows until a process is killed, or stalls in claimLane.  The
\* queues of a session then stay in order, also when flushes overlap or are
\* killed; a queue by itself does until two flushes overlap or one is killed.
\* A lane with two holders loses both: one may read the marker before the other
\* fails, and look for older items after it has moved the failed one away.
Quiet == crashes = 0 /\ overlap = "no"
OrderKept ==
  shared = "no" =>
    \A i \in server : \A j \in queued :
      /\ j < i /\ Lane[j] = Lane[i]
      /\ Kind[j] # Kind[i] \/ Quiet
      => j \in server

\* The items whose answer did not match: fail() recorded it and no acceptance
\* has followed.
Mismatched(i) == marker[Lane[i]] = [file |-> i, state |-> "blocked_reconciliation"]
\* Such an item is only sent again by an explicit reconciliation ("restarting
\* or rediscovering the queue does not silently clear that block"), unless a
\* process is killed in the middle of one.
MismatchHeld ==
  [][\A p \in Processes :
       /\ crashes = 0
       /\ flusher[p].pc = "test" /\ flusher'[p].pc = "sent"
       /\ Mismatched(flusher[p].item)
       => flusher'[p].via = "reconcile"]_vars

\* In a session without broken items everything queued reaches the server in
\* the end: no fault, pause or backoff stops a healthy lane for good (Q-01).
Delivered ==
  \A i \in Items :
    (\A j \in Broken : Lane[j] # Lane[i]) => (i \in queued ~> i \in server)

-----------------------------------------------------------------------------
(* Inductive strengthening (OutboxProofs) *)

\* A process that goes on to remove an envelope has seen it accepted, and one
\* that records a failure has not.
RemovesConfirmed ==
  \A p \in Processes :
    /\ \/ flusher[p].pc \in {"unpause", "remove", "clean"}
       \/ flusher[p].pc = "answered" /\ flusher[p].answer = "accepted"
       => flusher[p].item \in server
    /\ flusher[p].pc \in {"mark", "settle"} => flusher[p].answer # "accepted"

\* A process at an item is alone in its lane.
Working(p) == flusher[p].pc \notin {"idle", "next", "reap"}
Locked == \A p \in Processes : Working(p) => lock[Lane[flusher[p].item]] = {p}
\* Lanes are shared, and locks are left, only by kills and stalls.
Intact ==
  crashes = 0 =>
    /\ shared = "no"
    /\ \A l \in Lanes : "dead" \notin lock[l]
    /\ \A p \in Processes : flusher[p].pc # "reap"
\* What a process has read of its lane stays true.
ReadCurrent ==
  \A p \in Processes : flusher[p].pc = "test" =>
    LET i == flusher[p].item IN
    /\ i \in files
    /\ flusher[p].marker = marker[Lane[i]]
    /\ flusher[p].state.state = sidecar[i].state

\* A queue lists nothing that was not queued, nor does anything else, and a
\* session is queued in order.
Closed ==
  /\ files \cup quarantine \cup server \subseteq queued
  /\ files \cap quarantine = {}
  /\ \A i \in queued : \A j \in Items : j < i /\ Lane[j] = Lane[i] => j \in queued
  /\ \A p \in Processes :
       /\ flusher[p].todo \subseteq flusher[p].listed
       /\ flusher[p].listed \subseteq queued
       /\ flusher[p].pc \notin {"idle", "next"} => flusher[p].item \in queued

\* A quarantined item stops its lane.
Kept == \A j \in quarantine \ server : marker[Lane[j]].file = j

Sending == {"sent", "answered", "unpause", "remove", "clean", "mark", "settle"}
Sends(p) == flusher[p].pc \in Sending
\* A process only sends what nothing of the other queues comes before.
MaySend ==
  \A p \in Processes : Sends(p) =>
    LET i == flusher[p].item IN
    /\ marker[Lane[i]].file \in {None, i}
    /\ flusher[p].pc = "settle" => marker[Lane[i]].file = i
    /\ flusher[p].pc # "clean" => i \in files
    /\ \A j \in queued : j < i /\ Lane[j] = Lane[i] /\ Kind[j] # Kind[i] => j \in server

\* All of this as long as no lane has had two holders.
Unshared == shared = "no" => Locked /\ ReadCurrent /\ Closed /\ Kept /\ MaySend

\* A failure that is recorded in the marker was recorded in the sidecar.
MismatchRecorded ==
  crashes = 0 =>
    /\ \A p \in Processes :
         flusher[p].pc = "mark" => sidecar[flusher[p].item].state = FailedState(p)
    /\ \A i \in Items :
         /\ Mismatched(i)
         /\ \A p \in Processes : ~(flusher[p].pc \in Sending \ {"settle"} /\ flusher[p].item = i)
         => sidecar[i].state = "blocked_reconciliation"

\* Without overlap and kills: one process flushes, and no lock is left behind.
Alone ==
  /\ \A p, q \in Processes : flusher[p].pc # "idle" /\ flusher[q].pc # "idle" => p = q
  /\ \A l \in Lanes : lock[l] # {} =>
       \E p \in Processes : lock[l] = {p} /\ Working(p) /\ Lane[flusher[p].item] = l
\* All of the lane before item i has been accepted.
Before(i) == \A j \in queued : j < i /\ Lane[j] = Lane[i] => j \in server
\* What keeps item i from being overtaken in the flush of p, once it was left.
Shut(p, i) ==
  \/ Lane[i] \in flusher[p].blocked
  \/ marker[Lane[i]].file # None /\ marker[Lane[i]].file < i
  \/ \E k \in files : /\ Lane[k] = Lane[i] /\ k < i
                      /\ \/ Kind[k] # Kind[i]
                         \/ flusher[p].mode = "reconcile" /\ k \notin flusher[p].listed
\* The list of a flush is gone through in order.
Listed(p) ==
  LET r == flusher[p]
      now == IF r.pc = "next" THEN {} ELSE {r.item} IN
  /\ r.todo \subseteq r.listed /\ now \subseteq r.listed \ r.todo
  /\ \A i \in r.todo, j \in r.listed \ r.todo : j < i
  /\ \A i \in now, j \in r.listed \ r.todo : j <= i
  /\ \A i, j \in r.listed : Kind[i] = Kind[j]
  /\ r.mode = "flush" =>
       \A i \in r.listed : \A j \in files : 
         j < i /\ Lane[j] = Lane[i] /\ Kind[j] = Kind[i] => j \in r.listed
  /\ \A j \in (r.listed \ r.todo) \ now : j \in files \ server => Shut(p, j)
Orderly ==
  Quiet =>
    /\ Alone
    /\ \A i \in server : Before(i)
    /\ \A l \in Lanes : marker[l].file # None =>
         LET i == marker[l].file IN i \in queued /\ Lane[i] = l /\ Before(i)
    /\ \A p \in Processes : Sends(p) => Before(flusher[p].item)
    /\ \A p \in Processes : flusher[p].pc # "idle" => Listed(p)

==============================================================================
