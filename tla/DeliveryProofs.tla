-------------------------- MODULE DeliveryProofs ------------------------------
(***************************************************************************)
(* A Resume is delivered once, for every set of hosts and calls and every  *)
(* bound on their attempts, faults and changes of the world: the           *)
(* properties Delivery states hold, and the tables of the server           *)
(* implement DeliveryOnce in both protocols.                               *)
(*                                                                         *)
(* The server looks only at its tables, so one attempt in flight follows   *)
(* from what it admits (TablesKeep).  That an attempt never ends both      *)
(* ways, and that no two hosts hold a context, rests on the hosts: a       *)
(* record numbers its attempts, an end is queued only of the current one   *)
(* and moves the record past it, a call that acts on an answer checks      *)
(* that the record is still that of its attempt, and a tool that marks it  *)
(* owns the lock.  DInv says so. HostMoves says what a step of one host    *)
(* may do to its record, its calls, its queue and its scope, and           *)
(* HostKeeps shows that any such step keeps DInv; the lemmas after it      *)
(* show that each action is one.                                           *)
(***************************************************************************)
EXTENDS DeliveryTypes

\* The protocol of a call.
KindOf(c) == IF c \in Tools THEN "receipt" ELSE "injection"
\* A call that has claimed an attempt and not ended.
Asked == {"send", "answered", "mark"}
\* Attempts the host will not take up again.
Past(h, n) ==
  \/ n < rec[h].n
  \/ n = rec[h].n /\ rec[h].status \in {"delivered", "cancelled"}

\* Only declarations are sent outside the outbox.
Declares == \A m \in network : m.phase = "initial"
\* An end is reported of an attempt that its host has left behind.
EndsPast ==
  \A m \in rows \cup outbox : m.phase # "initial" => Past(m.id[1], m.id[2])
\* A completed attempt has none beside it.
CompletedOnce ==
  \A kind \in Kinds : \A one, two \in Attempts :
    Completed(kind, one) =>
      ~InFlight(kind, two) /\ (Completed(kind, two) => one = two)
\* A record that says "returned" was handed over, or is about to be, or was cut
\* off; the adapters report injections.
RecordsTrue ==
  \A h \in Hosts :
    /\ rec[h].status = "none" => rec[h].n = 1
    /\ rec[h].status \in {"none", "pending"} => rec[h].returned = "no"
    /\ rec[h].returned = "yes" => GivenOrCut(rec[h].kind, <<h, rec[h].n>>)
    /\ h \notin CodexHosts => rec[h].kind = "injection"
\* A call waits for the current attempt of its host, which it claimed, or a past one.
CallsClaimed ==
  \A c \in Calls :
    call[c].pc \in Asked =>
      /\ call[c].n =< rec[HostOf[c]].n
      /\ call[c].n = rec[HostOf[c]].n =>
           rec[HostOf[c]].status \notin {"none", "pending"} /\ rec[HostOf[c]].kind = KindOf(c)
\* A call that saw its declaration accepted is right.
CallsAccepted ==
  \A c \in Calls :
    /\ call[c].pc = "mark" => call[c].answer = "accepted"
    /\ call[c].answer = "accepted" => Has(KindOf(c), <<HostOf[c], call[c].n>>, "initial")
\* A tool that is about to mark the record owns the lock, and an owner that still
\* holds the attempt finds it not yet handed over.
LockKept ==
  \A c \in Tools :
    /\ call[c].pc = "mark" => Owns(c)
    /\ call[c].pc \in Asked /\ Owns(c) /\ Holds(c) => rec[HostOf[c]].returned = "no"
\* Where a marker is kept, it is set by the one hand-over.
Marked(kind, h, n) ==
  \/ kind = "injection" /\ h \in CodexHosts
  \/ /\ given[kind][<<h, n>>] = 1
     /\ n < rec[h].n \/ (n = rec[h].n /\ rec[h].returned = "yes")
GivenMarked ==
  \A kind \in Kinds : \A h \in Hosts : \A n \in 1..MaxTries :
    given[kind][<<h, n>>] > 0 => Has(kind, <<h, n>>, "initial") /\ Marked(kind, h, n)
\* The result of a tool is that of an accepted and marked attempt, the only one,
\* and has not been seen; so was a result that was cut off.
Returning ==
  /\ \A c \in Tools :
       call[c].pc = "return" =>
         /\ call[c].answer = "accepted"
         /\ given["receipt"][<<HostOf[c], call[c].n>>] = 0
         /\ \/ call[c].n < rec[HostOf[c]].n
            \/ call[c].n = rec[HostOf[c]].n /\ rec[HostOf[c]].returned = "yes"
         /\ \A d \in Tools :
              call[d].pc = "return" /\ HostOf[d] = HostOf[c] /\ call[d].n = call[c].n => d = c
  /\ \A id \in cut : Has("receipt", id, "initial")
\* Nothing is under way before there is a preview.
Unstarted ==
  resume.status = "none" =>
    /\ ~Bound /\ rows = {} /\ outbox = {} /\ network = {}
    /\ \A h \in Hosts : rec[h].status = "none" /\ scope[h] = "none"
    /\ \A c \in Calls : call[c].pc = "idle"
\* A Resume of the console is never staged by an agent.
BoundRecords ==
  Bound => \A h \in Hosts :
    /\ rec[h].status # "none" =>
         rec[h].source = "console" /\ (h \in CodexHosts => rec[h].kind = "receipt")
    /\ h \notin CodexHosts => scope[h] # "pending"

DInv ==
  /\ TypeOK /\ OneInFlight /\ CompletedOnce /\ Declares /\ EndsPast /\ EndsOnce
  /\ RecordsTrue /\ CallsClaimed /\ CallsAccepted /\ LockKept /\ GivenMarked /\ Returning
  /\ Unstarted /\ BoundRecords /\ AcknowledgedGiven /\ ScopeBacked

-----------------------------------------------------------------------------
(* What a step of one host may do *)

\* r and s are the record of the host before and after.
Same(r, s) ==
  /\ s.n = r.n /\ s.status = r.status /\ s.returned = r.returned
  /\ s.kind = r.kind /\ s.source = r.source
Claims(h, r, s) ==
  /\ r.status = "pending" /\ s.status = "in_flight"
  /\ s.n = r.n /\ s.returned = r.returned /\ s.source = r.source
  /\ s.kind = r.kind \/ (h \in CodexHosts /\ s.kind = "receipt")
Renews(h, r, s) ==
  /\ s.status \in {"pending", "in_flight"} /\ s.returned = "no"
  /\ s.n = IF r.status = "none" THEN 1 ELSE r.n + 1
  /\ h \notin CodexHosts => s.kind = "injection"
  /\ Bound => s.source = "console" /\ (h \in CodexHosts => s.kind = "receipt")
Retries(r, s) ==
  /\ r.status = "in_flight" /\ s.status \in {"pending", "cancelled"}
  /\ s.n = r.n + 1 /\ s.returned = "no" /\ s.kind = r.kind /\ s.source = r.source
Ends(r, s, status) ==
  /\ s.status = status
  /\ s.n = r.n /\ s.returned = r.returned /\ s.kind = r.kind /\ s.source = r.source
Hands(r, s) ==
  /\ r.status = "in_flight" /\ s.status = "in_flight"
  /\ r.returned = "no" /\ s.returned = "yes"
  /\ s.n = r.n /\ s.kind = r.kind /\ s.source = r.source

\* The record of h and its queue: kept, claimed, renewed or cancelled; failed;
\* acknowledged; handed over with the marker; marked, with the result to follow; or
\* handed over without a marker.
RecordMoves(h) ==
  \/ /\ UNCHANGED <<outbox, given>>
     /\ \/ Same(rec[h], rec'[h]) \/ Claims(h, rec[h], rec'[h])
        \/ Renews(h, rec[h], rec'[h])
        \/ Ends(rec[h], rec'[h], "cancelled") /\ rec[h].status # "none"
  \/ /\ Retries(rec[h], rec'[h])
     /\ outbox' = outbox \cup {Event(h, "failed")} /\ UNCHANGED given
  \/ /\ rec[h].status = "in_flight" /\ Ends(rec[h], rec'[h], "delivered")
     /\ Bound => rec[h].returned = "yes"
     /\ outbox' = outbox \cup {Event(h, "acknowledged")} /\ UNCHANGED given
  \/ /\ Hands(rec[h], rec'[h]) /\ rec[h].kind = "injection"
     /\ Has("injection", <<h, rec[h].n>>, "initial")
     /\ Give("injection", <<h, rec[h].n>>) /\ UNCHANGED outbox
  \/ /\ Hands(rec[h], rec'[h]) /\ rec[h].kind = "receipt"
     /\ UNCHANGED <<outbox, given>>
     /\ \E c \in Tools : HostOf[c] = h /\ call'[c].pc = "return" /\ call'[c].n = rec[h].n
  \/ /\ Same(rec[h], rec'[h]) /\ h \in CodexHosts /\ UNCHANGED outbox
     /\ \E n \in 1..MaxTries : /\ Has("injection", <<h, n>>, "initial")
                               /\ Give("injection", <<h, n>>)

\* A call ends or waits without an attempt, claims one, or goes on with its own.
CallMoves(h, c) ==
  \/ call'[c] = call[c]
  \/ call'[c].pc \notin Asked /\ call'[c].answer # "accepted"
  \/ /\ call'[c].pc = "send" /\ call'[c].answer = "none" /\ call'[c].n = rec'[h].n
     /\ rec'[h].status = "in_flight" /\ rec'[h].kind = KindOf(c)
  \/ /\ call[c].pc \in Asked /\ call'[c].n = call[c].n
     /\ call'[c].answer = "accepted" => call[c].answer = "accepted"
     /\ call'[c].pc = "mark" => call'[c].answer = "accepted"

\* Results stay on their way; a call marks the record and gets one; or its process
\* is killed.
ReturnMoves(h) ==
  \/ /\ cut' = cut
     /\ \A c \in Tools :
          call'[c] = call[c] \/ (call[c].pc # "return" /\ call'[c].pc # "return")
  \/ /\ cut' = cut
     /\ \E c \in Tools :
          /\ HostOf[c] = h /\ call[c].pc = "mark" /\ call'[c].pc = "return"
          /\ call'[c].n = rec[h].n /\ call'[c].answer = "accepted"
          /\ Hands(rec[h], rec'[h]) /\ rec[h].kind = "receipt"
          /\ \A d \in Tools \ {c} : call'[d] = call[d]
  \/ \E c \in Tools :
       /\ call[c].pc = "return" /\ call'[c].pc # "return"
       /\ cut' = cut \cup {<<HostOf[c], call[c].n>>}
       /\ \A d \in Tools \ {c} : call'[d] = call[d]

\* A scope becomes active only with an accepted declaration.
ScopeMoves(h) ==
  Bound =>
    /\ scope'[h] = "active" =>
         \/ scope[h] = "active"
         \/ \E kind \in Kinds, n \in 1..MaxTries : Has(kind, <<h, n>>, "initial")
    /\ h \notin CodexHosts /\ scope'[h] = "pending" => scope[h] = "pending"

HostMoves(h) ==
  /\ resume'.target = resume.target /\ UNCHANGED rows
  /\ \A g \in Hosts \ {h} : rec'[g] = rec[g] /\ scope'[g] = scope[g]
  /\ \A c \in Calls : HostOf[c] # h => call'[c] = call[c]
  /\ \A c \in Calls : HostOf[c] = h => CallMoves(h, c)
  /\ RecordMoves(h) /\ ReturnMoves(h) /\ ScopeMoves(h)
  /\ TypeOK' /\ Declares' /\ LockKept' /\ Unstarted'

\* The number of an attempt and the counter of hand-overs never go back.
LEMMA Monotone ==
  ASSUME DInv, NEW h \in Hosts, HostMoves(h)
  PROVE  /\ rec'[h].n >= rec[h].n
         /\ \A kind \in Kinds : \A id \in Attempts : given'[kind][id] >= given[kind][id]
<1>0. /\ rec[h] \in Rec /\ rec'[h] \in Rec /\ rec[h].n \in Nat
      /\ given \in [Kinds -> [Attempts -> 0..2]]
  BY DEF DInv, HostMoves, TypeOK, CallsTypeOK, Rec
<1>1. rec'[h].n >= rec[h].n
  <2>1. \/ rec'[h].n = rec[h].n \/ rec'[h].n = rec[h].n + 1
        \/ rec'[h].n = 1 /\ rec[h].status = "none"
    BY DEF HostMoves, RecordMoves, Same, Claims, Renews, Retries, Ends, Hands
  <2>2. rec[h].status = "none" => rec[h].n = 1
    BY DEF DInv, RecordsTrue
  <2> QED BY <1>0, <2>1, <2>2
<1>2. ASSUME NEW kind \in Kinds, NEW id \in Attempts
      PROVE  given'[kind][id] >= given[kind][id]
  <2>1. given[kind][id] \in 0..2
    BY <1>0
  <2>2. CASE UNCHANGED given
    BY <2>1, <2>2
  <2>3. ASSUME NEW k \in Kinds, NEW i \in Attempts, Give(k, i)
        PROVE  given'[kind][id] >= given[kind][id]
    BY <1>0, <2>1, <2>3 DEF Give
  <2>4. <<h, rec[h].n>> \in Attempts /\ rec[h].kind \in Kinds /\ "injection" \in Kinds
    BY <1>0 DEF Rec, Attempts, Kinds
  <2>5. \A n \in 1..MaxTries : <<h, n>> \in Attempts
    BY DEF Attempts
  <2> QED BY <2>2, <2>3, <2>4, <2>5 DEF HostMoves, RecordMoves
<1> QED BY <1>1, <1>2

\* What is handed over, on its way or cut off stays so, and results stay single.
LEMMA ReturnKeeps ==
  ASSUME DInv, NEW h \in Hosts, HostMoves(h)
  PROVE  /\ Returning'
         /\ \A kind \in Kinds : \A id \in Attempts :
              GivenOrCut(kind, id) => GivenOrCut(kind, id)'
<1> DEFINE r == rec[h]
           s == rec'[h]
<1>0. /\ r \in Rec /\ s \in Rec /\ r.n \in Nat /\ s.n \in Nat /\ r.n \in 1..MaxTries
      /\ given \in [Kinds -> [Attempts -> 0..2]] /\ given' \in [Kinds -> [Attempts -> 0..2]]
      /\ "receipt" \in Kinds /\ "injection" \in Kinds
      /\ \A n \in 1..MaxTries : <<h, n>> \in Attempts
  BY DEF DInv, HostMoves, TypeOK, CallsTypeOK, Rec, Kinds, Attempts
<1>1. \A id \in Attempts : given'["receipt"][id] = given["receipt"][id]
  <2>1. UNCHANGED given \/ \E n \in 1..MaxTries : Give("injection", <<h, n>>)
    BY <1>0 DEF HostMoves, RecordMoves
  <2>2. ASSUME NEW n \in 1..MaxTries, Give("injection", <<h, n>>)
        PROVE  given'["receipt"] = given["receipt"]
    BY <1>0, <2>2 DEF Give
  <2> QED BY <2>1, <2>2
<1>2. ASSUME NEW n \in Nat, n < r.n \/ (n = r.n /\ r.returned = "yes")
      PROVE  n < s.n \/ (n = s.n /\ s.returned = "yes")
  <2>1. r.n =< s.n
    BY <1>0, Monotone
  <2>2. /\ r.status = "none" => r.n = 1
        /\ r.status \in {"none", "pending"} => r.returned = "no"
    BY DEF DInv, RecordsTrue
  <2>3. r.returned = "yes" => r.n < s.n \/ s.returned = "yes"
    BY <1>0, <2>2 DEF HostMoves, RecordMoves, Same, Claims, Renews, Retries, Ends, Hands
  <2>4. r.n \in Nat /\ s.n \in Nat
    BY <1>0
  <2>5. CASE n < r.n
    BY <2>1, <2>4, <2>5
  <2>6. CASE n = r.n /\ r.returned = "yes"
    BY <2>1, <2>3, <2>4, <2>6
  <2> QED BY <1>2, <2>5, <2>6
<1>3. /\ \A id : Has("receipt", id, "initial")' = Has("receipt", id, "initial")
      /\ \A g \in Hosts \ {h} : rec'[g] = rec[g]
      /\ ReturnMoves(h)
  BY DEF HostMoves, Has
<1>4. ASSUME NEW c \in Tools
      PROVE  /\ c \in Calls /\ HostOf[c] \in Hosts
             /\ call[c].n \in Nat /\ call[c].n \in 1..MaxTries
             /\ <<HostOf[c], call[c].n>> \in Attempts
  BY CallsAssumption, CodexAssumption DEF DInv, TypeOK, CallsTypeOK, Call, Attempts
\* What held of a call that does not act holds of it still.
<1>5. ASSUME NEW c \in Tools, call[c].pc = "return"
      PROVE  /\ call[c].answer = "accepted"
             /\ given'["receipt"][<<HostOf[c], call[c].n>>] = 0
             /\ \/ call[c].n < rec'[HostOf[c]].n
                \/ call[c].n = rec'[HostOf[c]].n /\ rec'[HostOf[c]].returned = "yes"
             /\ \A d \in Tools :
                  call[d].pc = "return" /\ HostOf[d] = HostOf[c] /\ call[d].n = call[c].n => d = c
  <2>1. /\ call[c].answer = "accepted"
        /\ given["receipt"][<<HostOf[c], call[c].n>>] = 0
        /\ \/ call[c].n < rec[HostOf[c]].n
           \/ call[c].n = rec[HostOf[c]].n /\ rec[HostOf[c]].returned = "yes"
        /\ \A d \in Tools :
             call[d].pc = "return" /\ HostOf[d] = HostOf[c] /\ call[d].n = call[c].n => d = c
    BY <1>5 DEF DInv, Returning
  <2>2. \/ call[c].n < rec'[HostOf[c]].n
        \/ call[c].n = rec'[HostOf[c]].n /\ rec'[HostOf[c]].returned = "yes"
    <3>1. CASE HostOf[c] = h
      BY <1>2, <1>4, <2>1, <3>1
    <3>2. CASE HostOf[c] # h
      BY <1>3, <1>4, <2>1, <3>2
    <3> QED BY <3>1, <3>2
  <2> QED BY <1>1, <1>4, <2>1, <2>2
<1> DEFINE onWay(id) == \E c \in Tools : call'[c].pc = "return" /\ <<HostOf[c], call'[c].n>> = id
           right(c) ==
             /\ call'[c].answer = "accepted"
             /\ given'["receipt"][<<HostOf[c], call'[c].n>>] = 0
             /\ \/ call'[c].n < rec'[HostOf[c]].n
                \/ call'[c].n = rec'[HostOf[c]].n /\ rec'[HostOf[c]].returned = "yes"
             /\ \A d \in Tools :
                  /\ call'[d].pc = "return" /\ HostOf[d] = HostOf[c]
                  /\ call'[d].n = call'[c].n
                  => d = c
           cuts == \A id \in cut' : Has("receipt", id, "initial")
           results == \A c \in Tools : call'[c].pc = "return" => right(c)
           stays == /\ cut \subseteq cut'
                    /\ \A id : OnItsWay(id) => onWay(id) \/ id \in cut'
<1>6. results /\ cuts /\ stays
  <2>0. \A id \in cut : Has("receipt", id, "initial")
    BY DEF DInv, Returning
  <2>1. CASE /\ cut' = cut
             /\ \A c \in Tools :
                  call'[c] = call[c] \/ (call[c].pc # "return" /\ call'[c].pc # "return")
    <3>1. \A c \in Tools : call'[c].pc = "return" <=> call[c].pc = "return"
      BY <2>1
    <3>2. \A c \in Tools : call'[c].pc = "return" => call'[c] = call[c]
      BY <2>1
    <3>3. results
      BY <1>5, <3>1, <3>2
    <3>4. stays
      BY <2>1, <3>1, <3>2 DEF OnItsWay
    <3> QED BY <2>0, <2>1, <3>3, <3>4
  <2>2. ASSUME cut' = cut, NEW e \in Tools, HostOf[e] = h,
               call[e].pc = "mark", call'[e].pc = "return",
               call'[e].n = rec[h].n, call'[e].answer = "accepted",
               Hands(rec[h], rec'[h]), rec[h].kind = "receipt",
               \A d \in Tools \ {e} : call'[d] = call[d]
        PROVE  results /\ cuts /\ stays
    <3>1. given["receipt"][<<h, r.n>>] = 0
      <4>1. given["receipt"][<<h, r.n>>] \in 0..2
        BY <1>0
      <4>2. ~(given["receipt"][<<h, r.n>>] > 0)
        <5>1. r.returned = "no"
          BY <2>2 DEF Hands
        <5>2. ~(r.n < r.n)
          BY <1>0
        <5>3. ~Marked("receipt", h, r.n)
          BY <5>1, <5>2 DEF Marked
        <5> QED BY <1>0, <5>3 DEF DInv, GivenMarked
      <4> QED BY <4>1, <4>2
    <3>2. ASSUME NEW d \in Tools, call[d].pc = "return", HostOf[d] = h PROVE call[d].n # r.n
      <4>1. call[d].n < r.n \/ (call[d].n = r.n /\ r.returned = "yes")
        BY <3>2 DEF DInv, Returning
      <4>2. r.returned = "no"
        BY <2>2 DEF Hands
      <4> QED BY <1>0, <1>4, <4>1, <4>2
    <3>3. right(e)
      <4>1. s.n = r.n /\ s.returned = "yes"
        BY <2>2 DEF Hands
      <4>2. given'["receipt"][<<h, r.n>>] = 0
        BY <1>0, <1>1, <3>1
      <4>3. \A d \in Tools \ {e} :
              ~(call'[d].pc = "return" /\ HostOf[d] = h /\ call'[d].n = r.n)
        BY <2>2, <3>2
      <4> QED BY <2>2, <4>1, <4>2, <4>3
    <3>4. ASSUME NEW c \in Tools \ {e}, call'[c].pc = "return" PROVE right(c)
      <4>1. call'[c] = call[c] /\ call[c].pc = "return"
        BY <2>2, <3>4
      <4>2. ~(HostOf[c] = h /\ call[c].n = call'[e].n)
        BY <2>2, <3>2, <4>1
      <4> QED BY <1>5, <2>2, <4>1, <4>2
    <3>5. stays
      <4>1. \A c \in Tools : call[c].pc = "return" => call'[c] = call[c]
        BY <2>2
      <4> QED BY <2>2, <4>1 DEF OnItsWay
    <3> QED BY <2>0, <2>2, <3>3, <3>4, <3>5
  <2>3. ASSUME NEW e \in Tools, call[e].pc = "return", call'[e].pc # "return",
               cut' = cut \cup {<<HostOf[e], call[e].n>>},
               \A d \in Tools \ {e} : call'[d] = call[d]
        PROVE  results /\ cuts /\ stays
    <3>1. \A c \in Tools : call'[c].pc = "return" => call'[c] = call[c]
      BY <2>3
    <3>2. results
      BY <1>5, <3>1
    <3>3. Has("receipt", <<HostOf[e], call[e].n>>, "initial")
      BY <1>4, <1>5, <2>3 DEF DInv, CallsAccepted, KindOf
    <3>4. stays
      BY <2>3 DEF OnItsWay
    <3> QED BY <2>0, <2>3, <3>2, <3>3, <3>4
  <2> QED BY <1>3, <2>1, <2>2, <2>3 DEF ReturnMoves
<1>7. Returning'
  <2>1. \A id \in cut' : Has("receipt", id, "initial")'
    BY <1>3, <1>6
  <2> QED BY <1>6, <2>1 DEF Returning
<1>8. ASSUME NEW kind \in Kinds, NEW id \in Attempts, GivenOrCut(kind, id)
      PROVE  GivenOrCut(kind, id)'
  <2>1. /\ given'[kind][id] >= given[kind][id]
        /\ given[kind][id] \in 0..2 /\ given'[kind][id] \in 0..2
    BY <1>0, Monotone
  <2>2. given[kind][id] > 0 => given'[kind][id] > 0
    BY <2>1
  <2>3. OnItsWay(id) \/ id \in cut => onWay(id) \/ id \in cut'
    BY <1>6
  <2> QED BY <1>8, <2>2, <2>3 DEF GivenOrCut, OnItsWay
<1> QED BY <1>7, <1>8

\* A step of a host that moves so keeps the invariant.
LEMMA HostKeeps ==
  ASSUME DInv, NEW h \in Hosts, HostMoves(h)
  PROVE  DInv'
<1> DEFINE r == rec[h]
           s == rec'[h]
<1>0. /\ r \in Rec /\ s \in Rec /\ r.n \in Nat /\ s.n \in Nat /\ r.n \in 1..MaxTries
      /\ given \in [Kinds -> [Attempts -> 0..2]] /\ given' \in [Kinds -> [Attempts -> 0..2]]
      /\ r.kind \in Kinds /\ s.kind \in Kinds /\ "injection" \in Kinds
      /\ <<h, r.n>> \in Attempts
  BY DEF DInv, HostMoves, TypeOK, CallsTypeOK, Rec, Kinds, Attempts
<1>1. /\ r.status = "none" => r.n = 1
      /\ r.status \in {"none", "pending"} => r.returned = "no"
      /\ r.returned = "yes" => GivenOrCut(r.kind, <<h, r.n>>)
      /\ h \notin CodexHosts => r.kind = "injection"
  BY DEF DInv, RecordsTrue
<1>2. /\ s.n >= r.n
      /\ \A kind \in Kinds : \A id \in Attempts : given'[kind][id] >= given[kind][id]
  BY Monotone
<1>3. /\ Bound' = Bound /\ UNCHANGED rows
      /\ \A g \in Hosts \ {h} : rec'[g] = rec[g] /\ scope'[g] = scope[g]
      /\ \A c \in Calls : HostOf[c] # h => call'[c] = call[c]
      /\ \A c \in Calls : HostOf[c] = h => CallMoves(h, c)
  BY DEF HostMoves, Bound
<1>4. \A kind, id, phase : Has(kind, id, phase)' = Has(kind, id, phase)
  BY <1>3 DEF Has
\* The ways a record moves
<1>5. \/ UNCHANGED given /\ UNCHANGED outbox /\ Same(r, s)
      \/ UNCHANGED given /\ UNCHANGED outbox /\ Claims(h, r, s)
      \/ UNCHANGED given /\ UNCHANGED outbox /\ Renews(h, r, s)
      \/ /\ UNCHANGED given /\ UNCHANGED outbox
         /\ Ends(r, s, "cancelled") /\ r.status # "none"
      \/ /\ UNCHANGED given /\ Retries(r, s)
         /\ outbox' = outbox \cup {Event(h, "failed")}
      \/ /\ UNCHANGED given /\ r.status = "in_flight" /\ Ends(r, s, "delivered")
         /\ Bound => r.returned = "yes"
         /\ outbox' = outbox \cup {Event(h, "acknowledged")}
      \/ /\ Hands(r, s) /\ r.kind = "injection" /\ Has("injection", <<h, r.n>>, "initial")
         /\ Give("injection", <<h, r.n>>) /\ UNCHANGED outbox
      \/ /\ Hands(r, s) /\ r.kind = "receipt" /\ UNCHANGED given /\ UNCHANGED outbox
         /\ \E c \in Tools : HostOf[c] = h /\ call'[c].pc = "return" /\ call'[c].n = r.n
      \/ /\ Same(r, s) /\ h \in CodexHosts /\ UNCHANGED outbox
         /\ \E n \in 1..MaxTries : /\ Has("injection", <<h, n>>, "initial")
                                   /\ Give("injection", <<h, n>>)
  BY DEF HostMoves, RecordMoves
<1>0a. \A kind \in Kinds : \A id \in Attempts :
          GivenOrCut(kind, id) => GivenOrCut(kind, id)'
  BY ReturnKeeps
<1> HIDE DEF r, s
\* The tables alone
<1>6. OneInFlight' /\ CompletedOnce'
  BY <1>4 DEF DInv, OneInFlight, CompletedOnce, InFlight, Completed
\* What is past stays past.
<1>7. ASSUME NEW g \in Hosts, NEW n \in 1..MaxTries, Past(g, n) PROVE Past(g, n)'
  <2>1. CASE g # h
    BY <1>3, <1>7, <2>1 DEF Past
  <2>2. CASE g = h
    <3>1. n < r.n \/ (n = r.n /\ r.status \in {"delivered", "cancelled"})
      BY <1>7, <2>2 DEF Past, r
    <3>2. n < s.n \/ (n = s.n /\ s.status \in {"delivered", "cancelled"})
      BY <1>0, <1>2, <1>5, <3>1 DEF Same, Claims, Renews, Ends, Retries, Hands
    <3> QED BY <2>2, <3>2 DEF Past, s
  <2> QED BY <2>1, <2>2
<1>8. \A m \in rows \cup outbox : m.id[1] \in Hosts /\ m.id[2] \in 1..MaxTries
  BY DEF DInv, TypeOK, ServerTypeOK, CallsTypeOK, Message, Row, Attempts
\* An end is reported of the attempt that was in flight.
<1>9. ASSUME NEW m \in outbox', m \notin outbox
      PROVE  /\ m.id = <<h, r.n>> /\ m.kind = r.kind /\ r.status = "in_flight"
             /\ m.phase # "initial"
             /\ r.n < s.n \/ (r.n = s.n /\ s.status \in {"delivered", "cancelled"})
             /\ m.phase = "acknowledged" /\ Bound => r.returned = "yes"
  <2>1. PICK phase \in {"failed", "acknowledged"} :
          /\ m = Event(h, phase) /\ r.status = "in_flight"
          /\ \/ phase = "failed" /\ Retries(r, s)
             \/ /\ phase = "acknowledged" /\ Ends(r, s, "delivered")
                /\ Bound => r.returned = "yes"
    BY <1>5, <1>9 DEF Retries
  <2>2. m.id = <<h, r.n>> /\ m.kind = r.kind /\ m.phase = phase
    BY <2>1 DEF Event, r
  <2>3. r.n < s.n \/ (r.n = s.n /\ s.status \in {"delivered", "cancelled"})
    BY <1>0, <2>1 DEF Retries, Ends
  <2> QED BY <2>1, <2>2, <2>3
<1>10. EndsPast'
  <2> SUFFICES ASSUME NEW m \in rows \cup outbox', m.phase # "initial"
               PROVE  Past(m.id[1], m.id[2])'
    BY <1>3 DEF EndsPast
  <2>1. CASE m \in rows \cup outbox
    <3>1. Past(m.id[1], m.id[2])
      BY <2>1 DEF DInv, EndsPast
    <3>2. m.id[1] \in Hosts /\ m.id[2] \in 1..MaxTries
      BY <1>8, <2>1
    <3> QED BY <1>7, <3>1, <3>2
  <2>2. CASE m \in outbox' /\ m \notin outbox
    BY <1>9, <2>2 DEF Past, s
  <2> QED BY <2>1, <2>2
<1>11. EndsOnce'
  <2>1. ASSUME NEW m \in outbox', m \notin outbox, NEW o \in rows \cup outbox,
               m.id = o.id
        PROVE  o.phase = "initial"
    <3>1. SUFFICES ASSUME o.phase # "initial" PROVE FALSE
      OBVIOUS
    <3>2. Past(o.id[1], o.id[2])
      BY <3>1 DEF DInv, EndsPast
    <3>3. Past(h, r.n)
      BY <1>9, <2>1, <3>2
    <3> QED BY <1>0, <1>9, <2>1, <3>3 DEF Past, r
  <2>2. ASSUME NEW m \in outbox', m \notin outbox, NEW o \in outbox', o \notin outbox
        PROVE  m = o
    BY <1>5, <2>2
  <2> SUFFICES ASSUME NEW m \in rows \cup outbox', NEW o \in rows \cup outbox',
                      m.kind = o.kind, m.id = o.id,
                      {m.phase, o.phase} = {"acknowledged", "failed"}
               PROVE  FALSE
    BY <1>3 DEF EndsOnce
  <2>3. m.phase # "initial" /\ o.phase # "initial" /\ m.phase # o.phase
    OBVIOUS
  <2>4. CASE m \in rows \cup outbox /\ o \in rows \cup outbox
    BY <2>4 DEF DInv, EndsOnce
  <2> QED BY <2>1, <2>2, <2>3, <2>4
<1>12. RecordsTrue'
  <2>0. \A g \in Hosts : rec'[g].kind \in Kinds /\ rec'[g].n \in 1..MaxTries
    BY DEF HostMoves, TypeOK, CallsTypeOK, Rec
  <2> SUFFICES ASSUME NEW g \in Hosts
               PROVE  /\ rec'[g].status = "none" => rec'[g].n = 1
                      /\ rec'[g].status \in {"none", "pending"} => rec'[g].returned = "no"
                      /\ \A kind \in Kinds, n \in 1..MaxTries :
                           /\ rec'[g].returned = "yes"
                           /\ rec'[g].kind = kind /\ rec'[g].n = n
                           => GivenOrCut(kind, <<g, n>>)'
                      /\ g \notin CodexHosts => rec'[g].kind = "injection"
    BY <2>0 DEF RecordsTrue, GivenOrCut, OnItsWay
  <2>1. CASE g # h
    <3>1. rec'[g] = rec[g] /\ rec[g].kind \in Kinds /\ <<g, rec[g].n>> \in Attempts
      BY <1>3, <2>1 DEF DInv, TypeOK, CallsTypeOK, Rec, Attempts
    <3>2. rec[g].returned = "yes" => GivenOrCut(rec[g].kind, <<g, rec[g].n>>)
      BY DEF DInv, RecordsTrue
    <3>3. \A kind \in Kinds, n \in 1..MaxTries :
            rec[g].returned = "yes" /\ rec[g].kind = kind /\ rec[g].n = n
            => GivenOrCut(kind, <<g, n>>)'
      BY <1>0a, <3>1, <3>2
    <3> QED BY <3>1, <3>3 DEF DInv, RecordsTrue
  <2>2. CASE g = h
    <3>1. s.status = "none" => s.n = 1
      BY <1>0, <1>1, <1>5 DEF Same, Claims, Renews, Ends, Retries, Hands
    <3>2. s.status \in {"none", "pending"} => s.returned = "no"
      BY <1>1, <1>5 DEF Same, Claims, Renews, Ends, Retries, Hands
    <3>3. h \notin CodexHosts => s.kind = "injection"
      BY <1>1, <1>5 DEF Same, Claims, Renews, Ends, Retries, Hands
    <3>4. ASSUME NEW kind \in Kinds, NEW n \in 1..MaxTries,
                 s.returned = "yes", s.kind = kind, s.n = n
          PROVE  GivenOrCut(kind, <<h, n>>)'
      <4>0. <<h, n>> \in Attempts
        BY DEF Attempts
      <4>1. CASE r.n = n /\ r.kind = kind /\ r.returned = "yes"
        BY <1>0a, <1>1, <4>0, <4>1
      <4>2. CASE kind = "injection" /\ Give("injection", <<h, n>>)
        <5>1. given'[kind][<<h, n>>] > 0
          BY <1>0, <4>0, <4>2 DEF Give
        <5> QED BY <5>1 DEF GivenOrCut
      <4>3. CASE /\ kind = "receipt"
                 /\ \E c \in Tools : HostOf[c] = h /\ call'[c].pc = "return" /\ call'[c].n = n
        BY <4>3 DEF GivenOrCut, OnItsWay
      <4>4. CASE Hands(r, s)
        BY <1>5, <3>4, <4>2, <4>3, <4>4 DEF Same, Claims, Renews, Ends, Retries, Hands
      <4>5. CASE ~Hands(r, s)
        BY <1>1, <1>5, <3>4, <4>1, <4>5 DEF Same, Claims, Renews, Ends, Retries
      <4> QED BY <4>4, <4>5
    <3> QED BY <2>2, <3>1, <3>2, <3>3, <3>4 DEF s
  <2> QED BY <2>1, <2>2
<1>13. CallsClaimed' /\ CallsAccepted'
  <2> SUFFICES ASSUME NEW c \in Calls
               PROVE  /\ call'[c].pc \in Asked =>
                           /\ call'[c].n =< rec'[HostOf[c]].n
                           /\ call'[c].n = rec'[HostOf[c]].n =>
                                /\ rec'[HostOf[c]].status \notin {"none", "pending"}
                                /\ rec'[HostOf[c]].kind = KindOf(c)
                      /\ call'[c].pc = "mark" => call'[c].answer = "accepted"
                      /\ call'[c].answer = "accepted" =>
                           Has(KindOf(c), <<HostOf[c], call'[c].n>>, "initial")
    BY <1>4 DEF CallsClaimed, CallsAccepted, KindOf
  <2>1. /\ call[c].pc \in Asked =>
             /\ call[c].n =< rec[HostOf[c]].n
             /\ call[c].n = rec[HostOf[c]].n =>
                  /\ rec[HostOf[c]].status \notin {"none", "pending"}
                  /\ rec[HostOf[c]].kind = KindOf(c)
        /\ call[c].pc = "mark" => call[c].answer = "accepted"
        /\ call[c].answer = "accepted" =>
             Has(KindOf(c), <<HostOf[c], call[c].n>>, "initial")
    BY DEF DInv, CallsClaimed, CallsAccepted
  <2>2. call[c].n \in Nat /\ HostOf[c] \in Hosts
    BY CallsAssumption DEF DInv, TypeOK, CallsTypeOK, Call
  <2>3. CASE HostOf[c] # h
    BY <1>3, <2>1, <2>2, <2>3
  <2>4. CASE HostOf[c] = h
    <3>1. CallMoves(h, c)
      BY <1>3, <2>4
    <3>2. ASSUME call[c].pc \in Asked, call'[c].n = call[c].n
          PROVE  /\ call'[c].n =< s.n
                 /\ call'[c].n = s.n => s.status \notin {"none", "pending"} /\ s.kind = KindOf(c)
      <4>1. /\ call[c].n =< r.n
            /\ call[c].n = r.n => r.status \notin {"none", "pending"} /\ r.kind = KindOf(c)
        BY <2>1, <2>4, <3>2 DEF r
      <4>2. s.n = r.n => \/ r.status = "pending" \/ r.status = "none"
                         \/ s.kind = r.kind /\ s.status = r.status
                         \/ s.kind = r.kind /\ s.status \notin {"none", "pending"}
        BY <1>0, <1>5 DEF Same, Claims, Renews, Ends, Retries, Hands
      <4>3. call'[c].n =< s.n
        BY <1>0, <1>2, <2>2, <3>2, <4>1
      <4>4. ASSUME call'[c].n = s.n PROVE s.n = r.n /\ call[c].n = r.n
        <5>1. call[c].n = s.n /\ call[c].n =< r.n /\ r.n =< s.n
          BY <1>0, <1>2, <3>2, <4>1, <4>4
        <5>2. \A i, j, k \in Nat : k = j /\ k =< i /\ i =< j => j = i /\ k = i
          OBVIOUS
        <5>3. r.n \in Nat /\ s.n \in Nat /\ call[c].n \in Nat
          BY <1>0, <2>2
        <5> QED BY <5>1, <5>2, <5>3
      <4> QED BY <4>1, <4>2, <4>3, <4>4
    <3>3. CASE call'[c] = call[c]
      BY <2>1, <2>4, <3>2, <3>3 DEF s
    <3>4. CASE call'[c].pc \notin Asked /\ call'[c].answer # "accepted"
      BY <3>4 DEF Asked
    <3>5. CASE /\ call'[c].pc = "send" /\ call'[c].answer = "none" /\ call'[c].n = rec'[h].n
               /\ rec'[h].status = "in_flight" /\ rec'[h].kind = KindOf(c)
      BY <1>0, <2>4, <3>5 DEF s
    <3>6. CASE /\ call[c].pc \in Asked /\ call'[c].n = call[c].n
               /\ call'[c].answer = "accepted" => call[c].answer = "accepted"
               /\ call'[c].pc = "mark" => call'[c].answer = "accepted"
      BY <2>1, <2>4, <3>2, <3>6 DEF s
    <3> QED BY <3>1, <3>3, <3>4, <3>5, <3>6 DEF CallMoves
  <2> QED BY <2>3, <2>4
<1>14. GivenMarked'
  <2> SUFFICES ASSUME NEW kind \in Kinds, NEW g \in Hosts, NEW n \in 1..MaxTries,
                      given'[kind][<<g, n>>] > 0
               PROVE  Has(kind, <<g, n>>, "initial") /\ Marked(kind, g, n)'
    BY <1>4 DEF GivenMarked
  <2>0. /\ <<g, n>> \in Attempts /\ given[kind][<<g, n>>] \in 0..2
        /\ given'[kind][<<g, n>>] \in 0..2
    BY <1>0 DEF Attempts
  \* A mark that was there stays.
  <2>1. ASSUME given'[kind][<<g, n>>] = given[kind][<<g, n>>]
        PROVE  Has(kind, <<g, n>>, "initial") /\ Marked(kind, g, n)'
    <3>1. Has(kind, <<g, n>>, "initial") /\ Marked(kind, g, n)
      BY <2>1 DEF DInv, GivenMarked
    <3>2. CASE g # h
      BY <1>3, <2>1, <3>1, <3>2 DEF Marked
    <3>3. CASE g = h
      <4>1. \/ kind = "injection" /\ h \in CodexHosts
            \/ /\ given'[kind][<<h, n>>] = 1
               /\ n < r.n \/ (n = r.n /\ r.returned = "yes")
        BY <2>1, <3>1, <3>3 DEF Marked, r
      <4>2. n < r.n => n < s.n
        BY <1>0, <1>2
      <4>3. n = r.n /\ r.returned = "yes" => n < s.n \/ (n = s.n /\ s.returned = "yes")
        BY <1>0, <1>1, <1>5 DEF Same, Claims, Renews, Ends, Retries, Hands
      <4> QED BY <3>1, <3>3, <4>1, <4>2, <4>3 DEF Marked, s
    <3> QED BY <3>2, <3>3
  <2>2. CASE UNCHANGED given
    BY <2>1, <2>2
  <2>3. CASE /\ Hands(r, s) /\ r.kind = "injection" /\ Has("injection", <<h, r.n>>, "initial")
             /\ Give("injection", <<h, r.n>>)
    <3>1. CASE kind = r.kind /\ g = h /\ n = r.n
      <4>1. given[r.kind][<<h, r.n>>] > 0 => Marked(r.kind, h, r.n)
        BY <1>0 DEF DInv, GivenMarked
      <4>2. CASE r.kind = "injection" /\ h \in CodexHosts
        BY <2>3, <3>1, <4>2 DEF Marked
      <4>3. CASE given[r.kind][<<h, r.n>>] = 0
        <5>1. given'[r.kind][<<h, r.n>>] = 1
          BY <1>0, <2>3, <4>3 DEF Give
        <5> QED BY <1>0, <2>3, <3>1, <5>1 DEF Marked, Hands, s
      <4> QED BY <1>0, <2>0, <2>3, <3>1, <4>1, <4>2, <4>3 DEF Marked, Hands, r
    <3>2. CASE ~(kind = r.kind /\ g = h /\ n = r.n)
      <4>1. given'[kind][<<g, n>>] = given[kind][<<g, n>>]
        <5>1. given' = [given EXCEPT ![r.kind] =
                          [given[r.kind] EXCEPT ![<<h, r.n>>] = IF @ < 2 THEN @ + 1 ELSE 2]]
          BY <1>0, <2>3 DEF Give
        <5>2. <<g, n>> # <<h, r.n>> \/ kind # r.kind
          BY <3>2
        <5> QED BY <1>0, <2>0, <5>1, <5>2
      <4> QED BY <2>1, <4>1
    <3> QED BY <3>1, <3>2
  <2>4. ASSUME NEW i \in 1..MaxTries, Has("injection", <<h, i>>, "initial"),
               Give("injection", <<h, i>>), h \in CodexHosts
        PROVE  Has(kind, <<g, n>>, "initial") /\ Marked(kind, g, n)'
    <3>0. <<h, i>> \in Attempts
      BY DEF Attempts
    <3>1. CASE kind = "injection" /\ g = h /\ n = i
      BY <2>4, <3>1 DEF Marked
    <3>2. CASE ~(kind = "injection" /\ g = h /\ n = i)
      <4>1. given'[kind][<<g, n>>] = given[kind][<<g, n>>]
        <5>1. given' = [given EXCEPT !["injection"] =
                          [given["injection"] EXCEPT ![<<h, i>>] = IF @ < 2 THEN @ + 1 ELSE 2]]
          BY <1>0, <2>4, <3>0 DEF Give
        <5>2. <<g, n>> # <<h, i>> \/ kind # "injection"
          BY <3>2
        <5> QED BY <1>0, <2>0, <5>1, <5>2
      <4> QED BY <2>1, <4>1
    <3> QED BY <3>1, <3>2
  <2> QED BY <1>5, <2>2, <2>3, <2>4
<1>15. BoundRecords'
  <2> SUFFICES ASSUME Bound, NEW g \in Hosts
               PROVE  /\ rec'[g].status # "none" =>
                           /\ rec'[g].source = "console"
                           /\ g \in CodexHosts => rec'[g].kind = "receipt"
                      /\ g \notin CodexHosts => scope'[g] # "pending"
    BY <1>3 DEF BoundRecords
  <2>1. /\ rec[g].status # "none" =>
             rec[g].source = "console" /\ (g \in CodexHosts => rec[g].kind = "receipt")
        /\ g \notin CodexHosts => scope[g] # "pending"
    BY DEF DInv, BoundRecords
  <2>2. CASE g # h
    BY <1>3, <2>1, <2>2
  <2>3. CASE g = h
    <3>1. /\ r.status # "none" =>
               r.source = "console" /\ (h \in CodexHosts => r.kind = "receipt")
      BY <2>1, <2>3 DEF r
    <3>2. /\ s.status # "none" =>
               s.source = "console" /\ (h \in CodexHosts => s.kind = "receipt")
      BY <1>5, <3>1 DEF Same, Claims, Renews, Ends, Retries, Hands
    <3>3. h \notin CodexHosts => scope'[h] # "pending"
      BY <2>1, <2>3 DEF HostMoves, ScopeMoves
    <3> QED BY <2>3, <3>2, <3>3 DEF s
  <2> QED BY <2>2, <2>3
<1>16. AcknowledgedGiven'
  <2> SUFFICES ASSUME Bound, NEW m \in rows \cup outbox', m.phase = "acknowledged"
               PROVE  GivenOrCut(m.kind, m.id)'
    BY <1>3 DEF AcknowledgedGiven
  <2>1. m.kind \in Kinds /\ m.id \in Attempts
    BY DEF DInv, HostMoves, TypeOK, ServerTypeOK, CallsTypeOK, Message, Row
  <2>2. GivenOrCut(m.kind, m.id)
    BY <1>1, <1>9 DEF DInv, AcknowledgedGiven
  <2> QED BY <1>0a, <2>1, <2>2
<1>17. ScopeBacked'
  <2> SUFFICES ASSUME Bound, NEW g \in Hosts, scope'[g] = "active"
               PROVE  \E m \in rows : m.id[1] = g /\ m.phase = "initial"
    BY <1>3 DEF ScopeBacked
  <2>1. CASE scope[g] = "active"
    BY <2>1 DEF DInv, ScopeBacked
  <2>2. CASE scope[g] # "active"
    <3>1. g = h
      BY <1>3, <2>2
    <3>2. PICK kind \in Kinds, n \in 1..MaxTries : Has(kind, <<h, n>>, "initial")
      BY <2>2, <3>1 DEF HostMoves, ScopeMoves
    <3> QED BY <3>1, <3>2 DEF Has
  <2> QED BY <2>1, <2>2
<1>18. Returning'
  BY ReturnKeeps
<1> QED BY <1>6, <1>10, <1>11, <1>12, <1>13, <1>14, <1>15, <1>16, <1>17, <1>18 DEF DInv, HostMoves

-----------------------------------------------------------------------------
(* What the server records *)

\* A request is handled, and a call that waited for it may see the answer.
Records(m) ==
  /\ m \in Row /\ Record(m)
  /\ m.phase # "initial" => m \in outbox
  /\ outbox' \subseteq outbox /\ network' \subseteq network
  /\ UNCHANGED <<resume, rec, scope, lock, cut, given>>
  /\ \A c \in Calls :
       \/ call'[c] = call[c]
       \/ /\ call[c].pc = "send" /\ call'[c].pc = "answered" /\ call'[c].n = call[c].n
          /\ call'[c].answer = "accepted" =>
               Has(KindOf(c), <<HostOf[c], call[c].n>>, "initial")'
  /\ TypeOK'

\* A row is new, of a confirmed Resume, and opens no second delivery.
LEMMA Accepted ==
  ASSUME NEW m \in Row, Record(m)
  PROVE  \/ rows' = rows
         \/ /\ rows' = rows \cup {m} /\ ~Duplicate(m) /\ resume.status = "confirmed"
            /\ m.phase = "initial" =>
                 \A other \in Recorded(m.kind) \ {m.id} :
                   ~Completed(m.kind, other) /\ ~InFlight(m.kind, other)
<1>1. CASE Verdict(m) = "accepted" /\ ~Duplicate(m)
  <2>1. resume.status = "confirmed"
    BY <1>1 DEF Verdict
  <2>2. AssertReceipt(m) = "none" /\ resume.context # "deleted"
    BY <1>1 DEF Verdict, AssertReceipt
  <2>3. \/ m.kind = "injection" /\ RecordInjectionEvent(m)
        \/ m.kind = "receipt" /\ RecordDeliveryReceipt(m)
    BY <1>1, <2>1, <2>2 DEF Verdict
  <2> QED BY <1>1, <2>1, <2>3 DEF Record, RecordInjectionEvent, RecordDeliveryReceipt, NotElsewhere
<1> QED BY <1>1 DEF Record

\* A row so admitted keeps one attempt in flight, and none beside a completed one.
LEMMA TablesKeep ==
  ASSUME DInv, NEW m \in Row, rows' = rows \cup {m}, ~Duplicate(m),
         m.phase # "initial" => m \in outbox,
         m.phase = "initial" =>
           \A other \in Recorded(m.kind) \ {m.id} :
             ~Completed(m.kind, other) /\ ~InFlight(m.kind, other)
  PROVE  OneInFlight' /\ CompletedOnce'
<1>0. /\ m.kind \in Kinds /\ m.id \in Attempts /\ m.phase \in Phases
      /\ \A kind \in Kinds : \A id \in Attempts : \A phase \in Phases :
           Has(kind, id, phase)' <=>
             Has(kind, id, phase) \/ (kind = m.kind /\ id = m.id /\ phase = m.phase)
  BY DEF Has, Row
<1> DEFINE was(kind, id, phase) == Has(kind, id, phase)
           now(kind, id, phase) == Has(kind, id, phase)'
<1>1. /\ \A kind \in Kinds : \A id \in Attempts :
           /\ InFlight(kind, id) <=> /\ was(kind, id, "initial")
                                     /\ ~was(kind, id, "acknowledged") /\ ~was(kind, id, "failed")
           /\ Completed(kind, id) <=> was(kind, id, "initial") /\ was(kind, id, "acknowledged")
           /\ InFlight(kind, id)' <=> /\ now(kind, id, "initial")
                                      /\ ~now(kind, id, "acknowledged") /\ ~now(kind, id, "failed")
           /\ Completed(kind, id)' <=> now(kind, id, "initial") /\ now(kind, id, "acknowledged")
  BY DEF InFlight, Completed
<1>2. \A kind \in Kinds : \A id \in Attempts : \A phase \in Phases :
        now(kind, id, phase) <=>
          was(kind, id, phase) \/ (kind = m.kind /\ id = m.id /\ phase = m.phase)
  BY <1>0
<1>3. ~was(m.kind, m.id, m.phase)
  BY DEF Duplicate
<1>4. /\ "initial" \in Phases /\ "acknowledged" \in Phases /\ "failed" \in Phases
      /\ m.phase = "initial" \/ m.phase = "acknowledged" \/ m.phase = "failed"
  BY <1>0 DEF Phases
<1>5. m.phase = "initial" =>
        \A other \in Attempts \ {m.id} :
          ~Completed(m.kind, other) /\ ~InFlight(m.kind, other)
  <2> SUFFICES ASSUME m.phase = "initial", NEW other \in Attempts \ {m.id}
               PROVE  ~Completed(m.kind, other) /\ ~InFlight(m.kind, other)
    OBVIOUS
  <2>1. CASE other \in Recorded(m.kind)
    BY <2>1
  <2>2. CASE other \notin Recorded(m.kind)
    <3>1. ~Has(m.kind, other, "initial")
      BY <2>2 DEF Recorded, Has
    <3> QED BY <3>1 DEF Completed, InFlight
  <2> QED BY <2>1, <2>2
<1>6. m.phase = "acknowledged" => ~was(m.kind, m.id, "failed")
  <2> SUFFICES ASSUME m.phase = "acknowledged", Has(m.kind, m.id, "failed") PROVE FALSE
    OBVIOUS
  <2>1. PICK r \in rows : r.kind = m.kind /\ r.id = m.id /\ r.phase = "failed"
    BY DEF Has
  <2>2. {m.phase, r.phase} = {"acknowledged", "failed"}
    BY <2>1
  <2> QED BY <2>1, <2>2 DEF DInv, EndsOnce
<1>7. /\ \A kind \in Kinds : \A one, two \in Attempts :
           InFlight(kind, one) /\ InFlight(kind, two) => one = two
      /\ \A kind \in Kinds : \A one, two \in Attempts :
           Completed(kind, one) =>
             ~InFlight(kind, two) /\ (Completed(kind, two) => one = two)
  BY DEF DInv, OneInFlight, CompletedOnce
<1> HIDE DEF was, now
<1>8. ASSUME NEW kind \in Kinds, NEW id \in Attempts
      PROVE  /\ InFlight(kind, id)' =>
                  \/ InFlight(kind, id)
                  \/ kind = m.kind /\ id = m.id /\ m.phase = "initial"
             /\ Completed(kind, id)' =>
                  \/ Completed(kind, id)
                  \/ /\ kind = m.kind /\ id = m.id
                     /\ \/ m.phase = "initial"
                        \/ m.phase = "acknowledged" /\ InFlight(kind, id)
             /\ kind = m.kind /\ id = m.id /\ m.phase = "acknowledged" => ~InFlight(kind, id)'
             /\ ~(InFlight(kind, id)' /\ Completed(kind, id)')
  <2>1. /\ InFlight(kind, id) <=> /\ was(kind, id, "initial")
                                  /\ ~was(kind, id, "acknowledged") /\ ~was(kind, id, "failed")
        /\ Completed(kind, id) <=> was(kind, id, "initial") /\ was(kind, id, "acknowledged")
        /\ InFlight(kind, id)' <=> /\ now(kind, id, "initial")
                                   /\ ~now(kind, id, "acknowledged") /\ ~now(kind, id, "failed")
        /\ Completed(kind, id)' <=> now(kind, id, "initial") /\ now(kind, id, "acknowledged")
    BY <1>1
  <2>2. \A phase \in Phases :
          now(kind, id, phase) <=>
            was(kind, id, phase) \/ (kind = m.kind /\ id = m.id /\ phase = m.phase)
    BY <1>2
  <2> QED BY <1>3, <1>4, <1>6, <2>1, <2>2
<1>9. OneInFlight'
  <2> SUFFICES ASSUME NEW kind \in Kinds, NEW one \in Attempts, NEW two \in Attempts,
                      InFlight(kind, one)', InFlight(kind, two)'
               PROVE  one = two
    BY DEF OneInFlight
  <2> QED BY <1>5, <1>7, <1>8
<1>10. CompletedOnce'
  <2> SUFFICES ASSUME NEW kind \in Kinds, NEW one \in Attempts, NEW two \in Attempts,
                      Completed(kind, one)'
               PROVE  ~InFlight(kind, two)' /\ (Completed(kind, two)' => one = two)
    BY DEF CompletedOnce
  <2>1. ~InFlight(kind, two)'
    <3> SUFFICES ASSUME InFlight(kind, two)' PROVE FALSE
      OBVIOUS
    <3>1. one # two
      BY <1>8
    <3>2. CASE m.phase = "initial" /\ kind = m.kind
      BY <1>5, <1>7, <1>8, <3>1, <3>2
    <3>3. CASE ~(m.phase = "initial" /\ kind = m.kind)
      BY <1>7, <1>8, <3>1, <3>3
    <3> QED BY <3>2, <3>3
  <2>2. Completed(kind, two)' => one = two
    <3> SUFFICES ASSUME Completed(kind, two)', one # two PROVE FALSE
      OBVIOUS
    <3>2. CASE m.phase = "initial" /\ kind = m.kind
      BY <1>5, <1>7, <1>8, <3>2
    <3>3. CASE ~(m.phase = "initial" /\ kind = m.kind)
      BY <1>7, <1>8, <3>3
    <3> QED BY <3>2, <3>3
  <2> QED BY <2>1, <2>2
<1> QED BY <1>9, <1>10

\* Handling a request keeps the invariant.
LEMMA RecordKeeps ==
  ASSUME DInv, NEW m, Records(m)
  PROVE  DInv'
<1>0. /\ m \in Row /\ Record(m)
      /\ m.phase # "initial" => m \in outbox
      /\ outbox' \subseteq outbox /\ network' \subseteq network
      /\ UNCHANGED <<resume, rec, scope, lock, cut, given>>
      /\ TypeOK'
  BY DEF Records
<1>1. \/ rows' = rows
      \/ /\ rows' = rows \cup {m} /\ ~Duplicate(m) /\ resume.status = "confirmed"
         /\ m.phase = "initial" =>
              \A other \in Recorded(m.kind) \ {m.id} :
                ~Completed(m.kind, other) /\ ~InFlight(m.kind, other)
  BY <1>0, Accepted
<1>2. /\ \A kind, id, phase : Has(kind, id, phase) => Has(kind, id, phase)'
      /\ \A o \in rows' \cup outbox' : o.phase # "initial" => o \in rows \cup outbox
      /\ rows \subseteq rows'
  BY <1>0, <1>1 DEF Has
<1>3. OneInFlight' /\ CompletedOnce'
  <2>1. CASE rows' = rows
    BY <2>1 DEF DInv, OneInFlight, CompletedOnce, InFlight, Completed, Has
  <2>2. CASE rows' = rows \cup {m} /\ ~Duplicate(m)
    <3>1. CASE rows' # rows
      BY <1>0, <1>1, <2>2, <3>1, TablesKeep
    <3> QED BY <2>1, <3>1
  <2> QED BY <1>1, <2>1, <2>2
<1>4. Bound' = Bound /\ \A h, n : Past(h, n)' = Past(h, n)
  BY <1>0 DEF Bound, Past
<1>0a. ASSUME NEW c \in Tools
       PROVE  /\ call'[c].pc = "return" <=> call[c].pc = "return"
              /\ call[c].pc = "return" => call'[c] = call[c]
  <2>1. c \in Calls
    BY CodexAssumption
  <2> QED BY <2>1 DEF Records
<1>0b. \A kind, id : GivenOrCut(kind, id)' <=> GivenOrCut(kind, id)
  BY <1>0, <1>0a DEF GivenOrCut, OnItsWay
<1>5. Declares' /\ EndsPast' /\ EndsOnce' /\ AcknowledgedGiven'
  <2>1. Declares'
    BY <1>0 DEF DInv, Declares
  <2>2. EndsPast'
    BY <1>2, <1>4 DEF DInv, EndsPast
  <2>3. AcknowledgedGiven'
    BY <1>0b, <1>2, <1>4 DEF DInv, AcknowledgedGiven
  <2>4. EndsOnce'
    <3> SUFFICES ASSUME NEW o \in rows' \cup outbox', NEW p \in rows' \cup outbox',
                        o.kind = p.kind, o.id = p.id,
                        {o.phase, p.phase} = {"acknowledged", "failed"}
                 PROVE  FALSE
      BY DEF EndsOnce
    <3>1. o.phase # "initial" /\ p.phase # "initial"
      OBVIOUS
    <3> QED BY <1>2, <3>1 DEF DInv, EndsOnce
  <2> QED BY <2>1, <2>2, <2>3, <2>4
<1>6. RecordsTrue' /\ BoundRecords'
  <2>1. \A h \in Hosts : /\ rec[h].returned = "yes" => GivenOrCut(rec[h].kind, <<h, rec[h].n>>)
                         /\ rec'[h] = rec[h]
    BY <1>0 DEF DInv, RecordsTrue
  <2>2. \A h \in Hosts : rec[h].returned = "yes" => GivenOrCut(rec[h].kind, <<h, rec[h].n>>)'
    BY <1>0, <1>0b, <2>1
  <2> QED BY <1>0, <1>4, <2>2 DEF DInv, RecordsTrue, BoundRecords
<1>7. GivenMarked' /\ ScopeBacked'
  <2>1. GivenMarked'
    BY <1>0, <1>2 DEF DInv, GivenMarked, Marked
  <2>2. ScopeBacked'
    BY <1>0, <1>2, <1>4 DEF DInv, ScopeBacked
  <2> QED BY <2>1, <2>2
<1>7a. Returning'
  <2>1. \A id \in cut' : Has("receipt", id, "initial")'
    BY <1>0, <1>2 DEF DInv, Returning
  <2> QED BY <1>0, <1>0a, <2>1 DEF DInv, Returning
<1>8. ASSUME NEW c \in Calls
      PROVE  \/ call'[c] = call[c]
             \/ /\ call[c].pc = "send" /\ call'[c].pc = "answered" /\ call'[c].n = call[c].n
                /\ call'[c].answer = "accepted" =>
                     Has(KindOf(c), <<HostOf[c], call[c].n>>, "initial")'
  BY DEF Records
<1>9. CallsClaimed'
  BY <1>0, <1>8 DEF DInv, CallsClaimed, Asked, KindOf
<1>10. CallsAccepted'
  <2> SUFFICES ASSUME NEW c \in Calls
               PROVE  (/\ call[c].pc = "mark" => call[c].answer = "accepted"
                       /\ call[c].answer = "accepted" =>
                            Has(KindOf(c), <<HostOf[c], call[c].n>>, "initial"))'
    BY DEF CallsAccepted
  <2>1. CASE call'[c] = call[c]
    <3>1. /\ call[c].pc = "mark" => call[c].answer = "accepted"
          /\ call[c].answer = "accepted" =>
               Has(KindOf(c), <<HostOf[c], call[c].n>>, "initial")
      BY DEF DInv, CallsAccepted
    <3> QED BY <1>2, <2>1, <3>1 DEF Has, KindOf
  <2>2. CASE /\ call[c].pc = "send" /\ call'[c].pc = "answered" /\ call'[c].n = call[c].n
             /\ call'[c].answer = "accepted" =>
                  Has(KindOf(c), <<HostOf[c], call[c].n>>, "initial")'
    BY <2>2
  <2> QED BY <1>8, <2>1, <2>2
<1>11. LockKept'
  <2> SUFFICES ASSUME NEW c \in Tools
               PROVE  /\ call'[c].pc = "mark" => Owns(c)
                      /\ call'[c].pc \in Asked /\ Owns(c) /\ Holds(c)' =>
                           rec[HostOf[c]].returned = "no"
    BY <1>0 DEF LockKept, Owns
  <2>1. c \in Calls
    BY CodexAssumption
  <2>2. call'[c] = call[c] \/ (call[c].pc = "send" /\ call'[c].pc = "answered" /\ call'[c].n = call[c].n)
    BY <1>8, <2>1
  <2>3. Holds(c)' => Holds(c)
    BY <1>0, <2>2 DEF Holds
  <2> QED BY <2>2, <2>3 DEF DInv, LockKept, Asked
<1>12. Unstarted'
  <2> SUFFICES ASSUME resume.status = "none"
               PROVE  /\ ~Bound /\ rows' = {} /\ outbox' = {} /\ network' = {}
                      /\ \A h \in Hosts : rec[h].status = "none" /\ scope[h] = "none"
                      /\ \A c \in Calls : call'[c].pc = "idle"
    BY <1>0, <1>4 DEF Unstarted
  <2>1. /\ ~Bound /\ rows = {} /\ outbox = {} /\ network = {}
        /\ \A h \in Hosts : rec[h].status = "none" /\ scope[h] = "none"
        /\ \A c \in Calls : call[c].pc = "idle"
    BY DEF DInv, Unstarted
  <2> QED BY <1>0, <1>1, <1>8, <2>1
<1> QED BY <1>0, <1>3, <1>5, <1>6, <1>7, <1>7a, <1>9, <1>10, <1>11, <1>12 DEF DInv

-----------------------------------------------------------------------------
(* What the operators of an action leave in the fields of records and calls *)

\* A claim, a mark or an end leaves the other fields of a record alone.
LEMMA Fields ==
  ASSUME NEW r \in Rec
  PROVE  /\ Claimed(r).status = "in_flight" /\ Claimed(r).n = r.n
         /\ Claimed(r).returned = r.returned /\ Claimed(r).source = r.source
         /\ Claimed(r).kind = r.kind
         /\ Claimed([r EXCEPT !.kind = "receipt"]).status = "in_flight"
         /\ Claimed([r EXCEPT !.kind = "receipt"]).n = r.n
         /\ Claimed([r EXCEPT !.kind = "receipt"]).returned = r.returned
         /\ Claimed([r EXCEPT !.kind = "receipt"]).source = r.source
         /\ Claimed([r EXCEPT !.kind = "receipt"]).kind = "receipt"
         /\ Same(r, r)
         /\ \A x \in {"yes", "no"} : /\ Same(r, [r EXCEPT !.fresh = x])
                                     /\ Same(r, [r EXCEPT !.armed = x])
         /\ \A st \in {"cancelled", "delivered"} : Ends(r, [r EXCEPT !.status = st], st)
         /\ r.status = "in_flight" /\ r.returned = "no" => Hands(r, [r EXCEPT !.returned = "yes"])
         /\ [r EXCEPT !.returned = "yes"].returned = "yes"
<1>1. \A x : /\ [r EXCEPT !.kind = x].n = r.n /\ [r EXCEPT !.kind = x].status = r.status
             /\ [r EXCEPT !.kind = x].returned = r.returned
             /\ [r EXCEPT !.kind = x].source = r.source /\ [r EXCEPT !.kind = x].kind = x
  BY DEF Rec
<1>2. ASSUME NEW q \in Rec
      PROVE  /\ Claimed(q).status = "in_flight" /\ Claimed(q).n = q.n
             /\ Claimed(q).returned = q.returned /\ Claimed(q).source = q.source
             /\ Claimed(q).kind = q.kind
  BY DEF Claimed, Rec
<1>3. [r EXCEPT !.kind = "receipt"] \in Rec
  BY DEF Rec, Kinds
<1>4. \A x \in {"yes", "no"} : /\ Same(r, [r EXCEPT !.fresh = x])
                               /\ Same(r, [r EXCEPT !.armed = x])
  BY DEF Rec, Same
<1>5. \A st \in {"cancelled", "delivered"} : Ends(r, [r EXCEPT !.status = st], st)
  BY DEF Rec, Ends
<1>6. /\ r.status = "in_flight" /\ r.returned = "no" => Hands(r, [r EXCEPT !.returned = "yes"])
      /\ [r EXCEPT !.returned = "yes"].returned = "yes"
  BY DEF Rec, Hands
<1>7. /\ Claimed([r EXCEPT !.kind = "receipt"]).status = "in_flight"
      /\ Claimed([r EXCEPT !.kind = "receipt"]).n = r.n
      /\ Claimed([r EXCEPT !.kind = "receipt"]).returned = r.returned
      /\ Claimed([r EXCEPT !.kind = "receipt"]).source = r.source
      /\ Claimed([r EXCEPT !.kind = "receipt"]).kind = "receipt"
  <2> DEFINE q == [r EXCEPT !.kind = "receipt"]
  <2>1. q.n = r.n /\ q.returned = r.returned /\ q.source = r.source /\ q.kind = "receipt"
    BY <1>1
  <2>2. q \in Rec
    BY <1>3
  <2> HIDE DEF q
  <2>3. /\ Claimed(q).status = "in_flight" /\ Claimed(q).n = q.n
        /\ Claimed(q).returned = q.returned /\ Claimed(q).source = q.source
        /\ Claimed(q).kind = q.kind
    BY <1>2, <2>2
  <2>4. /\ Claimed(q).status = "in_flight" /\ Claimed(q).n = r.n
        /\ Claimed(q).returned = r.returned /\ Claimed(q).source = r.source
        /\ Claimed(q).kind = "receipt"
    BY <2>1, <2>3
  <2> QED BY <2>4 DEF q
<1>8. Same(r, r)
  BY DEF Same
<1>9. /\ Claimed(r).status = "in_flight" /\ Claimed(r).n = r.n
      /\ Claimed(r).returned = r.returned /\ Claimed(r).source = r.source
      /\ Claimed(r).kind = r.kind
  BY <1>2
<1> QED BY <1>4, <1>5, <1>6, <1>7, <1>8, <1>9

\* A new record is pending, not handed over, and numbered after the one it replaces.
LEMMA NewFields ==
  ASSUME NEW h \in Hosts, NEW source, NEW kind, NEW armed
  PROVE  LET r == NewRec(h, source, kind, armed) IN
         /\ r.status = "pending" /\ r.returned = "no" /\ r.source = source /\ r.kind = kind
         /\ r.n = IF rec[h].status = "none" THEN 1 ELSE rec[h].n + 1
BY DEF NewRec, NoRec

\* A retried record is pending or cancelled under the next number.
LEMMA RetryFields ==
  ASSUME NEW h \in Hosts, rec[h] \in Rec, rec[h].status = "in_flight"
  PROVE  /\ Retries(rec[h], Retry(h))
         /\ Retries(rec[h], [Retry(h) EXCEPT !.status = "pending"])
         /\ Retries(rec[h], [Retry(h) EXCEPT !.status = "cancelled"])
<1> DEFINE r == Retry(h)
<1>1. /\ r.n = rec[h].n + 1 /\ r.status = "pending" /\ r.returned = "no"
      /\ r.kind = rec[h].kind /\ r.source = rec[h].source
      /\ DOMAIN r = {"status", "n", "at", "source", "kind", "armed", "returned", "fresh"}
      /\ r = [x \in DOMAIN r |-> r[x]]
  BY DEF Retry, Rec
<1> HIDE DEF r
<1>2. \A st : /\ [r EXCEPT !.status = st].n = r.n /\ [r EXCEPT !.status = st].status = st
              /\ [r EXCEPT !.status = st].returned = r.returned
              /\ [r EXCEPT !.status = st].kind = r.kind
              /\ [r EXCEPT !.status = st].source = r.source
  BY <1>1
<1>3. Retries(rec[h], r)
  BY <1>1 DEF Retries
<1>4. Retries(rec[h], [r EXCEPT !.status = "pending"])
  BY <1>1, <1>2 DEF Retries
<1>5. Retries(rec[h], [r EXCEPT !.status = "cancelled"])
  BY <1>1, <1>2 DEF Retries
<1> QED BY <1>3, <1>4, <1>5 DEF r

\* What the local variables of a call are set to.
LEMMA CallFields ==
  /\ Idle.pc = "idle" /\ Idle.answer = "none" /\ Idle.pc \notin Asked
  /\ \A pc : Waiting(pc).pc = pc /\ Waiting(pc).answer = "none"
  /\ \A r : Sending(r).pc = "send" /\ Sending(r).answer = "none" /\ Sending(r).n = r.n
BY DEF Idle, Waiting, Sending, Asked

\* One write to a function changes one place.
LEMMA Places ==
  ASSUME TypeOK
  PROVE  /\ \A h \in Hosts : \A r : RecIs(h, r) =>
              rec'[h] = r /\ \A g \in Hosts \ {h} : rec'[g] = rec[g]
         /\ \A c \in Calls : \A r : CallIs(c, r) =>
              call'[c] = r /\ \A d \in Calls \ {c} : call'[d] = call[d]
         /\ \A h \in Hosts : \A x : scope' = [scope EXCEPT ![h] = x] =>
              scope'[h] = x /\ \A g \in Hosts \ {h} : scope'[g] = scope[g]
         /\ \A h \in CodexHosts : \A x : lock' = [lock EXCEPT ![h] = x] =>
              lock'[h] = x /\ \A g \in CodexHosts \ {h} : lock'[g] = lock[g]
BY DEF TypeOK, CallsTypeOK, CodexTypeOK, RecIs, CallIs

\* Nothing is under way before there is a preview.
LEMMA Started ==
  ASSUME DInv,
         \/ \E c \in Calls : call[c].pc # "idle"
         \/ \E h \in Hosts : rec[h].status # "none"
         \/ \E h \in Hosts : scope[h] # "none"
         \/ Bound
  PROVE  resume.status # "none"
BY DEF DInv, Unstarted

-----------------------------------------------------------------------------
(* The lock of a Codex host *)

\* What a tool may rely on
Secured(c) ==
  /\ call[c].pc = "mark" => Owns(c)
  /\ call[c].pc \in Asked /\ Owns(c) /\ Holds(c) => rec[HostOf[c]].returned = "no"

\* Other hosts have no part in it.
LEMMA LockElsewhere ==
  ASSUME DInv, NEW h \in Hosts, h \notin CodexHosts, UNCHANGED lock,
         \A g \in Hosts \ {h} : rec'[g] = rec[g],
         \A c \in Calls : HostOf[c] # h => call'[c] = call[c]
  PROVE  LockKept'
<1> SUFFICES ASSUME NEW c \in Tools PROVE Secured(c)'
  BY DEF LockKept, Secured
<1>1. c \in Calls /\ HostOf[c] \in CodexHosts /\ HostOf[c] \in Hosts
  BY CallsAssumption, CodexAssumption DEF CodexHosts
<1>2. call'[c] = call[c] /\ rec'[HostOf[c]] = rec[HostOf[c]] /\ lock' = lock
  BY <1>1
<1>3. Secured(c)
  BY DEF DInv, LockKept, Secured
<1> QED BY <1>2, <1>3 DEF Secured, Owns, Holds

\* Nor those of another data directory.
LEMMA LockHere ==
  ASSUME DInv, NEW h \in CodexHosts,
         \A g \in CodexHosts \ {h} : lock'[g] = lock[g],
         \A g \in Hosts \ {h} : rec'[g] = rec[g],
         \A c \in Calls : HostOf[c] # h => call'[c] = call[c],
         \A c \in Tools : HostOf[c] = h => Secured(c)'
  PROVE  LockKept'
<1> SUFFICES ASSUME NEW c \in Tools PROVE Secured(c)'
  BY DEF LockKept, Secured
<1>1. c \in Calls /\ HostOf[c] \in CodexHosts /\ HostOf[c] \in Hosts
  BY CallsAssumption, CodexAssumption DEF CodexHosts
<1>2. CASE HostOf[c] # h
  <2>1. call'[c] = call[c] /\ rec'[HostOf[c]] = rec[HostOf[c]] /\ lock'[HostOf[c]] = lock[HostOf[c]]
    BY <1>1, <1>2
  <2>2. Secured(c)
    BY DEF DInv, LockKept, Secured
  <2> QED BY <2>1, <2>2 DEF Secured, Owns, Holds
<1> QED BY <1>2

\* A tool that does not act keeps what it relies on, unless the context of its
\* attempt is handed over or its lock is taken.
LEMMA Bystander ==
  ASSUME DInv, NEW c \in Tools, call'[c] = call[c], RecordMoves(HostOf[c]),
         Hands(rec[HostOf[c]], rec'[HostOf[c]]) => ~Owns(c)',
         Owns(c)' => Owns(c),
         call[c].pc = "mark" => Owns(c)'
  PROVE  Secured(c)'
<1> DEFINE h == HostOf[c]
           r == rec[h]
           s == rec'[h]
<1>0. h \in Hosts
  BY CallsAssumption, CodexAssumption
<1>1. Secured(c) /\ (r.status = "pending" => r.returned = "no")
  BY <1>0 DEF DInv, LockKept, Secured, RecordsTrue
<1>2. \/ Hands(r, s)
      \/ s.status = "in_flight" /\ s.returned # "no" =>
           r.status = "in_flight" /\ s.n = r.n /\ s.returned = r.returned
  BY <1>1 DEF RecordMoves, Same, Claims, Renews, Retries, Ends
<1>3. /\ Holds(c) <=> r.status = "in_flight" /\ r.n = call[c].n
      /\ Holds(c)' <=> s.status = "in_flight" /\ s.n = call'[c].n
  BY DEF Holds
<1>4. /\ Secured(c) <=>
           /\ call[c].pc = "mark" => Owns(c)
           /\ call[c].pc \in Asked /\ Owns(c) /\ Holds(c) => r.returned = "no"
      /\ Secured(c)' <=>
           /\ call'[c].pc = "mark" => Owns(c)'
           /\ call'[c].pc \in Asked /\ Owns(c)' /\ Holds(c)' => s.returned = "no"
  BY DEF Secured
<1> HIDE DEF r, s, h
<1>5. ASSUME call'[c].pc \in Asked, Owns(c)', Holds(c)' PROVE s.returned = "no"
  <2>1. ~Hands(r, s) /\ Owns(c) /\ s.status = "in_flight" /\ s.n = call[c].n
    BY <1>3, <1>5 DEF r, s, h
  <2> SUFFICES ASSUME s.returned # "no" PROVE FALSE
    OBVIOUS
  <2>2. Holds(c) /\ s.returned = r.returned
    BY <1>2, <1>3, <2>1
  <2>3. call[c].pc \in Asked
    BY <1>5
  <2> QED BY <1>1, <1>4, <2>1, <2>2, <2>3
<1> QED BY <1>4, <1>5

\* A step of a call of a host, put together
LEMMA Acted ==
  ASSUME DInv, TypeOK', NEW h \in Hosts, NEW c \in Calls, HostOf[c] = h,
         resume' = resume, resume.status # "none", UNCHANGED rows,
         \A g \in Hosts \ {h} : rec'[g] = rec[g] /\ scope'[g] = scope[g],
         \A d \in Calls \ {c} : call'[d] = call[d],
         CallMoves(h, c), RecordMoves(h), ReturnMoves(h), ScopeMoves(h),
         Declares', LockKept'
  PROVE  DInv'
<1>1. \A d \in Calls : HostOf[d] # h => call'[d] = call[d]
  OBVIOUS
<1>2. \A d \in Calls : CallMoves(h, d)
  BY DEF CallMoves
<1>3. Unstarted'
  BY DEF Unstarted
<1> QED BY <1>1, <1>2, <1>3, HostKeeps DEF HostMoves

\* Results stay on their way while a call that has none acts.
LEMMA ToolReturns ==
  ASSUME NEW h, NEW c \in Calls, cut' = cut,
         \A d \in Calls \ {c} : call'[d] = call[d],
         call[c].pc # "return", call'[c].pc # "return"
  PROVE  ReturnMoves(h)
<1>1. \A d \in Tools :
        call'[d] = call[d] \/ (call[d].pc # "return" /\ call'[d].pc # "return")
  BY CodexAssumption
<1> QED BY <1>1 DEF ReturnMoves

\* And while no tool acts.
LEMMA OthersReturn ==
  ASSUME NEW h, NEW c \in Calls, c \notin Tools, cut' = cut,
         \A d \in Calls \ {c} : call'[d] = call[d]
  PROVE  ReturnMoves(h)
<1>1. \A d \in Tools : call'[d] = call[d]
  BY CodexAssumption
<1> QED BY <1>1 DEF ReturnMoves

-----------------------------------------------------------------------------
(* The actions that hosts have in common *)

\* A declaration is answered.
LEMMA AnswerKeeps ==
  ASSUME DInv, TypeOK', NEW c \in Calls, Answer(c, KindOf(c)), UNCHANGED <<lock, cut>>
  PROVE  DInv'
<1> DEFINE m == Declaration(c, KindOf(c))
<1>0. /\ m \in Row /\ m.kind = KindOf(c) /\ m.id = <<HostOf[c], call[c].n>>
      /\ m.phase = "initial"
  BY MessageShapes DEF DInv, KindOf, Kinds, Declaration
<1>1. PICK answer :
        /\ call[c].pc = "send" /\ Record(m)
        /\ CallIs(c, [call[c] EXCEPT !.pc = "answered", !.answer = answer])
        /\ answer = "accepted" => Verdict(m) = "accepted"
        /\ UNCHANGED <<resume, handoff, clock, events, rec, scope, outbox, network, given, faults>>
  BY DEF Answer
<1>2. call[c] \in Call
  BY DEF DInv, TypeOK, CallsTypeOK
<1>3. [call[c] EXCEPT !.pc = "answered", !.answer = answer].pc = "answered"
      /\ [call[c] EXCEPT !.pc = "answered", !.answer = answer].answer = answer
      /\ [call[c] EXCEPT !.pc = "answered", !.answer = answer].n = call[c].n
  BY <1>2 DEF Call
<1>4. /\ call'[c].pc = "answered" /\ call'[c].answer = answer /\ call'[c].n = call[c].n
      /\ \A d \in Calls \ {c} : call'[d] = call[d]
  BY <1>1, <1>3, Places DEF DInv
<1>5. answer = "accepted" => m \in rows' \/ (Duplicate(m) /\ rows' = rows)
  <2> HIDE DEF m
  <2> QED BY <1>1 DEF Record
<1>6. answer = "accepted" => \E r \in rows' : r.kind = m.kind /\ r.id = m.id /\ r.phase = m.phase
  BY <1>5 DEF Duplicate, Has
<1>7. answer = "accepted" => Has(KindOf(c), <<HostOf[c], call[c].n>>, "initial")'
  BY <1>0, <1>4, <1>6 DEF Has, KindOf
<1>8. Records(m)
  BY <1>0, <1>1, <1>4, <1>7 DEF Records
<1> QED BY <1>8, RecordKeeps

\* A late request or a queued event arrives.
LEMMA ArriveKeeps ==
  ASSUME DInv, TypeOK', Arrive, UNCHANGED <<lock, cut>>
  PROVE  DInv'
<1>1. PICK m \in network \cup outbox :
        /\ Record(m) /\ network' = network \ {m}
        /\ outbox' = IF Verdict(m) = "accepted" THEN outbox \ {m} ELSE outbox
        /\ UNCHANGED <<resume, handoff, clock, events, rec, scope, call, given, faults>>
  BY DEF Arrive
<1>2. m \in Row /\ (m.phase # "initial" => m \in outbox)
  BY DEF DInv, TypeOK, CallsTypeOK, Message, Declares
<1>3. Records(m)
  BY <1>1, <1>2 DEF Records
<1> QED BY <1>3, RecordKeeps

\* The caller gives up, or asks for what is pending.
LEMMA LoseKeeps ==
  ASSUME DInv, TypeOK', NEW c \in Calls, NEW kind, Lose(c, kind) \/ Pulled(c), UNCHANGED <<lock, cut>>
  PROVE  DInv'
<1> DEFINE h == HostOf[c]
<1>0. h \in Hosts /\ call[c] \in Call /\ rec[h] \in Rec
  BY CallsAssumption DEF DInv, TypeOK, CallsTypeOK
<1>1. PICK pc, answer :
        /\ \/ pc = "pulled" /\ answer \in {"packet", "none"}
           \/ pc = "answered" /\ answer = "lost" /\ call[c].pc = "send"
        /\ CallIs(c, [call[c] EXCEPT !.pc = pc, !.answer = answer])
        /\ UNCHANGED <<rec, scope, outbox, given, resume, rows>>
        /\ call[c].pc \in {"send", "pull"}
        /\ network' = network \/ network' = network \cup {Declaration(c, kind)}
  <2>1. CASE Lose(c, kind)
    BY <2>1 DEF Lose, serverVars, server
  <2>2. CASE Pulled(c)
    <3>1. CASE Pending(h)
      BY <2>2, <3>1 DEF Pulled, serverVars, server
    <3>2. CASE ~Pending(h)
      BY <2>2, <3>2 DEF Pulled, serverVars, server
    <3> QED BY <3>1, <3>2
  <2> QED BY <2>1, <2>2
<1>2. /\ [call[c] EXCEPT !.pc = pc, !.answer = answer].pc = pc
      /\ [call[c] EXCEPT !.pc = pc, !.answer = answer].answer = answer
      /\ [call[c] EXCEPT !.pc = pc, !.answer = answer].n = call[c].n
  BY <1>0 DEF Call
<1>3. /\ call'[c].pc = pc /\ call'[c].answer = answer /\ call'[c].n = call[c].n
      /\ \A d \in Calls \ {c} : call'[d] = call[d]
  <2> DEFINE r == [call[c] EXCEPT !.pc = pc, !.answer = answer]
  <2>1. TypeOK /\ CallIs(c, r)
    BY <1>1 DEF DInv
  <2> HIDE DEF r
  <2>2. call'[c] = r /\ \A d \in Calls \ {c} : call'[d] = call[d]
    BY <2>1, Places
  <2> QED BY <1>2, <2>2 DEF r
<1>4. CallMoves(h, c)
  BY <1>1, <1>3 DEF CallMoves, Asked
<1>5. RecordMoves(h) /\ ScopeMoves(h)
  BY <1>0, <1>1, Fields DEF RecordMoves, ScopeMoves
<1>5a. ReturnMoves(h)
  BY <1>1, <1>3, ToolReturns
<1>6. resume.status # "none"
  BY <1>1, Started
<1>7. Declares'
  BY <1>1 DEF DInv, Declares, Declaration
<1>8. LockKept'
  <2> SUFFICES ASSUME NEW d \in Tools PROVE Secured(d)'
    BY DEF LockKept, Secured
  <2>1. Secured(d) /\ d \in Calls
    BY CodexAssumption DEF DInv, LockKept, Secured
  <2>2. CASE d # c
    BY <1>1, <1>3, <2>1, <2>2 DEF Secured, Owns, Holds
  <2>3. CASE d = c
    BY <1>1, <1>3, <2>1, <2>3 DEF Secured, Owns, Holds, Asked
  <2> QED BY <2>2, <2>3
<1> QED BY <1>0, <1>1, <1>3, <1>4, <1>5, <1>5a, <1>6, <1>7, <1>8, Acted

\* An attempt is claimed: the one in flight, the pending one, or one just queued.
LEMMA ClaimMoves ==
  ASSUME DInv, NEW c \in Calls, NEW q \in Rec, UNCHANGED <<outbox, given>>,
         \/ Same(rec[HostOf[c]], q)
         \/ Renews(HostOf[c], rec[HostOf[c]], q) /\ q.status = "pending",
         \/ c \in Tools /\ ClaimMcpResumeDelivery(c, q)
         \/ /\ c \notin Tools /\ HostOf[c] \notin CodexHosts
            /\ ClaimPending(c, q) \/ ClaimAgain(c, q) \/ HermesClaims(c, q)
  PROVE  /\ \A g \in Hosts \ {HostOf[c]} : rec'[g] = rec[g]
         /\ \A d \in Calls \ {c} : call'[d] = call[d]
         /\ RecordMoves(HostOf[c]) /\ CallMoves(HostOf[c], c)
         /\ rec'[HostOf[c]].returned = "no" /\ call'[c].pc = "send"
         /\ rec'[HostOf[c]].status = "in_flight"
         /\ ~Hands(rec[HostOf[c]], rec'[HostOf[c]])
<1> DEFINE h == HostOf[c]
           toReceipt == [q EXCEPT !.kind = "receipt"]
           r == rec[h]
           s == rec'[h]
<1>0. h \in Hosts /\ TypeOK
  BY CallsAssumption DEF DInv
<1>1. /\ r.status \in {"none", "pending"} => r.returned = "no"
      /\ h \notin CodexHosts => r.kind = "injection"
  BY <1>0 DEF DInv, RecordsTrue
<1>2. c \in Tools => h \in CodexHosts
  BY DEF CodexHosts
<1>3. PICK x :
        /\ RecIs(h, x) /\ CallIs(c, Sending(x)) /\ x.status = "in_flight"
        /\ x.n = q.n /\ x.source = q.source /\ x.returned = q.returned
        /\ \/ x = q /\ q.returned = "no"
           \/ q.status = "pending"
        /\ \/ c \in Tools /\ x.kind = "receipt"
           \/ c \notin Tools /\ h \notin CodexHosts /\ x.kind = q.kind
  <2>1. CASE c \in Tools /\ ClaimMcpResumeDelivery(c, q)
    <3>1. CASE HeldNow(q) /\ q.returned = "no" /\ CallIs(c, Sending(q)) /\ RecIs(h, q)
      BY <2>1, <3>1 DEF HeldNow
    <3>2. CASE ClaimableNow(q) /\ CallIs(c, Sending(Claimed(toReceipt))) /\ RecIs(h, Claimed(toReceipt))
      BY <2>1, <3>2, Fields DEF ClaimableNow
    <3> QED BY <2>1, <3>1, <3>2 DEF ClaimMcpResumeDelivery
  <2>2. CASE /\ c \notin Tools /\ h \notin CodexHosts
             /\ ClaimPending(c, q) \/ ClaimAgain(c, q) \/ HermesClaims(c, q)
    <3>1. \/ /\ q.status = "pending" /\ CallIs(c, Sending(Claimed(q)))
             /\ RecIs(h, Claimed(q))
          \/ /\ q.status = "in_flight" /\ q.returned = "no" /\ CallIs(c, Sending(q))
             /\ RecIs(h, q)
      BY <2>2 DEF ClaimPending, ClaimAgain, HermesClaims, Claimable
    <3> QED BY <2>2, <3>1, Fields
  <2> QED BY <2>1, <2>2
<1>4. /\ s = x /\ \A g \in Hosts \ {h} : rec'[g] = rec[g]
      /\ call'[c] = Sending(x) /\ \A d \in Calls \ {c} : call'[d] = call[d]
  BY <1>0, <1>3, Places
<1>5. call'[c].pc = "send" /\ call'[c].answer = "none" /\ call'[c].n = x.n
  BY <1>4, CallFields
<1> HIDE DEF r, s
<1>6. s.returned = "no" /\ s.status = "in_flight"
  BY <1>1, <1>3, <1>4 DEF Same, Renews, r, s
<1>7. Same(r, s) \/ Claims(h, r, s) \/ Renews(h, r, s)
  <2>1. CASE Same(r, q)
    <3>1. CASE x = q /\ q.returned = "no"
      BY <1>4, <2>1, <3>1 DEF Same
    <3>2. CASE q.status = "pending"
      BY <1>2, <1>3, <1>4, <2>1, <3>2 DEF Same, Claims
    <3> QED BY <1>3, <3>1, <3>2
  <2>2. CASE Renews(h, r, q) /\ q.status = "pending"
    BY <1>2, <1>3, <1>4, <1>6, <2>2 DEF Renews
  <2> QED BY <2>1, <2>2 DEF r
<1>8. s.kind = KindOf(c)
  BY <1>1, <1>3, <1>4, <1>7 DEF KindOf, Same, Renews, Claims
<1>9. RecordMoves(h)
  BY <1>7 DEF RecordMoves, r, s
<1>10. CallMoves(h, c)
  BY <1>4, <1>5, <1>6, <1>8 DEF CallMoves, s
<1>11. ~Hands(r, s)
  BY <1>6 DEF Hands
<1> QED BY <1>4, <1>5, <1>6, <1>9, <1>10, <1>11 DEF r, s

\* The server and the world leave the hosts alone.
LEMMA AloneKeeps ==
  ASSUME DInv, TypeOK', UNCHANGED <<rows, rec, scope, call, outbox, network, given, lock, cut>>,
         \/ resume'.target = resume.target /\ (resume'.status = "none" => resume.status = "none")
         \/ resume.status = "none" /\ resume'.status # "none"
  PROVE  DInv'
<1>1. OneInFlight' /\ CompletedOnce'
  BY DEF DInv, OneInFlight, CompletedOnce, InFlight, Completed, Has
<1>2. Declares' /\ EndsPast' /\ EndsOnce' /\ RecordsTrue'
  BY DEF DInv, Declares, EndsPast, EndsOnce, RecordsTrue, Past, GivenOrCut, OnItsWay
<1>3. CallsClaimed' /\ CallsAccepted'
  BY DEF DInv, CallsClaimed, CallsAccepted, Has, KindOf
<1>4. LockKept' /\ GivenMarked'
  BY DEF DInv, LockKept, GivenMarked, Owns, Holds, Marked, Has
<1>4a. Returning'
  <2>1. \A id : Has("receipt", id, "initial")' = Has("receipt", id, "initial")
    BY DEF Has
  <2> QED BY <2>1 DEF DInv, Returning
<1>5. CASE resume'.target = resume.target /\ (resume'.status = "none" => resume.status = "none")
  <2>1. Unstarted' /\ BoundRecords' /\ AcknowledgedGiven' /\ ScopeBacked'
    BY <1>5 DEF DInv, Unstarted, BoundRecords, AcknowledgedGiven, ScopeBacked, Bound,
                GivenOrCut, OnItsWay
  <2> QED BY <1>1, <1>2, <1>3, <1>4, <1>4a, <2>1 DEF DInv
<1>6. CASE resume.status = "none" /\ resume'.status # "none"
  <2>1. /\ rows = {} /\ outbox = {} /\ network = {}
        /\ \A h \in Hosts : rec[h].status = "none" /\ scope[h] = "none"
        /\ \A c \in Calls : call[c].pc = "idle"
    BY <1>6 DEF DInv, Unstarted
  <2>2. Unstarted' /\ BoundRecords' /\ AcknowledgedGiven' /\ ScopeBacked'
    BY <1>6, <2>1 DEF Unstarted, BoundRecords, AcknowledgedGiven, ScopeBacked
  <2> QED BY <1>1, <1>2, <1>3, <1>4, <1>4a, <2>2 DEF DInv
<1> QED BY <1>5, <1>6

\* Every step of the console, the world and the network.
LEMMA ServerKeeps ==
  ASSUME DInv, TypeOK', ServerNext, UNCHANGED codexVars
  PROVE  DInv'
<1> USE DEF callVars, codexVars
<1>0. resume \in Resume /\ resume' \in Resume
  BY DEF DInv, TypeOK, ServerTypeOK
<1>1. ASSUME NEW target \in Hosts \cup {NoHost}, CreatePreview(target), UNCHANGED callVars
      PROVE  DInv'
  <2>1. resume.status = "none" /\ resume'.status # "none"
    BY <1>0, <1>1 DEF CreatePreview, Resume
  <2> QED BY <1>1, <2>1, AloneKeeps DEF CreatePreview
<1>2. CASE (Cancel \/ ConsoleConfirm) /\ UNCHANGED callVars
  <2>1. resume'.target = resume.target /\ resume'.status # "none"
    BY <1>0, <1>2 DEF Cancel, ConsoleConfirm, Confirmed, Resume
  <2> QED BY <1>2, <2>1, AloneKeeps DEF Cancel, ConsoleConfirm
<1>3. CASE SetEnabled /\ UNCHANGED callVars
  BY <1>3, AloneKeeps DEF SetEnabled
<1>4. CASE World /\ UNCHANGED callVars
  <2>1. resume'.target = resume.target /\ resume'.status = resume.status
    BY <1>0, <1>4 DEF World, Resume
  <2> QED BY <1>4, <2>1, AloneKeeps DEF World
<1>5. CASE Arrive
  BY <1>5, ArriveKeeps
<1>6. ASSUME NEW h \in Hosts, Expire(h) PROVE DInv'
  <2>1. rec[h] \in Rec /\ TypeOK
    BY DEF DInv, TypeOK, CallsTypeOK
  <2>2. /\ rec[h].status # "none" /\ RecIs(h, [rec[h] EXCEPT !.fresh = "no"])
        /\ UNCHANGED <<resume, rows, scope, call, outbox, network, given, lock, cut>>
    BY <1>6 DEF Expire, server
  <2>3. Same(rec[h], rec'[h]) /\ \A g \in Hosts \ {h} : rec'[g] = rec[g]
    <3>1. /\ rec'[h] = [rec[h] EXCEPT !.fresh = "no"]
          /\ \A g \in Hosts \ {h} : rec'[g] = rec[g]
      BY <2>1, <2>2, Places
    <3>2. Same(rec[h], [rec[h] EXCEPT !.fresh = "no"])
      BY <2>1, Fields
    <3> QED BY <3>1, <3>2
  <2>4. RecordMoves(h) /\ ScopeMoves(h) /\ \A c \in Calls : CallMoves(h, c)
    BY <2>2, <2>3 DEF RecordMoves, ScopeMoves, CallMoves
  <2>4a. ReturnMoves(h)
    BY <2>2 DEF ReturnMoves
  <2>5. Declares' /\ Unstarted'
    BY <2>2, Started DEF DInv, Declares, Unstarted
  <2>6. LockKept'
    <3> SUFFICES ASSUME NEW c \in Tools PROVE Secured(c)'
      BY DEF LockKept, Secured
    <3>1. c \in Calls /\ HostOf[c] \in Hosts
      BY CallsAssumption, CodexAssumption
    <3>2. Same(rec[HostOf[c]], rec'[HostOf[c]])
      BY <2>3, <3>1 DEF Same
    <3> QED BY <2>2, <3>2 DEF DInv, LockKept, Secured, Same, Owns, Holds
  <2> QED BY <1>6, <2>2, <2>3, <2>4, <2>4a, <2>5, <2>6, HostKeeps DEF HostMoves
<1>7. Present \subseteq Hosts
  BY CallsAssumption, PartiesAssumption DEF Present, DInv, TypeOK
<1> QED BY <1>1, <1>2, <1>3, <1>4, <1>5, <1>6, <1>7 DEF ServerNext

-----------------------------------------------------------------------------
(* Codex: the tool *)

\* The tool starts: it takes the lock and claims, or asks what is pending.
LEMMA TakeKeeps ==
  ASSUME DInv, TypeOK', NEW c \in Tools, TakePendingResume(c)
  PROVE  DInv'
<1> DEFINE h == HostOf[c]
<1>0. /\ c \in Calls /\ h \in Hosts /\ h \in CodexHosts /\ rec[h] \in Rec /\ TypeOK
  BY CallsAssumption, CodexAssumption DEF DInv, TypeOK, CallsTypeOK, CodexHosts
<1>1. /\ resume' = resume /\ UNCHANGED <<rows, scope, outbox, network, given, cut>>
      /\ lock' = [lock EXCEPT ![h] = c] /\ call[c].pc = "idle"
      /\ CanAcquire(h) \/ CanSteal(h)
  BY DEF TakePendingResume, Acquire, Acquires, server
<1>2. /\ \A g \in Hosts \ {h} : rec'[g] = rec[g]
      /\ \A d \in Calls \ {c} : call'[d] = call[d]
      /\ RecordMoves(h) /\ CallMoves(h, c)
      /\ call'[c].pc \in {"send", "pull"}
      /\ call'[c].pc = "send" => rec'[h].returned = "no"
      /\ rec[h].status # "none" \/ Bound
      /\ ~Hands(rec[h], rec'[h])
  <2>1. CASE ClaimMcpResumeDelivery(c, rec[h])
    <3>1. Same(rec[h], rec[h])
      BY DEF Same
    <3>2. rec[h].status # "none"
      BY <2>1 DEF ClaimMcpResumeDelivery, HeldNow, ClaimableNow
    <3> QED BY <1>0, <1>1, <2>1, <3>1, <3>2, ClaimMoves
  <2>2. CASE CallIs(c, Waiting("pull")) /\ UNCHANGED rec /\ Bound
    <3>1. /\ call'[c].pc = "pull" /\ call'[c].answer = "none"
          /\ \A d \in Calls \ {c} : call'[d] = call[d]
      BY <1>0, <2>2, CallFields, Places
    <3>2. CallMoves(h, c)
      BY <3>1 DEF CallMoves, Asked
    <3>3. RecordMoves(h) /\ ~Hands(rec[h], rec'[h])
      BY <1>1, <2>2 DEF RecordMoves, Same, Hands
    <3> QED BY <2>2, <3>1, <3>2, <3>3
  <2> QED BY <2>1, <2>2 DEF TakePendingResume
<1>3. lock'[h] = c /\ \A g \in CodexHosts \ {h} : lock'[g] = lock[g]
  BY <1>0, <1>1, Places
<1>4. LockKept'
  <2>1. ASSUME NEW d \in Tools, HostOf[d] = h PROVE Secured(d)'
    <3>1. CASE d = c
      BY <1>2, <1>3, <3>1 DEF Secured, Owns, Asked
    <3>2. CASE d # c
      <4>1. d \in Calls /\ call'[d] = call[d] /\ ~Owns(d)'
        BY <1>2, <1>3, <2>1, <3>2, CodexAssumption DEF Owns
      <4>2. call[d].pc # "mark"
        <5> SUFFICES ASSUME call[d].pc = "mark" PROVE FALSE
          OBVIOUS
        <5>1. lock[h] = d
          BY <2>1 DEF DInv, LockKept, Owns
        <5> QED BY <1>1, <4>1, <5>1, CodexAssumption DEF CanAcquire, CanSteal, Waits
      <4> QED BY <1>2, <2>1, <4>1, <4>2, Bystander
    <3> QED BY <3>1, <3>2
  <2> QED BY <1>0, <1>2, <1>3, <2>1, LockHere
<1>5. resume.status # "none" /\ Declares' /\ ScopeMoves(h)
  BY <1>0, <1>1, <1>2, Started DEF DInv, Declares, ScopeMoves
<1>6. ReturnMoves(h)
  BY <1>0, <1>1, <1>2, ToolReturns
<1> QED BY <1>0, <1>1, <1>2, <1>4, <1>5, <1>6, Acted

\* The lock is let go of only by the call that holds it.
LEMMA ReleaseKeeps ==
  ASSUME DInv, NEW c \in Tools, NEW d \in Tools, HostOf[d] = HostOf[c], d # c, Release(c)
  PROVE  /\ Owns(d)' <=> Owns(d)
         /\ ~Owns(c)'
         /\ \A g \in CodexHosts \ {HostOf[c]} : lock'[g] = lock[g]
<1>1. HostOf[c] \in CodexHosts /\ c \in Calls /\ d \in Calls
  BY CodexAssumption DEF CodexHosts
<1>2. lock \in [CodexHosts -> Calls \cup {"free", "dead"}]
  BY DEF DInv, TypeOK, CodexTypeOK
<1>3. \/ lock[HostOf[c]] = c /\ lock' = [lock EXCEPT ![HostOf[c]] = "free"]
      \/ lock[HostOf[c]] # c /\ lock' = lock
  BY DEF Release, Owns
<1> QED BY <1>1, <1>2, <1>3, CodexAssumption DEF Owns

\* A tool acts with the lock, lets go of it or does without.
LEMMA ToolActs ==
  ASSUME DInv, NEW c \in Tools,
         \A g \in Hosts \ {HostOf[c]} : rec'[g] = rec[g],
         \A d \in Calls \ {c} : call'[d] = call[d],
         RecordMoves(HostOf[c]),
         Hands(rec[HostOf[c]], rec'[HostOf[c]]) => Owns(c),
         lock' = lock \/ Release(c),
         Secured(c)'
  PROVE  LockKept'
<1> DEFINE h == HostOf[c]
<1>0. c \in Calls /\ h \in CodexHosts
  BY CodexAssumption DEF CodexHosts
<1>1. \A g \in CodexHosts \ {h} : lock'[g] = lock[g]
  <2>1. Release(c) => \A g \in CodexHosts \ {h} : lock'[g] = lock[g]
    BY <1>0 DEF Release, DInv, TypeOK, CodexTypeOK
  <2> QED BY <2>1
<1>2. ASSUME NEW d \in Tools, HostOf[d] = h PROVE Secured(d)'
  <2>1. CASE d = c
    BY <2>1
  <2>2. CASE d # c
    <3>1. d \in Calls /\ call'[d] = call[d]
      BY <2>2, CodexAssumption
    <3>2. Owns(d)' <=> Owns(d)
      BY <1>2, <2>2, ReleaseKeeps DEF Owns
    <3>3. Owns(c) => ~Owns(d)
      BY <1>2, <2>2 DEF Owns
    <3>4. call[d].pc = "mark" => Owns(d)
      BY DEF DInv, LockKept
    <3>5. RecordMoves(HostOf[d]) /\ (Hands(rec[HostOf[d]], rec'[HostOf[d]]) => ~Owns(d)')
      BY <1>2, <3>2, <3>3
    <3> QED BY <3>1, <3>2, <3>4, <3>5, Bystander
  <2> QED BY <2>1, <2>2
<1> QED BY <1>0, <1>1, <1>2, LockHere

\* What was pending is queued and claimed.
LEMMA PendingPulledKeeps ==
  ASSUME DInv, TypeOK', NEW c \in Tools, PendingPulled(c)
  PROVE  DInv'
<1> DEFINE h == HostOf[c]
           staged == IF rec[h].status = "none" THEN NewRec(h, "console", "receipt", "yes")
                     ELSE IF rec[h].status = "pending" THEN [rec[h] EXCEPT !.fresh = "yes"]
                     ELSE rec[h]
           offered == call[c].answer = "packet" /\ Owns(c)
<1>0. /\ c \in Calls /\ h \in Hosts /\ h \in CodexHosts /\ rec[h] \in Rec /\ TypeOK
  BY CallsAssumption, CodexAssumption DEF DInv, TypeOK, CallsTypeOK, CodexHosts
<1>1. /\ resume' = resume /\ UNCHANGED <<rows, outbox, network, given, cut>>
      /\ call[c].pc = "pulled"
      /\ \/ scope' = [scope EXCEPT ![h] = "pending"]
         \/ scope' = scope
      /\ \/ offered /\ ClaimMcpResumeDelivery(c, staged) /\ lock' = lock
         \/ /\ CallIs(c, Idle) /\ Release(c)
            /\ RecIs(h, IF offered THEN staged ELSE rec[h])
  BY DEF PendingPulled, server
<1>2. staged \in Rec
  BY <1>0, RecShapes, NewShapes DEF Kinds
<1>3. Same(rec[h], staged) \/ (Renews(h, rec[h], staged) /\ staged.status = "pending")
  <2>1. CASE rec[h].status = "none"
    BY <1>0, <2>1, NewFields DEF Renews
  <2>2. CASE rec[h].status = "pending"
    <3>1. Same(rec[h], [rec[h] EXCEPT !.fresh = "yes"])
      BY <1>0, Fields
    <3> QED BY <2>2, <3>1
  <2>3. CASE rec[h].status \notin {"none", "pending"}
    BY <2>3 DEF Same
  <2> QED BY <2>1, <2>2, <2>3
<1> HIDE DEF staged, offered
<1>4. /\ \A g \in Hosts \ {h} : rec'[g] = rec[g]
      /\ \A d \in Calls \ {c} : call'[d] = call[d]
      /\ RecordMoves(h) /\ CallMoves(h, c) /\ ~Hands(rec[h], rec'[h])
      /\ \/ call'[c].pc = "send" /\ rec'[h].returned = "no"
         \/ call'[c].pc = "idle"
      /\ lock' = lock \/ Release(c)
  <2>1. CASE ClaimMcpResumeDelivery(c, staged) /\ lock' = lock
    BY <1>0, <1>1, <1>2, <1>3, <2>1, ClaimMoves
  <2>2. CASE CallIs(c, Idle) /\ Release(c) /\ RecIs(h, IF offered THEN staged ELSE rec[h])
    <3>1. /\ call'[c] = Idle /\ \A d \in Calls \ {c} : call'[d] = call[d]
          /\ rec'[h] = staged \/ rec'[h] = rec[h]
          /\ \A g \in Hosts \ {h} : rec'[g] = rec[g]
      BY <1>0, <2>2, Places
    <3>2. Same(rec[h], rec'[h]) \/ Renews(h, rec[h], rec'[h])
      BY <1>3, <3>1 DEF Same
    <3>3. RecordMoves(h) /\ ~Hands(rec[h], rec'[h])
      BY <1>1, <3>2 DEF RecordMoves, Same, Renews, Hands
    <3>4. CallMoves(h, c)
      BY <3>1, CallFields DEF CallMoves
    <3> QED BY <2>2, <3>1, <3>3, <3>4, CallFields
  <2> QED BY <1>1, <2>1, <2>2
<1>5. Secured(c)'
  BY <1>4 DEF Secured, Asked
<1>6. LockKept'
  BY <1>4, <1>5, ToolActs
<1>7. resume.status # "none" /\ Declares'
  BY <1>0, <1>1, Started DEF DInv, Declares
<1>8. ScopeMoves(h) /\ \A g \in Hosts \ {h} : scope'[g] = scope[g]
  BY <1>0, <1>1, Places DEF ScopeMoves
<1>9. ReturnMoves(h)
  BY <1>0, <1>1, <1>4, ToolReturns
<1> QED BY <1>0, <1>1, <1>4, <1>6, <1>7, <1>8, <1>9, Acted

\* The answer to its declaration has come, or has not.
LEMMA TakeAnsweredKeeps ==
  ASSUME DInv, TypeOK', NEW c \in Tools, TakeAnswered(c)
  PROVE  DInv'
<1> DEFINE h == HostOf[c]
<1>0. /\ c \in Calls /\ h \in Hosts /\ h \in CodexHosts /\ rec[h] \in Rec /\ TypeOK
      /\ call[c] \in Call
  BY CallsAssumption, CodexAssumption DEF DInv, TypeOK, CallsTypeOK, CodexHosts
<1>1. /\ resume' = resume /\ UNCHANGED <<rows, outbox, network, given, cut>>
      /\ call[c].pc = "answered"
      /\ \/ /\ call[c].answer = "accepted" /\ Owns(c)
            /\ scope' = [scope EXCEPT ![h] = "active"]
            /\ CallIs(c, [call[c] EXCEPT !.pc = "mark"])
            /\ UNCHANGED <<rec, lock>>
         \/ /\ rec[h].status = "in_flight"
            /\ RecIs(h, [rec[h] EXCEPT !.status = "cancelled"])
            /\ scope' = [scope EXCEPT ![h] = "cancelled"] \/ scope' = scope
            /\ CallIs(c, Idle) /\ Release(c)
         \/ CallIs(c, Idle) /\ Release(c) /\ UNCHANGED <<rec, scope>>
  BY DEF TakeAnswered, Deliverable, Stale, Holds, CancelStale, serverVars, server
<1>2. Secured(c)
  BY DEF DInv, LockKept, Secured
<1>3. resume.status # "none" /\ Declares'
  BY <1>0, <1>1, Started DEF DInv, Declares
<1>4. CASE /\ call[c].answer = "accepted" /\ Owns(c)
           /\ scope' = [scope EXCEPT ![h] = "active"]
           /\ CallIs(c, [call[c] EXCEPT !.pc = "mark"])
           /\ UNCHANGED <<rec, lock>>
  <2>1. /\ call'[c].pc = "mark" /\ call'[c].n = call[c].n /\ call'[c].answer = "accepted"
        /\ \A d \in Calls \ {c} : call'[d] = call[d]
        /\ \A g \in Hosts \ {h} : scope'[g] = scope[g]
    <3>1. /\ [call[c] EXCEPT !.pc = "mark"].pc = "mark"
          /\ [call[c] EXCEPT !.pc = "mark"].n = call[c].n
          /\ [call[c] EXCEPT !.pc = "mark"].answer = call[c].answer
      BY <1>0 DEF Call
    <3>2. /\ call'[c] = [call[c] EXCEPT !.pc = "mark"]
          /\ \A d \in Calls \ {c} : call'[d] = call[d]
          /\ \A g \in Hosts \ {h} : scope'[g] = scope[g]
      BY <1>0, <1>4, Places
    <3> QED BY <1>4, <3>1, <3>2
  <2>2. CallMoves(h, c) /\ RecordMoves(h) /\ ~Hands(rec[h], rec'[h])
    BY <1>1, <1>4, <2>1 DEF CallMoves, RecordMoves, Same, Hands, Asked
  <2>3. Has("receipt", <<h, call[c].n>>, "initial") /\ call[c].n \in 1..MaxTries
    BY <1>0, <1>4 DEF DInv, CallsAccepted, KindOf, Call
  <2>4. ScopeMoves(h)
    BY <1>0, <2>3 DEF ScopeMoves, Kinds
  <2>5. Secured(c)'
    BY <1>1, <1>2, <1>4, <2>1 DEF Secured, Owns, Holds, Asked
  <2>6. LockKept'
    BY <1>4, <2>1, <2>2, <2>5, ToolActs
  <2>7. ReturnMoves(h)
    BY <1>0, <1>1, <2>1, ToolReturns
  <2> QED BY <1>0, <1>1, <1>3, <1>4, <2>1, <2>2, <2>4, <2>6, <2>7, Acted
<1>5. CASE /\ CallIs(c, Idle) /\ Release(c)
           /\ \/ /\ rec[h].status = "in_flight"
                 /\ RecIs(h, [rec[h] EXCEPT !.status = "cancelled"])
                 /\ scope' = [scope EXCEPT ![h] = "cancelled"] \/ scope' = scope
              \/ UNCHANGED <<rec, scope>>
  <2>1. call'[c] = Idle /\ \A d \in Calls \ {c} : call'[d] = call[d]
    BY <1>0, <1>5, Places
  <2>2. /\ \A g \in Hosts \ {h} : scope'[g] = scope[g]
        /\ scope'[h] = scope[h] \/ scope'[h] = "cancelled"
        /\ \A g \in Hosts \ {h} : rec'[g] = rec[g]
        /\ \/ rec'[h] = rec[h]
           \/ /\ rec[h].status = "in_flight"
              /\ rec'[h] = [rec[h] EXCEPT !.status = "cancelled"]
    BY <1>0, <1>5, Places
  <2>3. Same(rec[h], rec'[h]) \/ (Ends(rec[h], rec'[h], "cancelled") /\ rec[h].status # "none")
    <3>1. Ends(rec[h], [rec[h] EXCEPT !.status = "cancelled"], "cancelled")
      BY <1>0, Fields
    <3> QED BY <2>2, <3>1 DEF Same
  <2>4. RecordMoves(h) /\ ~Hands(rec[h], rec'[h])
    BY <1>1, <2>3 DEF RecordMoves, Same, Ends, Hands
  <2>5. CallMoves(h, c) /\ Secured(c)'
    BY <2>1, CallFields DEF CallMoves, Secured, Asked
  <2>6. LockKept'
    BY <1>5, <2>1, <2>2, <2>4, <2>5, ToolActs
  <2>7. ScopeMoves(h)
    BY <2>2 DEF ScopeMoves
  <2>8. ReturnMoves(h)
    BY <1>0, <1>1, <2>1, CallFields, ToolReturns
  <2> QED BY <1>0, <1>1, <1>3, <2>1, <2>2, <2>4, <2>5, <2>6, <2>7, <2>8, Acted
<1> QED BY <1>1, <1>4, <1>5

\* The tool marks the record, if it still may, and has a result to send.
LEMMA MarkReturnedKeeps ==
  ASSUME DInv, TypeOK', NEW c \in Tools, MarkReturned(c)
  PROVE  DInv'
<1> DEFINE h == HostOf[c]
<1>0. /\ c \in Calls /\ h \in Hosts /\ h \in CodexHosts /\ rec[h] \in Rec /\ TypeOK
      /\ call[c] \in Call
  BY CallsAssumption, CodexAssumption DEF DInv, TypeOK, CallsTypeOK, CodexHosts
<1>1. /\ resume' = resume /\ UNCHANGED <<rows, scope, outbox, network, given, cut>>
      /\ call[c].pc = "mark" /\ Release(c)
      /\ \/ /\ Holds(c) /\ RecIs(h, [rec[h] EXCEPT !.returned = "yes"])
            /\ CallIs(c, [call[c] EXCEPT !.pc = "return"])
         \/ CallIs(c, Idle) /\ rec' = rec
  BY DEF MarkReturned, serverVars, server
<1>2. Owns(c) /\ (Holds(c) => rec[h].returned = "no") /\ call[c].answer = "accepted"
  BY <1>0, <1>1 DEF DInv, LockKept, CallsAccepted, Asked
<1>3. \A d \in Calls \ {c} : call'[d] = call[d]
  BY <1>0, <1>1, Places
<1>4. resume.status # "none" /\ Declares'
  BY <1>0, <1>1, Started DEF DInv, Declares
<1>5. /\ CallMoves(h, c) /\ Secured(c)' /\ RecordMoves(h) /\ ReturnMoves(h)
      /\ \A g \in Hosts \ {h} : rec'[g] = rec[g]
  <2>1. CASE /\ Holds(c) /\ RecIs(h, [rec[h] EXCEPT !.returned = "yes"])
             /\ CallIs(c, [call[c] EXCEPT !.pc = "return"])
    <3>1. rec[h].status = "in_flight" /\ rec[h].n = call[c].n /\ rec[h].returned = "no"
      BY <1>2, <2>1 DEF Holds
    <3>2. rec[h].kind = "receipt"
      BY <1>0, <1>1, <3>1 DEF DInv, CallsClaimed, Asked, KindOf
    <3>3. /\ [call[c] EXCEPT !.pc = "return"].pc = "return"
          /\ [call[c] EXCEPT !.pc = "return"].n = call[c].n
          /\ [call[c] EXCEPT !.pc = "return"].answer = call[c].answer
      BY <1>0 DEF Call
    <3>4. /\ rec'[h] = [rec[h] EXCEPT !.returned = "yes"]
          /\ call'[c] = [call[c] EXCEPT !.pc = "return"]
          /\ \A g \in Hosts \ {h} : rec'[g] = rec[g]
      BY <1>0, <2>1, Places
    <3>5. call'[c].pc = "return" /\ call'[c].n = rec[h].n /\ call'[c].answer = "accepted"
      BY <1>2, <3>1, <3>3, <3>4
    <3>6. Hands(rec[h], rec'[h])
      <4>1. Hands(rec[h], [rec[h] EXCEPT !.returned = "yes"])
        BY <1>0, <3>1, Fields
      <4> QED BY <3>4, <4>1
    <3>7. RecordMoves(h)
      BY <1>1, <3>2, <3>5, <3>6 DEF RecordMoves
    <3>8. ReturnMoves(h)
      BY <1>1, <1>3, <3>2, <3>5, <3>6, CodexAssumption DEF ReturnMoves
    <3>9. CallMoves(h, c) /\ Secured(c)'
      BY <1>1, <1>2, <3>1, <3>5 DEF CallMoves, Secured, Asked
    <3> QED BY <3>4, <3>7, <3>8, <3>9
  <2>2. CASE CallIs(c, Idle) /\ rec' = rec
    <3>1. call'[c] = Idle
      BY <1>0, <2>2, Places
    <3>2. CallMoves(h, c) /\ Secured(c)'
      BY <3>1, CallFields DEF CallMoves, Secured, Asked
    <3>3. ReturnMoves(h)
      BY <1>0, <1>1, <1>3, <3>1, CallFields, ToolReturns
    <3>4. RecordMoves(h)
      BY <1>1, <2>2 DEF RecordMoves, Same
    <3> QED BY <2>2, <3>2, <3>3, <3>4
  <2> QED BY <1>1, <2>1, <2>2
<1>6. LockKept'
  BY <1>1, <1>2, <1>3, <1>5, ToolActs
<1>7. ScopeMoves(h)
  BY <1>1 DEF ScopeMoves
<1> QED BY <1>0, <1>1, <1>3, <1>4, <1>5, <1>6, <1>7, Acted

\* The model gets the result: nobody has handed that attempt over before.
LEMMA HandOverKeeps ==
  ASSUME DInv, TypeOK', NEW c \in Tools, HandOver(c)
  PROVE  DInv'
<1> DEFINE h == HostOf[c]
           n == call[c].n
<1>0. /\ c \in Calls /\ h \in Hosts /\ n \in 1..MaxTries /\ <<h, n>> \in Attempts
      /\ TypeOK /\ KindOf(c) = "receipt" /\ "receipt" \in Kinds
      /\ given \in [Kinds -> [Attempts -> 0..2]]
  BY CallsAssumption, CodexAssumption
     DEF DInv, TypeOK, CallsTypeOK, Call, Attempts, KindOf, Kinds
<1>1. /\ UNCHANGED <<resume, rows, rec, scope, outbox, network, lock, cut>>
      /\ call[c].pc = "return" /\ Give("receipt", <<h, n>>) /\ CallIs(c, Idle)
  BY DEF HandOver, serverVars, server, codexVars
<1>2. /\ call'[c].pc = "idle" /\ call'[c].answer = "none"
      /\ \A d \in Calls \ {c} : call'[d] = call[d]
  BY <1>0, <1>1, Places, CallFields
<1>3. /\ Has("receipt", <<h, n>>, "initial") /\ given["receipt"][<<h, n>>] = 0
      /\ n < rec[h].n \/ (n = rec[h].n /\ rec[h].returned = "yes")
      /\ \A d \in Tools :
           call[d].pc = "return" /\ HostOf[d] = h /\ call[d].n = n => d = c
  BY <1>0, <1>1 DEF DInv, Returning, CallsAccepted
<1>4. /\ given'["receipt"][<<h, n>>] = 1
      /\ \A kind \in Kinds, id \in Attempts :
           kind # "receipt" \/ id # <<h, n>> => given'[kind][id] = given[kind][id]
  BY <1>0, <1>1, <1>3 DEF Give
<1>5. \A kind, id, phase : Has(kind, id, phase)' = Has(kind, id, phase)
  BY <1>1 DEF Has
<1> HIDE DEF h, n
<1>6. ASSUME NEW kind \in Kinds, NEW id \in Attempts, GivenOrCut(kind, id)
      PROVE  GivenOrCut(kind, id)'
  <2>1. CASE kind = "receipt" /\ id = <<h, n>>
    BY <1>4, <2>1 DEF GivenOrCut
  <2>2. CASE (kind # "receipt" \/ id # <<h, n>>) /\ (given[kind][id] > 0 \/ id \in cut)
    BY <1>1, <1>4, <1>6, <2>2 DEF GivenOrCut, OnItsWay
  <2>3. CASE id # <<h, n>> /\ kind = "receipt" /\ OnItsWay(id)
    <3>1. PICK d \in Tools : call[d].pc = "return" /\ <<HostOf[d], call[d].n>> = id
      BY <2>3 DEF OnItsWay
    <3>2. d # c /\ d \in Calls
      BY <2>3, <3>1, CodexAssumption DEF h, n
    <3> QED BY <1>2, <2>3, <3>1, <3>2 DEF GivenOrCut, OnItsWay
  <2> QED BY <1>6, <2>1, <2>2, <2>3 DEF GivenOrCut
<1>7. OneInFlight' /\ CompletedOnce' /\ Declares' /\ EndsPast' /\ EndsOnce'
  BY <1>1, <1>5 DEF DInv, OneInFlight, CompletedOnce, InFlight, Completed, Declares,
                    EndsPast, EndsOnce, Past
<1>8. RecordsTrue'
  <2> SUFFICES ASSUME NEW g \in Hosts
               PROVE  /\ rec[g].status = "none" => rec[g].n = 1
                      /\ rec[g].status \in {"none", "pending"} => rec[g].returned = "no"
                      /\ \A kind \in Kinds, id \in Attempts :
                           rec[g].returned = "yes" /\ rec[g].kind = kind /\ <<g, rec[g].n>> = id
                           => GivenOrCut(kind, id)'
                      /\ g \notin CodexHosts => rec[g].kind = "injection"
    <3>1. \A g \in Hosts : rec[g].kind \in Kinds /\ <<g, rec[g].n>> \in Attempts
      BY DEF DInv, TypeOK, CallsTypeOK, Rec, Attempts
    <3> QED BY <1>1, <3>1 DEF RecordsTrue, GivenOrCut, OnItsWay
  <2> QED BY <1>6 DEF DInv, RecordsTrue
<1>9. CallsClaimed' /\ CallsAccepted'
  <2>1. /\ CallsClaimed /\ CallsAccepted
        /\ \A d \in Calls : call'[d] = call[d] \/ (call'[d].pc = "idle" /\ call'[d].answer = "none")
    BY <1>2 DEF DInv
  <2>2. CallsClaimed'
    BY <1>1, <2>1 DEF CallsClaimed, Asked, KindOf
  <2>3. CallsAccepted'
    BY <1>5, <2>1 DEF CallsAccepted, KindOf
  <2> QED BY <2>2, <2>3
<1>10. LockKept'
  BY <1>1, <1>2, CodexAssumption DEF DInv, LockKept, Asked, Owns, Holds
<1>11. GivenMarked'
  <2> SUFFICES ASSUME NEW kind \in Kinds, NEW g \in Hosts, NEW i \in 1..MaxTries,
                      given'[kind][<<g, i>>] > 0
               PROVE  Has(kind, <<g, i>>, "initial") /\ Marked(kind, g, i)'
    BY <1>5 DEF GivenMarked
  <2>1. CASE kind = "receipt" /\ <<g, i>> = <<h, n>>
    BY <1>1, <1>3, <1>4, <2>1 DEF Marked
  <2>2. CASE kind # "receipt" \/ <<g, i>> # <<h, n>>
    <3>1. given'[kind][<<g, i>>] = given[kind][<<g, i>>]
      BY <1>4, <2>2 DEF Attempts
    <3> QED BY <1>1, <3>1 DEF DInv, GivenMarked, Marked
  <2> QED BY <2>1, <2>2
<1>12. Returning'
  <2>1. ASSUME NEW d \in Tools, call'[d].pc = "return"
        PROVE  /\ call[d].pc = "return" /\ call'[d] = call[d]
               /\ given'["receipt"][<<HostOf[d], call[d].n>>]
                    = given["receipt"][<<HostOf[d], call[d].n>>]
    <3>1. d # c /\ d \in Calls /\ call'[d] = call[d]
      BY <1>2, <2>1, CodexAssumption
    <3>2. <<HostOf[d], call[d].n>> # <<h, n>>
      BY <1>3, <2>1, <3>1
    <3>3. <<HostOf[d], call[d].n>> \in Attempts
      BY <3>1, CallsAssumption DEF DInv, TypeOK, CallsTypeOK, Call, Attempts
    <3> QED BY <1>0, <1>4, <2>1, <3>1, <3>2, <3>3
  <2>2. /\ \A id \in cut : Has("receipt", id, "initial")
        /\ \A d \in Tools : call'[d].pc = "return" =>
             /\ call[d].answer = "accepted"
             /\ given["receipt"][<<HostOf[d], call[d].n>>] = 0
             /\ \/ call[d].n < rec[HostOf[d]].n
                \/ call[d].n = rec[HostOf[d]].n /\ rec[HostOf[d]].returned = "yes"
             /\ \A o \in Tools :
                  call'[o].pc = "return" /\ HostOf[o] = HostOf[d] /\ call[o].n = call[d].n => o = d
    BY <2>1 DEF DInv, Returning
  <2>3. ASSUME NEW d \in Tools, call'[d].pc = "return"
        PROVE  /\ call'[d].answer = "accepted"
               /\ given'["receipt"][<<HostOf[d], call'[d].n>>] = 0
               /\ \/ call'[d].n < rec'[HostOf[d]].n
                  \/ call'[d].n = rec'[HostOf[d]].n /\ rec'[HostOf[d]].returned = "yes"
               /\ \A o \in Tools :
                    call'[o].pc = "return" /\ HostOf[o] = HostOf[d] /\ call'[o].n = call'[d].n
                    => o = d
    <3>1. call'[d] = call[d] /\ rec' = rec
      BY <1>1, <2>1, <2>3
    <3>2. \A o \in Tools : call'[o].pc = "return" => call'[o] = call[o]
      BY <2>1
    <3> QED BY <2>1, <2>2, <2>3, <3>1, <3>2
  <2>4. \A id \in cut' : Has("receipt", id, "initial")'
    BY <1>1, <1>5, <2>2
  <2> QED BY <2>3, <2>4 DEF Returning
<1>13. Unstarted' /\ BoundRecords' /\ ScopeBacked'
  BY <1>0, <1>1, Started DEF DInv, Unstarted, BoundRecords, ScopeBacked, Bound
<1>14. AcknowledgedGiven'
  <2> SUFFICES ASSUME Bound, NEW m \in rows \cup outbox, m.phase = "acknowledged"
               PROVE  GivenOrCut(m.kind, m.id)'
    BY <1>1 DEF AcknowledgedGiven, Bound, GivenOrCut, OnItsWay
  <2>1. m.kind \in Kinds /\ m.id \in Attempts
    BY DEF DInv, TypeOK, ServerTypeOK, CallsTypeOK, Message, Row
  <2>2. GivenOrCut(m.kind, m.id)
    BY DEF DInv, AcknowledgedGiven
  <2> DEFINE kind == m.kind
             id == m.id
  <2> HIDE DEF kind, id
  <2>3. GivenOrCut(kind, id)'
    BY <1>6, <2>1, <2>2 DEF kind, id
  <2> QED BY <2>3 DEF kind, id
<1> QED BY <1>7, <1>8, <1>9, <1>10, <1>11, <1>12, <1>13, <1>14 DEF DInv

\* A process is killed.
LEMMA KillKeeps ==
  ASSUME DInv, TypeOK', NEW c \in Tools \cup Hooks, Kill(c, KindOf(c))
  PROVE  DInv'
<1> DEFINE h == HostOf[c]
<1>0. /\ c \in Calls /\ h \in Hosts /\ h \in CodexHosts /\ rec[h] \in Rec /\ TypeOK
  BY CallsAssumption, CodexAssumption DEF DInv, TypeOK, CallsTypeOK, CodexHosts
<1>1. /\ resume' = resume /\ UNCHANGED <<rows, rec, scope, outbox, given>>
      /\ call[c].pc # "idle" /\ KillAll({c}, KindOf(c))
      /\ \/ Owns(c) /\ lock' = [lock EXCEPT ![h] = "dead"]
         \/ ~Owns(c) /\ lock' = lock
      /\ \/ /\ c \in Tools /\ call[c].pc = "return"
            /\ cut' = cut \cup {<<h, call[c].n>>}
         \/ (c \notin Tools \/ call[c].pc # "return") /\ cut' = cut
  BY DEF Kill, KindOf, serverVars, server
<1>2. call'[c] = Idle /\ \A d \in Calls \ {c} : call'[d] = call[d]
  BY <1>0, <1>1 DEF KillAll
<1>3. Declares'
  BY <1>1 DEF KillAll, DInv, Declares, Declaration
<1>4. CallMoves(h, c) /\ RecordMoves(h) /\ ScopeMoves(h)
  BY <1>1, <1>2, CallFields DEF CallMoves, RecordMoves, ScopeMoves, Same
<1>5. /\ \A g \in CodexHosts \ {h} : lock'[g] = lock[g]
      /\ \A d \in Calls \ {c} : lock'[h] = d <=> lock[h] = d
  BY <1>0, <1>1, CodexAssumption DEF Owns, DInv, TypeOK, CodexTypeOK
<1>6. LockKept'
  <2>1. ASSUME NEW d \in Tools, HostOf[d] = h PROVE Secured(d)'
    <3>1. CASE d = c
      BY <1>2, <3>1, CallFields DEF Secured, Asked
    <3>2. CASE d # c
      <4>1. d \in Calls /\ call'[d] = call[d] /\ (lock'[h] = d <=> lock[h] = d)
        BY <1>2, <1>5, <3>2, CodexAssumption
      <4>2. rec' = rec
        BY <1>1
      <4> QED BY <2>1, <4>1, <4>2 DEF DInv, LockKept, Secured, Owns, Holds
    <3> QED BY <3>1, <3>2
  <2> QED BY <1>0, <1>1, <1>2, <1>5, <2>1, LockHere
<1>7. resume.status # "none"
  BY <1>0, <1>1, Started
<1>8. ReturnMoves(h)
  <2>1. call'[c].pc # "return"
    BY <1>2, CallFields
  <2>2. CASE c \in Tools /\ call[c].pc = "return" /\ cut' = cut \cup {<<h, call[c].n>>}
    BY <1>2, <2>1, <2>2, CodexAssumption DEF ReturnMoves
  <2>3. CASE (c \notin Tools \/ call[c].pc # "return") /\ cut' = cut
    BY <1>0, <1>2, <2>1, <2>3, ToolReturns, OthersReturn
  <2> QED BY <1>1, <2>2, <2>3
<1> QED BY <1>0, <1>1, <1>2, <1>3, <1>4, <1>6, <1>7, <1>8, Acted

-----------------------------------------------------------------------------
(* Codex: the hooks and the confirmation *)

\* A hook hands nothing over that a tool has claimed, and takes the lock only
\* where no tool has it, or one that waits.
LEMMA HookActs ==
  ASSUME DInv, NEW h \in CodexHosts,
         \A g \in Hosts \ {h} : rec'[g] = rec[g],
         \A d \in Tools : call'[d] = call[d],
         \A d \in Calls : HostOf[d] # h => call'[d] = call[d],
         RecordMoves(h), ~Hands(rec[h], rec'[h]),
         lock' = lock \/ UnderLock(h)
  PROVE  LockKept'
<1>1. /\ \A g \in CodexHosts \ {h} : lock'[g] = lock[g]
      /\ \A d \in Calls : lock'[h] = d => lock[h] = d
      /\ \A d \in Calls : lock[h] = d /\ call[d].pc = "mark" => lock'[h] = d
  <2>1. lock \in [CodexHosts -> Calls \cup {"free", "dead"}]
    BY DEF DInv, TypeOK, CodexTypeOK
  <2>2. CASE lock' = lock
    BY <2>2
  <2>3. CASE UnderLock(h)
    <3>1. /\ lock' = [lock EXCEPT ![h] = "free"]
          /\ \A d \in Calls : ~(lock[h] = d /\ call[d].pc = "mark")
      BY <2>3, CodexAssumption DEF UnderLock, Acquires, CanAcquire, CanSteal, Waits
    <3> QED BY <2>1, <3>1, CodexAssumption
  <2> QED BY <2>2, <2>3
<1>2. ASSUME NEW d \in Tools, HostOf[d] = h PROVE Secured(d)'
  <2>1. d \in Calls
    BY CodexAssumption
  <2>2. call[d].pc = "mark" => Owns(d)
    BY DEF DInv, LockKept
  <2>3. (Owns(d)' => Owns(d)) /\ (call[d].pc = "mark" => Owns(d)')
    BY <1>1, <1>2, <2>1, <2>2 DEF Owns
  <2> QED BY <1>2, <2>3, Bystander
<1> QED BY <1>1, <1>2, LockHere

\* A session starts, or is compacted.
LEMMA SessionStartKeeps ==
  ASSUME DInv, TypeOK', NEW k \in Hooks, NEW source, SessionStart(k, source)
  PROVE  DInv'
<1> DEFINE h == HostOf[k]
<1>0. /\ k \in Calls /\ h \in Hosts /\ h \in CodexHosts /\ rec[h] \in Rec /\ TypeOK
  BY CallsAssumption, CodexAssumption DEF DInv, TypeOK, CallsTypeOK, CodexHosts
<1>1. /\ resume' = resume /\ UNCHANGED <<rows, scope, call, network, given, cut>>
      /\ \/ /\ rec[h].status = "in_flight" /\ rec[h].returned = "yes"
            /\ RecIs(h, Finished(h)) /\ outbox' = outbox \cup {Event(h, "acknowledged")}
         \/ /\ rec[h].status = "in_flight"
            /\ RecIs(h, Retry(h)) /\ outbox' = outbox \cup {Event(h, "failed")}
         \/ UNCHANGED <<rec, outbox>>
      /\ lock' = lock \/ UnderLock(h)
  BY DEF SessionStart, IntentApplies, FinishDelivery, FailAttempt, WithoutLock, server
<1>2. RecordMoves(h) /\ ~Hands(rec[h], rec'[h]) /\ \A g \in Hosts \ {h} : rec'[g] = rec[g]
  <2>1. CASE /\ rec[h].status = "in_flight" /\ rec[h].returned = "yes"
             /\ RecIs(h, Finished(h)) /\ outbox' = outbox \cup {Event(h, "acknowledged")}
    <3>1. rec'[h] = Finished(h) /\ \A g \in Hosts \ {h} : rec'[g] = rec[g]
      BY <1>0, <2>1, Places
    <3>2. Ends(rec[h], rec'[h], "delivered")
      BY <1>0, <3>1, Fields DEF Finished
    <3> QED BY <1>1, <2>1, <3>1, <3>2 DEF RecordMoves, Ends, Hands
  <2>2. CASE /\ rec[h].status = "in_flight"
             /\ RecIs(h, Retry(h)) /\ outbox' = outbox \cup {Event(h, "failed")}
    <3>1. rec'[h] = Retry(h) /\ \A g \in Hosts \ {h} : rec'[g] = rec[g]
      BY <1>0, <2>2, Places
    <3>2. Retries(rec[h], rec'[h])
      BY <1>0, <2>2, <3>1, RetryFields
    <3> QED BY <1>1, <2>2, <3>1, <3>2 DEF RecordMoves, Retries, Hands
  <2>3. CASE UNCHANGED <<rec, outbox>>
    BY <1>1, <2>3 DEF RecordMoves, Same, Hands
  <2> QED BY <1>1, <2>1, <2>2, <2>3
<1>3. LockKept'
  BY <1>0, <1>1, <1>2, HookActs
<1>4. Declares' /\ ScopeMoves(h) /\ ReturnMoves(h) /\ \A c \in Calls : CallMoves(h, c)
  BY <1>1 DEF DInv, Declares, ScopeMoves, ReturnMoves, CallMoves
<1>5. Unstarted'
  <2>1. resume.status = "none" => UNCHANGED <<rec, outbox>>
    BY <1>0, <1>1, Started
  <2> QED BY <1>1, <2>1 DEF DInv, Unstarted, Bound
<1> QED BY <1>0, <1>1, <1>2, <1>3, <1>4, <1>5, HostKeeps DEF HostMoves

\* A prompt claims what is pending and declares it.
LEMMA PromptSubmitKeeps ==
  ASSUME DInv, TypeOK', NEW k \in Hooks, PromptSubmit(k)
  PROVE  DInv'
<1> DEFINE h == HostOf[k]
<1>0. /\ k \in Calls /\ h \in Hosts /\ h \in CodexHosts /\ rec[h] \in Rec /\ TypeOK
      /\ k \notin Tools
  BY CallsAssumption, CodexAssumption, PartiesAssumption
     DEF DInv, TypeOK, CallsTypeOK, CodexHosts
<1>1. /\ resume' = resume /\ UNCHANGED <<rows, scope, outbox, network, given, lock, cut>>
      /\ rec[h].kind = "injection"
      /\ \/ /\ rec[h].status = "pending"
            /\ RecIs(h, Claimed(rec[h])) /\ CallIs(k, Sending(Claimed(rec[h])))
         \/ rec[h].status = "in_flight" /\ CallIs(k, Sending(rec[h])) /\ rec' = rec
  BY DEF PromptSubmit, server, codexVars
<1>2. PICK x : /\ rec'[h] = x /\ call'[k] = Sending(x)
               /\ Same(rec[h], x) \/ Claims(h, rec[h], x)
               /\ x.status = "in_flight" /\ x.kind = "injection"
               /\ \A g \in Hosts \ {h} : rec'[g] = rec[g]
               /\ \A d \in Calls \ {k} : call'[d] = call[d]
  <2>1. CASE /\ rec[h].status = "pending"
             /\ RecIs(h, Claimed(rec[h])) /\ CallIs(k, Sending(Claimed(rec[h])))
    <3>1. /\ rec'[h] = Claimed(rec[h]) /\ call'[k] = Sending(Claimed(rec[h]))
          /\ \A g \in Hosts \ {h} : rec'[g] = rec[g]
          /\ \A d \in Calls \ {k} : call'[d] = call[d]
      BY <1>0, <2>1, Places
    <3>2. /\ Claims(h, rec[h], Claimed(rec[h])) /\ Claimed(rec[h]).status = "in_flight"
          /\ Claimed(rec[h]).kind = "injection"
      BY <1>0, <1>1, <2>1, Fields DEF Claims
    <3> QED BY <3>1, <3>2
  <2>2. CASE rec[h].status = "in_flight" /\ CallIs(k, Sending(rec[h])) /\ rec' = rec
    <3>1. call'[k] = Sending(rec[h]) /\ \A d \in Calls \ {k} : call'[d] = call[d]
      BY <1>0, <2>2, Places
    <3>2. Same(rec[h], rec[h])
      BY DEF Same
    <3> QED BY <1>1, <2>2, <3>1, <3>2
  <2> QED BY <1>1, <2>1, <2>2
<1>3. RecordMoves(h) /\ ~Hands(rec[h], rec'[h])
  <2>1. rec[h].status = "pending" => rec[h].returned = "no"
    BY <1>0 DEF DInv, RecordsTrue
  <2> QED BY <1>1, <1>2, <2>1 DEF RecordMoves, Same, Claims, Hands
<1>4. CallMoves(h, k)
  BY <1>0, <1>2, CallFields DEF CallMoves, KindOf
<1>5. LockKept'
  <2>1. \A d \in Tools : call'[d] = call[d]
    BY <1>0, <1>2, CodexAssumption
  <2>2. \A d \in Calls : HostOf[d] # h => call'[d] = call[d]
    BY <1>0, <1>2
  <2> QED BY <1>0, <1>1, <1>2, <1>3, <2>1, <2>2, HookActs
<1>6. resume.status # "none" /\ Declares' /\ ScopeMoves(h)
  BY <1>0, <1>1, Started DEF DInv, Declares, ScopeMoves
<1>7. ReturnMoves(h)
  BY <1>0, <1>1, <1>2, OthersReturn
<1> QED BY <1>0, <1>1, <1>2, <1>3, <1>4, <1>5, <1>6, <1>7, Acted

\* The prompt hands the context over, or gives the attempt back.
LEMMA PromptAnsweredKeeps ==
  ASSUME DInv, TypeOK', NEW k \in Hooks, PromptAnswered(k)
  PROVE  DInv'
<1> DEFINE h == HostOf[k]
<1>0. /\ k \in Calls /\ h \in Hosts /\ h \in CodexHosts /\ rec[h] \in Rec /\ TypeOK
      /\ k \notin Tools /\ call[k].n \in 1..MaxTries
  BY CallsAssumption, CodexAssumption, PartiesAssumption
     DEF DInv, TypeOK, CallsTypeOK, CodexHosts, Call
<1>1. /\ resume' = resume /\ UNCHANGED <<rows, network, lock, cut>>
      /\ call[k].pc = "answered" /\ CallIs(k, Idle)
      /\ \/ /\ call[k].answer = "accepted"
            /\ Give("injection", <<h, call[k].n>>)
            /\ scope' = [scope EXCEPT ![h] = "active"] \/ scope' = scope
            /\ UNCHANGED <<rec, outbox>>
         \/ /\ Holds(k) /\ rec' = [rec EXCEPT ![h] = Retry(h)]
            /\ outbox' = outbox \cup {Event(h, "failed")} /\ UNCHANGED <<scope, given>>
         \/ UNCHANGED <<rec, outbox, scope, given>>
  BY DEF PromptAnswered, server, codexVars
<1>2. call'[k] = Idle /\ \A d \in Calls \ {k} : call'[d] = call[d]
  BY <1>0, <1>1, Places
<1>3. /\ RecordMoves(h) /\ ~Hands(rec[h], rec'[h]) /\ ScopeMoves(h)
      /\ \A g \in Hosts \ {h} : rec'[g] = rec[g] /\ scope'[g] = scope[g]
  <2>1. CASE /\ call[k].answer = "accepted"
             /\ Give("injection", <<h, call[k].n>>)
             /\ scope' = [scope EXCEPT ![h] = "active"] \/ scope' = scope
             /\ UNCHANGED <<rec, outbox>>
    <3>1. Has("injection", <<h, call[k].n>>, "initial")
      BY <1>0, <2>1 DEF DInv, CallsAccepted, KindOf
    <3>2. RecordMoves(h) /\ ~Hands(rec[h], rec'[h])
      BY <1>0, <2>1, <3>1 DEF RecordMoves, Same, Hands
    <3>3. ScopeMoves(h)
      BY <1>0, <3>1 DEF ScopeMoves, Kinds
    <3> QED BY <1>0, <2>1, <3>2, <3>3, Places
  <2>2. CASE /\ Holds(k) /\ rec' = [rec EXCEPT ![h] = Retry(h)]
             /\ outbox' = outbox \cup {Event(h, "failed")} /\ UNCHANGED <<scope, given>>
    <3>1. rec'[h] = Retry(h) /\ \A g \in Hosts \ {h} : rec'[g] = rec[g]
      BY <1>0, <2>2, Places DEF RecIs
    <3>2. Retries(rec[h], rec'[h])
      BY <1>0, <2>2, <3>1, RetryFields DEF Holds
    <3> QED BY <2>2, <3>1, <3>2 DEF RecordMoves, Retries, Hands, ScopeMoves
  <2>3. CASE UNCHANGED <<rec, outbox, scope, given>>
    BY <2>3 DEF RecordMoves, Same, Hands, ScopeMoves
  <2> QED BY <1>1, <2>1, <2>2, <2>3
<1>4. CallMoves(h, k)
  BY <1>2, CallFields DEF CallMoves
<1>5. LockKept'
  <2>1. \A d \in Tools : call'[d] = call[d]
    BY <1>0, <1>2, CodexAssumption
  <2>2. \A d \in Calls : HostOf[d] # h => call'[d] = call[d]
    BY <1>0, <1>2
  <2> QED BY <1>0, <1>1, <1>2, <1>3, <2>1, <2>2, HookActs
<1>6. resume.status # "none" /\ Declares'
  BY <1>0, <1>1, Started DEF DInv, Declares
<1>7. ReturnMoves(h)
  BY <1>0, <1>1, <1>2, OthersReturn
<1> QED BY <1>0, <1>1, <1>2, <1>3, <1>4, <1>5, <1>6, <1>7, Acted

\* A turn ends: what was handed over is acknowledged, or what fails is given back.
LEMMA StopKeeps ==
  ASSUME DInv, TypeOK', NEW k \in Hooks, Stop(k) \/ StopEnds(k)
  PROVE  DInv'
<1> DEFINE h == HostOf[k]
<1>0. /\ k \in Calls /\ h \in Hosts /\ h \in CodexHosts /\ rec[h] \in Rec /\ TypeOK
      /\ k \notin Tools
  BY CallsAssumption, CodexAssumption, PartiesAssumption
     DEF DInv, TypeOK, CallsTypeOK, CodexHosts
<1>1. /\ resume' = resume /\ UNCHANGED <<rows, scope, network, given, cut>>
      /\ call[k].pc = "stop" \/ rec[h].status # "none"
      /\ CallIs(k, Waiting("stop")) \/ CallIs(k, Idle)
      /\ \/ /\ rec[h].status = "in_flight"
            /\ rec[h].returned = "yes" \/ rec[h].kind = "injection"
            /\ RecIs(h, Finished(h))
            /\ outbox' = outbox \cup {Event(h, "acknowledged")}
         \/ RecIs(h, [rec[h] EXCEPT !.armed = "yes"]) /\ UNCHANGED outbox
         \/ UNCHANGED <<rec, outbox>>
      /\ lock' = lock \/ UnderLock(h)
  <2>1. CASE Stop(k)
    BY <2>1 DEF Stop, serverVars, server
  <2>2. CASE StopEnds(k)
    BY <2>2 DEF StopEnds, IntentApplies, FinishDelivery, WithoutLock, server
  <2> QED BY <2>1, <2>2
<1>2. CallMoves(h, k) /\ \A d \in Calls \ {k} : call'[d] = call[d]
  <2>1. /\ call'[k] = Waiting("stop") \/ call'[k] = Idle
        /\ \A d \in Calls \ {k} : call'[d] = call[d]
    BY <1>0, <1>1, Places
  <2>2. call'[k].pc \in {"stop", "idle"} /\ call'[k].answer = "none"
    BY <2>1, CallFields
  <2> QED BY <2>1, <2>2 DEF CallMoves, Asked
<1>3. RecordMoves(h) /\ ~Hands(rec[h], rec'[h]) /\ \A g \in Hosts \ {h} : rec'[g] = rec[g]
  <2>1. CASE /\ rec[h].status = "in_flight"
             /\ rec[h].returned = "yes" \/ rec[h].kind = "injection"
             /\ RecIs(h, Finished(h))
             /\ outbox' = outbox \cup {Event(h, "acknowledged")}
    <3>1. rec'[h] = Finished(h) /\ \A g \in Hosts \ {h} : rec'[g] = rec[g]
      BY <1>0, <2>1, Places
    <3>2. Ends(rec[h], rec'[h], "delivered")
      BY <1>0, <3>1, Fields DEF Finished
    <3>3. Bound => rec[h].returned = "yes"
      BY <1>0, <2>1 DEF DInv, BoundRecords
    <3> QED BY <1>1, <2>1, <3>1, <3>2, <3>3 DEF RecordMoves, Ends, Hands
  <2>2. CASE RecIs(h, [rec[h] EXCEPT !.armed = "yes"]) /\ UNCHANGED outbox
    <3>1. /\ rec'[h] = [rec[h] EXCEPT !.armed = "yes"]
          /\ \A g \in Hosts \ {h} : rec'[g] = rec[g]
      BY <1>0, <2>2, Places
    <3>2. Same(rec[h], [rec[h] EXCEPT !.armed = "yes"])
      BY <1>0, Fields
    <3> QED BY <1>1, <2>2, <3>1, <3>2 DEF RecordMoves, Same, Hands
  <2>3. CASE UNCHANGED <<rec, outbox>>
    BY <1>1, <2>3 DEF RecordMoves, Same, Hands
  <2> QED BY <1>1, <2>1, <2>2, <2>3
<1>4. LockKept'
  <2>1. \A d \in Tools : call'[d] = call[d]
    BY <1>0, <1>2, CodexAssumption
  <2>2. \A d \in Calls : HostOf[d] # h => call'[d] = call[d]
    BY <1>0, <1>2
  <2> QED BY <1>0, <1>1, <1>2, <1>3, <2>1, <2>2, HookActs
<1>5. resume.status # "none" /\ Declares' /\ ScopeMoves(h)
  BY <1>0, <1>1, Started DEF DInv, Declares, ScopeMoves
<1>6. ReturnMoves(h)
  BY <1>0, <1>1, <1>2, OthersReturn
<1> QED BY <1>0, <1>1, <1>2, <1>3, <1>4, <1>5, <1>6, Acted

\* An agent's Resume is staged in a host.
LEMMA ConfirmKeeps ==
  ASSUME DInv, TypeOK', NEW h \in Hosts,
         \/ h \in CodexHosts /\ CodexConfirm(h)
         \/ /\ h \notin CodexHosts /\ UNCHANGED codexVars
            /\ OpenClawConfirm(h) \/ HermesConfirm(h)
  PROVE  DInv'
<1>0. rec[h] \in Rec /\ TypeOK /\ resume \in Resume
  BY DEF DInv, TypeOK, ServerTypeOK, CallsTypeOK
<1>1. /\ ~Bound /\ Confirmed /\ Confirmable
      /\ UNCHANGED <<rows, call, outbox, network, given, lock, cut>>
      /\ \/ UNCHANGED <<rec, scope>>
         \/ /\ \E kind \in Kinds, armed \in {"yes", "no"} :
                 /\ RecIs(h, NewRec(h, "agent", kind, armed))
                 /\ h \notin CodexHosts => kind = "injection"
            /\ scope' = scope \/ scope' = [scope EXCEPT ![h] = "pending"]
  BY DEF CodexConfirm, OpenClawConfirm, HermesConfirm, codexVars, Kinds
<1>2. /\ resume'.target = resume.target /\ resume'.status = "confirmed"
  BY <1>0, <1>1 DEF Confirmed, Resume
<1>3. /\ Same(rec[h], rec'[h]) \/ Renews(h, rec[h], rec'[h])
      /\ \A g \in Hosts \ {h} : rec'[g] = rec[g] /\ scope'[g] = scope[g]
  <2>1. CASE UNCHANGED <<rec, scope>>
    BY <2>1 DEF Same
  <2>2. ASSUME NEW kind \in Kinds, NEW armed \in {"yes", "no"},
               RecIs(h, NewRec(h, "agent", kind, armed)),
               h \notin CodexHosts => kind = "injection",
               scope' = scope \/ scope' = [scope EXCEPT ![h] = "pending"]
        PROVE  /\ Renews(h, rec[h], rec'[h])
               /\ \A g \in Hosts \ {h} : rec'[g] = rec[g] /\ scope'[g] = scope[g]
    <3>1. /\ rec'[h] = NewRec(h, "agent", kind, armed)
          /\ \A g \in Hosts \ {h} : rec'[g] = rec[g] /\ scope'[g] = scope[g]
      BY <1>0, <2>2, Places
    <3>2. Renews(h, rec[h], rec'[h])
      BY <1>1, <2>2, <3>1, NewFields DEF Renews
    <3> QED BY <3>1, <3>2
  <2> QED BY <1>1, <2>1, <2>2
<1>4. RecordMoves(h) /\ ~Hands(rec[h], rec'[h]) /\ ScopeMoves(h)
  <2>1. rec[h].status = "none" => rec[h].returned = "no"
    BY DEF DInv, RecordsTrue
  <2> QED BY <1>1, <1>3, <2>1 DEF RecordMoves, ScopeMoves, Same, Renews, Hands
<1>5. LockKept'
  <2>1. CASE h \in CodexHosts
    <3>1. \A d \in Tools : call'[d] = call[d]
      BY <1>1
    <3> QED BY <1>1, <1>3, <1>4, <2>1, <3>1, HookActs
  <2>2. CASE h \notin CodexHosts
    BY <1>1, <1>3, <2>2, LockElsewhere
  <2> QED BY <2>1, <2>2
<1>6. Unstarted' /\ Declares' /\ ReturnMoves(h) /\ \A c \in Calls : CallMoves(h, c)
  BY <1>1, <1>2 DEF Unstarted, DInv, Declares, ReturnMoves, CallMoves
<1> QED BY <1>1, <1>2, <1>3, <1>4, <1>5, <1>6, HostKeeps DEF HostMoves

\* Every step of a Codex host.
LEMMA CodexKeeps ==
  ASSUME DInv, TypeOK', NEW h \in CodexHosts, NEW running, CodexNext(h, running)
  PROVE  DInv'
<1>0. Tools \subseteq Calls /\ Hooks \subseteq Calls /\ h \in Hosts
  BY CallsAssumption, CodexAssumption DEF CodexHosts
<1>1. CASE CodexConfirm(h)
  BY <1>0, <1>1, ConfirmKeeps
<1>2. ASSUME NEW c \in Tools \cap running,
             \/ TakePendingResume(c)
             \/ Pulled(c) /\ UNCHANGED codexVars
             \/ PendingPulled(c)
             \/ (Answer(c, "receipt") \/ Lose(c, "receipt")) /\ UNCHANGED codexVars
             \/ TakeAnswered(c) \/ MarkReturned(c) \/ HandOver(c)
             \/ Kill(c, "receipt")
      PROVE  DInv'
  <2>1. KindOf(c) = "receipt"
    BY DEF KindOf
  <2> QED BY <1>0, <1>2, <2>1, TakeKeeps, LoseKeeps, PendingPulledKeeps, AnswerKeeps,
             TakeAnsweredKeeps, MarkReturnedKeeps, HandOverKeeps, KillKeeps DEF codexVars
<1>3. ASSUME NEW k \in Hooks \cap running,
             \/ \E source \in {"startup", "compact"} : SessionStart(k, source)
             \/ PromptSubmit(k)
             \/ (Answer(k, "injection") \/ Lose(k, "injection")) /\ UNCHANGED codexVars
             \/ PromptAnswered(k)
             \/ Stop(k) \/ StopEnds(k)
             \/ Kill(k, "injection")
      PROVE  DInv'
  <2>1. KindOf(k) = "injection"
    BY PartiesAssumption DEF KindOf
  <2> QED BY <1>0, <1>3, <2>1, SessionStartKeeps, PromptSubmitKeeps, LoseKeeps, AnswerKeeps,
             PromptAnsweredKeeps, StopKeeps, KillKeeps DEF codexVars
<1> QED BY <1>1, <1>2, <1>3 DEF CodexNext

-----------------------------------------------------------------------------
(* OpenClaw and Hermes *)

\* A step of a callback of an adapter, put together.
LEMMA AdapterActed ==
  ASSUME DInv, TypeOK', NEW c \in Calls, HostOf[c] \notin CodexHosts,
         resume' = resume, resume.status # "none", UNCHANGED <<rows, network, lock, cut>>,
         \A g \in Hosts \ {HostOf[c]} : rec'[g] = rec[g] /\ scope'[g] = scope[g],
         \A d \in Calls \ {c} : call'[d] = call[d],
         CallMoves(HostOf[c], c), RecordMoves(HostOf[c]), ScopeMoves(HostOf[c])
  PROVE  DInv'
<1>1. HostOf[c] \in Hosts
  BY CallsAssumption
<1>2. Declares'
  BY DEF DInv, Declares
<1>3. LockKept'
  BY <1>1, LockElsewhere
<1>4. ReturnMoves(HostOf[c])
  <2>1. \A d \in Tools : d # c /\ d \in Calls
    BY CodexAssumption DEF CodexHosts
  <2> QED BY <2>1 DEF ReturnMoves
<1> QED BY <1>1, <1>2, <1>3, <1>4, Acted

\* An attempt in flight ends, and its end is queued.
LEMMA EndMoves ==
  ASSUME DInv, NEW h \in Hosts, rec[h].status = "in_flight", UNCHANGED given,
         \/ FailAttempt(h)
         \/ AcknowledgeAttempt(h) /\ (rec[h].source = "agent" \/ rec[h].returned = "yes")
  PROVE  RecordMoves(h) /\ \A g \in Hosts \ {h} : rec'[g] = rec[g]
<1>0. rec[h] \in Rec /\ TypeOK
  BY DEF DInv, TypeOK, CallsTypeOK
<1>1. CASE FailAttempt(h)
  <2>1. rec'[h] = Retry(h) /\ \A g \in Hosts \ {h} : rec'[g] = rec[g]
    BY <1>0, <1>1, Places DEF FailAttempt
  <2>2. Retries(rec[h], rec'[h])
    BY <1>0, <2>1, RetryFields
  <2> QED BY <1>1, <2>1, <2>2 DEF RecordMoves, FailAttempt
<1>2. CASE AcknowledgeAttempt(h) /\ (rec[h].source = "agent" \/ rec[h].returned = "yes")
  <2>1. /\ rec'[h] = [rec[h] EXCEPT !.status = "delivered"]
        /\ \A g \in Hosts \ {h} : rec'[g] = rec[g]
    BY <1>0, <1>2, Places DEF AcknowledgeAttempt
  <2>2. Ends(rec[h], rec'[h], "delivered")
    BY <1>0, <2>1, Fields
  <2>3. Bound => rec[h].returned = "yes"
    BY <1>2 DEF DInv, BoundRecords
  <2> QED BY <1>2, <2>1, <2>2, <2>3 DEF RecordMoves, AcknowledgeAttempt
<1> QED BY <1>1, <1>2

\* The session of a host ends, or its process restarts.
LEMMA SessionKeeps ==
  ASSUME DInv, TypeOK', NEW h \in Hosts, h \notin CodexHosts, UNCHANGED codexVars,
         \/ \E success : AgentEnd(h, success) \/ OnSessionEnd(h, success)
         \/ GatewayStart(h) \/ Register(h)
  PROVE  DInv'
<1> DEFINE ends ==
             \/ /\ rec[h].status = "in_flight"
                /\ \/ FailAttempt(h)
                   \/ AcknowledgeAttempt(h) /\ (rec[h].source = "agent" \/ rec[h].returned = "yes")
             \/ UNCHANGED <<rec, outbox>>
           restarts(killed) ==
             /\ \A c \in killed : HostOf[c] = h
             /\ KillAll(killed, "injection")
<1>0. UNCHANGED <<resume, rows, scope, given, lock, cut>> /\ ends
  <2>1. ASSUME NEW success, AgentEnd(h, success) \/ OnSessionEnd(h, success)
        PROVE  UNCHANGED <<resume, rows, scope, given, lock, cut>> /\ ends
    BY <2>1 DEF AgentEnd, OnSessionEnd, server, codexVars
  <2>2. CASE GatewayStart(h)
    BY <2>2 DEF GatewayStart, server, codexVars
  <2>3. CASE Register(h)
    BY <2>3 DEF Register, server, codexVars
  <2> QED BY <2>1, <2>2, <2>3
<1> HIDE DEF ends
<1>1. PICK killed \in SUBSET Calls : restarts(killed)
  <2>1. ASSUME NEW success, AgentEnd(h, success) \/ OnSessionEnd(h, success)
        PROVE  restarts({})
    BY <2>1 DEF AgentEnd, OnSessionEnd, DInv, TypeOK, CallsTypeOK, KillAll
  <2>2. CASE GatewayStart(h)
    <3>1. restarts({c \in OpenClawBuilds : HostOf[c] = h})
      BY <2>2 DEF GatewayStart
    <3>2. {c \in OpenClawBuilds : HostOf[c] = h} \in SUBSET Calls
      BY OpenClawAssumption
    <3> HIDE DEF restarts
    <3> QED BY <3>1, <3>2
  <2>3. CASE Register(h)
    <3>1. PICK killed \in SUBSET {c \in HermesCalls : HostOf[c] = h} :
            KillAll(killed, "injection")
      BY <2>3 DEF Register
    <3>2. killed \in SUBSET Calls
      BY HermesAssumption
    <3>3. restarts(killed)
      BY <3>1
    <3> HIDE DEF restarts
    <3> QED BY <3>2, <3>3
  <2>4. {} \in SUBSET Calls
    OBVIOUS
  <2> HIDE DEF restarts
  <2> QED BY <2>1, <2>2, <2>3, <2>4
<1>2. \A c \in Calls : \/ call'[c] = call[c]
                       \/ c \in killed /\ call'[c] = Idle
  BY <1>1 DEF KillAll
<1>3. /\ \A c \in Calls : HostOf[c] # h => call'[c] = call[c]
      /\ \A c \in Calls : CallMoves(h, c)
  BY <1>1, <1>2, CallFields DEF CallMoves
<1>4. RecordMoves(h) /\ \A g \in Hosts \ {h} : rec'[g] = rec[g]
  <2>1. CASE UNCHANGED <<rec, outbox>>
    BY <1>0, <2>1 DEF RecordMoves, Same
  <2> QED BY <1>0, <2>1, EndMoves DEF ends
<1>5. Declares' /\ ScopeMoves(h)
  BY <1>0, <1>1 DEF KillAll, DInv, Declares, Declaration, ScopeMoves
<1>6. LockKept'
  BY <1>0, <1>3, <1>4, LockElsewhere
<1>6a. ReturnMoves(h)
  <2>1. \A d \in Tools : d \in Calls /\ call'[d] = call[d]
    BY <1>3, CodexAssumption DEF CodexHosts
  <2> QED BY <1>0, <2>1 DEF ReturnMoves
<1>7. Unstarted'
  <2> SUFFICES ASSUME resume.status = "none" PROVE Unstarted'
    BY <1>0 DEF Unstarted
  <2>1. /\ ~Bound /\ rows = {} /\ outbox = {} /\ network = {}
        /\ \A g \in Hosts : rec[g].status = "none" /\ scope[g] = "none"
        /\ \A c \in Calls : call[c].pc = "idle"
    BY DEF DInv, Unstarted
  <2>2. UNCHANGED <<rec, outbox>>
    BY <1>0, <2>1 DEF ends
  <2>3. network' = {}
    BY <1>1, <2>1 DEF KillAll
  <2>4. \A c \in Calls : call'[c].pc = "idle"
    BY <1>2, <2>1, CallFields
  <2> QED BY <1>0, <2>1, <2>2, <2>3, <2>4 DEF Unstarted, Bound
<1> QED BY <1>0, <1>3, <1>4, <1>5, <1>6, <1>6a, <1>7, HostKeeps DEF HostMoves

\* A callback begins.
LEMMA BeginKeeps ==
  ASSUME DInv, TypeOK', NEW c \in Calls, HostOf[c] \notin CodexHosts, UNCHANGED codexVars,
         BeforePromptBuild(c) \/ PreLlmCall(c)
  PROVE  DInv'
<1> DEFINE h == HostOf[c]
<1>0. h \in Hosts /\ rec[h] \in Rec /\ TypeOK /\ c \notin Tools
  BY CallsAssumption DEF DInv, TypeOK, CallsTypeOK, CodexHosts
<1>1. /\ UNCHANGED <<resume, rows, outbox, network, given, lock, cut>>
      /\ scope' = scope \/ ActivateScope(h)
      /\ \/ ClaimPending(c, rec[h]) \/ ClaimAgain(c, rec[h]) \/ HermesClaims(c, rec[h])
         \/ rec' = rec /\ Bound /\ CallIs(c, Waiting("pull"))
         \/ rec' = rec /\ call' = call
  <2>1. CASE BeforePromptBuild(c)
    BY <2>1 DEF BeforePromptBuild, server, codexVars
  <2>2. CASE PreLlmCall(c)
    BY <2>2 DEF PreLlmCall, CallIs, server, codexVars
  <2> QED BY <2>1, <2>2
<1>2. /\ \A g \in Hosts \ {h} : scope'[g] = scope[g]
      /\ scope'[h] = scope[h] \/ (scope[h] = "pending" /\ scope'[h] = "active")
  BY <1>0, <1>1, Places DEF ActivateScope
<1>3. ScopeMoves(h)
  BY <1>0, <1>2 DEF ScopeMoves, DInv, BoundRecords
<1>4. CASE resume.status = "none"
  <2>1. ~Bound /\ \A g \in Hosts : rec[g].status = "none" /\ scope[g] = "none"
    BY <1>4 DEF DInv, Unstarted
  <2>2. scope' = scope
    BY <1>0, <1>1, <2>1 DEF ActivateScope
  <2>3. rec' = rec /\ call' = call
    BY <1>0, <1>1, <2>1 DEF ClaimPending, ClaimAgain, HermesClaims, Claimable
  <2> QED BY <1>1, <2>2, <2>3, AloneKeeps
<1>5. CASE resume.status # "none"
  <2>1. /\ \A g \in Hosts \ {h} : rec'[g] = rec[g]
        /\ \A d \in Calls \ {c} : call'[d] = call[d]
        /\ RecordMoves(h) /\ CallMoves(h, c)
    <3>1. CASE ClaimPending(c, rec[h]) \/ ClaimAgain(c, rec[h]) \/ HermesClaims(c, rec[h])
      <4>1. Same(rec[h], rec[h])
        BY DEF Same
      <4> QED BY <1>0, <1>1, <3>1, <4>1, ClaimMoves
    <3>2. CASE rec' = rec /\ CallIs(c, Waiting("pull"))
      <4>1. call'[c] = Waiting("pull") /\ \A d \in Calls \ {c} : call'[d] = call[d]
        BY <1>0, <3>2, Places
      <4>2. CallMoves(h, c)
        BY <4>1, CallFields DEF CallMoves, Asked
      <4> QED BY <1>1, <3>2, <4>1, <4>2 DEF RecordMoves, Same
    <3>3. CASE rec' = rec /\ call' = call
      BY <1>1, <3>3 DEF RecordMoves, CallMoves, Same
    <3> QED BY <1>1, <3>1, <3>2, <3>3
  <2> QED BY <1>0, <1>1, <1>2, <1>3, <1>5, <2>1, AdapterActed
<1> QED BY <1>4, <1>5

\* It has asked for what is pending.
LEMMA PulledKeeps ==
  ASSUME DInv, TypeOK', NEW c \in Calls, HostOf[c] \notin CodexHosts, UNCHANGED codexVars,
         OpenClawPulled(c) \/ HermesPulled(c)
  PROVE  DInv'
<1> DEFINE h == HostOf[c]
           new == NewRec(h, "console", "injection", "yes")
<1>0. h \in Hosts /\ rec[h] \in Rec /\ TypeOK /\ c \notin Tools
  BY CallsAssumption DEF DInv, TypeOK, CallsTypeOK, CodexHosts
<1>1. PICK queued :
        /\ UNCHANGED <<resume, rows, scope, outbox, network, given, lock, cut>>
        /\ call[c].pc = "pulled"
        /\ queued = rec[h] \/ queued = new
        /\ \/ /\ queued = rec[h] \/ rec[h].status = "none" \/ Renewable(h)
              /\ ClaimPending(c, queued) \/ ClaimAgain(c, queued) \/ HermesClaims(c, queued)
           \/ rec' = rec /\ CallIs(c, Idle)
  <2>1. CASE OpenClawPulled(c)
    <3> DEFINE q == IF /\ call[c].answer = "packet"
                       /\ \/ rec[h].status = "none"
                          \/ rec[h].status = "pending" /\ rec[h].fresh = "no"
                    THEN new ELSE rec[h]
    <3>1. /\ q = rec[h] \/ q = new
          /\ q = rec[h] \/ rec[h].status = "none" \/ Renewable(h)
      BY <2>1 DEF OpenClawPulled
    <3>2. /\ UNCHANGED <<resume, rows, scope, outbox, network, given, lock, cut>>
          /\ call[c].pc = "pulled"
          /\ \/ ClaimPending(c, q) \/ ClaimAgain(c, q)
             \/ rec' = rec /\ CallIs(c, Idle)
      BY <2>1 DEF OpenClawPulled, server, codexVars
    <3> HIDE DEF q, new
    <3> QED BY <3>1, <3>2
  <2>2. CASE HermesPulled(c)
    <3> DEFINE renew == \/ rec[h].status \in {"none", "cancelled"}
                        \/ /\ rec[h].status = "pending" /\ rec[h].source = "console"
                           /\ rec[h].fresh = "no"
               q == IF renew THEN new ELSE rec[h]
    <3>1. /\ q = rec[h] \/ q = new
          /\ renew \/ q = rec[h]
      OBVIOUS
    <3>2. /\ UNCHANGED <<resume, rows, scope, outbox, network, given, lock, cut>>
          /\ call[c].pc = "pulled"
          /\ \/ /\ renew => rec[h].status = "none" \/ Renewable(h)
                /\ HermesClaims(c, q)
             \/ rec' = rec /\ CallIs(c, Idle)
      BY <2>2 DEF HermesPulled, server, codexVars
    <3> HIDE DEF q, new, renew
    <3> QED BY <3>1, <3>2
  <2> QED BY <2>1, <2>2
<1>2. resume.status # "none"
  BY <1>0, <1>1, Started
<1>3. /\ \A g \in Hosts \ {h} : rec'[g] = rec[g]
      /\ \A d \in Calls \ {c} : call'[d] = call[d]
      /\ RecordMoves(h) /\ CallMoves(h, c)
  <2>1. CASE /\ queued = rec[h] \/ rec[h].status = "none" \/ Renewable(h)
             /\ ClaimPending(c, queued) \/ ClaimAgain(c, queued) \/ HermesClaims(c, queued)
    <3>1. queued \in Rec
      BY <1>0, <1>1, <2>1, NewShapes DEF Kinds
    <3>2. \/ Same(rec[h], queued)
          \/ Renews(h, rec[h], queued) /\ queued.status = "pending"
      <4>1. Same(rec[h], rec[h])
        BY DEF Same
      <4>2. Renews(h, rec[h], new) /\ new.status = "pending"
        BY <1>0, NewFields DEF Renews
      <4> QED BY <1>1, <4>1, <4>2
    <3> QED BY <1>0, <1>1, <2>1, <3>1, <3>2, ClaimMoves
  <2>2. CASE rec' = rec /\ CallIs(c, Idle)
    <3>1. call'[c] = Idle /\ \A d \in Calls \ {c} : call'[d] = call[d]
      BY <1>0, <2>2, Places
    <3>2. CallMoves(h, c)
      BY <3>1, CallFields DEF CallMoves
    <3> QED BY <1>1, <2>2, <3>1, <3>2 DEF RecordMoves, Same
  <2> QED BY <1>1, <2>1, <2>2
<1>4. ScopeMoves(h)
  BY <1>1 DEF ScopeMoves
<1> QED BY <1>0, <1>1, <1>2, <1>3, <1>4, AdapterActed

\* The answer to its declaration has come, or has not.
LEMMA AnsweredKeeps ==
  ASSUME DInv, TypeOK', NEW c \in Calls, HostOf[c] \notin CodexHosts, UNCHANGED codexVars,
         OpenClawAnswered(c) \/ HermesAnswered(c)
  PROVE  DInv'
<1> DEFINE h == HostOf[c]
<1>0. /\ h \in Hosts /\ rec[h] \in Rec /\ TypeOK /\ c \notin Tools
      /\ call[c].n \in 1..MaxTries
  BY CallsAssumption DEF DInv, TypeOK, CallsTypeOK, CodexHosts, Call
<1>1. /\ UNCHANGED <<resume, rows, network, lock, cut>> /\ CallIs(c, Idle)
      /\ call[c].pc = "answered"
      /\ \/ /\ call[c].answer = "accepted" /\ Holds(c) /\ rec[h].returned = "no"
            /\ RecIs(h, [rec[h] EXCEPT !.returned = "yes"])
            /\ Give("injection", <<h, call[c].n>>) /\ UNCHANGED outbox
            /\ \/ scope' = [scope EXCEPT ![h] = "active"]
               \/ scope' = scope
         \/ /\ Holds(c) /\ UNCHANGED <<scope, given>>
            /\ outbox' = outbox \cup {Event(h, "failed")}
            /\ \/ RecIs(h, Retry(h))
               \/ RecIs(h, [Retry(h) EXCEPT !.status = "pending"])
               \/ RecIs(h, [Retry(h) EXCEPT !.status = "cancelled"])
         \/ /\ rec[h].n = call[c].n /\ RecIs(h, [rec[h] EXCEPT !.status = "cancelled"])
            /\ UNCHANGED <<scope, outbox, given>>
         \/ UNCHANGED <<rec, scope, outbox, given>>
  <2>1. CASE OpenClawAnswered(c)
    <3>1. /\ UNCHANGED <<resume, rows, network, lock, cut>> /\ CallIs(c, Idle)
          /\ call[c].pc = "answered"
      BY <2>1 DEF OpenClawAnswered, server, codexVars
    <3>2. CASE /\ call[c].answer = "accepted" /\ Holds(c) /\ rec[h].returned = "no"
               /\ MarkHandedOff(c)
      BY <3>1, <3>2 DEF MarkHandedOff, ActivateScope
    <3>3. CASE Holds(c) /\ FailClaim(c)
      BY <3>1, <3>3 DEF FailClaim
    <3>4. CASE UNCHANGED <<rec, scope, outbox, given>>
      BY <3>1, <3>4
    <3> QED BY <2>1, <3>2, <3>3, <3>4 DEF OpenClawAnswered
  <2>2. CASE HermesAnswered(c)
    <3>1. /\ UNCHANGED <<resume, rows, network, lock, cut>> /\ CallIs(c, Idle)
          /\ call[c].pc = "answered"
      BY <2>2 DEF HermesAnswered, server, codexVars
    <3>2. CASE /\ call[c].answer = "accepted" /\ Holds(c) /\ rec[h].returned = "no"
               /\ MarkContextReturned(c)
      BY <3>1, <3>2 DEF MarkContextReturned
    <3>3. CASE Holds(c) /\ FailAttempt(h) /\ UNCHANGED <<scope, given>>
      BY <3>1, <3>3 DEF FailAttempt
    <3>4. CASE rec[h].n = call[c].n /\ CancelConsoleAuthorization(h)
      BY <3>1, <3>4 DEF CancelConsoleAuthorization
    <3>5. CASE UNCHANGED <<rec, scope, outbox, given>>
      BY <3>1, <3>5
    <3> QED BY <2>2, <3>2, <3>3, <3>4, <3>5 DEF HermesAnswered
  <2> QED BY <2>1, <2>2
<1>2. call'[c] = Idle /\ \A d \in Calls \ {c} : call'[d] = call[d]
  BY <1>0, <1>1, Places
<1>3. CallMoves(h, c)
  BY <1>2, CallFields DEF CallMoves
<1>4. resume.status # "none"
  BY <1>0, <1>1, Started
<1>5. /\ RecordMoves(h) /\ ScopeMoves(h)
      /\ \A g \in Hosts \ {h} : rec'[g] = rec[g] /\ scope'[g] = scope[g]
  <2>1. CASE /\ call[c].answer = "accepted" /\ Holds(c) /\ rec[h].returned = "no"
             /\ RecIs(h, [rec[h] EXCEPT !.returned = "yes"])
             /\ Give("injection", <<h, call[c].n>>) /\ UNCHANGED outbox
             /\ \/ scope' = [scope EXCEPT ![h] = "active"]
                \/ scope' = scope
    <3>1. Has("injection", <<h, call[c].n>>, "initial")
      BY <1>0, <2>1 DEF DInv, CallsAccepted, KindOf
    <3>2. /\ rec[h].status = "in_flight" /\ rec[h].n = call[c].n
          /\ rec[h].kind = "injection"
      BY <1>0, <2>1 DEF Holds, DInv, RecordsTrue
    <3>3. /\ rec'[h] = [rec[h] EXCEPT !.returned = "yes"]
          /\ \A g \in Hosts \ {h} : rec'[g] = rec[g]
      BY <1>0, <2>1, Places
    <3>4. Hands(rec[h], rec'[h])
      BY <1>0, <2>1, <3>2, <3>3, Fields
    <3>5. RecordMoves(h)
      BY <2>1, <3>1, <3>2, <3>4 DEF RecordMoves
    <3>6. \A g \in Hosts \ {h} : scope'[g] = scope[g]
      BY <1>0, <2>1, Places
    <3>7. scope'[h] = "active" \/ scope'[h] = scope[h]
      BY <1>0, <2>1, Places
    <3>8. ScopeMoves(h)
      BY <1>0, <3>1, <3>7 DEF ScopeMoves, Kinds
    <3> QED BY <3>3, <3>5, <3>6, <3>8
  <2>2. CASE /\ Holds(c) /\ UNCHANGED <<scope, given>>
             /\ outbox' = outbox \cup {Event(h, "failed")}
             /\ \/ RecIs(h, Retry(h))
                \/ RecIs(h, [Retry(h) EXCEPT !.status = "pending"])
                \/ RecIs(h, [Retry(h) EXCEPT !.status = "cancelled"])
    <3>1. /\ \A g \in Hosts \ {h} : rec'[g] = rec[g]
          /\ \/ rec'[h] = Retry(h)
             \/ rec'[h] = [Retry(h) EXCEPT !.status = "pending"]
             \/ rec'[h] = [Retry(h) EXCEPT !.status = "cancelled"]
      BY <1>0, <2>2, Places
    <3>2. Retries(rec[h], rec'[h])
      BY <1>0, <2>2, <3>1, RetryFields DEF Holds
    <3> QED BY <2>2, <3>1, <3>2 DEF RecordMoves, ScopeMoves
  <2>3. CASE /\ rec[h].n = call[c].n /\ RecIs(h, [rec[h] EXCEPT !.status = "cancelled"])
             /\ UNCHANGED <<scope, outbox, given>>
    <3>1. rec[h].status # "none"
      BY <1>0, <1>1, <2>3 DEF DInv, CallsClaimed, Asked
    <3>2. /\ rec'[h] = [rec[h] EXCEPT !.status = "cancelled"]
          /\ \A g \in Hosts \ {h} : rec'[g] = rec[g]
      BY <1>0, <2>3, Places
    <3>3. Ends(rec[h], rec'[h], "cancelled")
      <4>1. rec[h] \in Rec
        BY <1>0
      <4>2. Ends(rec[h], [rec[h] EXCEPT !.status = "cancelled"], "cancelled")
        BY ONLY <4>1, Fields
      <4> QED BY <3>2, <4>2
    <3> QED BY <2>3, <3>1, <3>2, <3>3 DEF RecordMoves, ScopeMoves
  <2>4. CASE UNCHANGED <<rec, scope, outbox, given>>
    BY <2>4 DEF RecordMoves, ScopeMoves, Same
  <2> QED BY <1>1, <2>1, <2>2, <2>3, <2>4
<1> QED BY <1>0, <1>1, <1>2, <1>3, <1>4, <1>5, AdapterActed

\* Every step of an OpenClaw host.
LEMMA OpenClawKeeps ==
  ASSUME DInv, TypeOK', NEW h \in OpenClawHosts, NEW running,
         OpenClawNext(h, running), UNCHANGED codexVars
  PROVE  DInv'
<1>0. /\ h \in Hosts /\ h \notin CodexHosts /\ OpenClawBuilds \subseteq Calls
      /\ UNCHANGED <<lock, cut>>
  BY CallsAssumption, OpenClawAssumption, PartiesAssumption DEF OpenClawHosts, codexVars
<1>1. CASE OpenClawConfirm(h)
  BY <1>0, <1>1, ConfirmKeeps
<1>2. CASE (\E success \in BOOLEAN : AgentEnd(h, success)) \/ GatewayStart(h)
  BY <1>0, <1>2, SessionKeeps
<1>3. ASSUME NEW c \in OpenClawBuilds, HostOf[c] = h,
             \/ BeforePromptBuild(c) \/ Pulled(c) \/ OpenClawPulled(c)
             \/ Answer(c, "injection") \/ Lose(c, "injection") \/ OpenClawAnswered(c)
      PROVE  DInv'
  <2>1. c \in Calls /\ HostOf[c] \notin CodexHosts /\ KindOf(c) = "injection"
    BY <1>0, <1>3 DEF KindOf, CodexHosts
  <2> QED BY <1>0, <1>3, <2>1, BeginKeeps, LoseKeeps, PulledKeeps, AnswerKeeps, AnsweredKeeps
<1> QED BY <1>1, <1>2, <1>3 DEF OpenClawNext

\* Every step of a Hermes host.
LEMMA HermesKeeps ==
  ASSUME DInv, TypeOK', NEW h \in HermesHosts, NEW running,
         HermesNext(h, running), UNCHANGED codexVars
  PROVE  DInv'
<1>0. /\ h \in Hosts /\ h \notin CodexHosts /\ HermesCalls \subseteq Calls
      /\ UNCHANGED <<lock, cut>>
  BY CallsAssumption, HermesAssumption, PartiesAssumption DEF HermesHosts, codexVars
<1>1. CASE HermesConfirm(h)
  BY <1>0, <1>1, ConfirmKeeps
<1>2. CASE (\E success \in BOOLEAN : OnSessionEnd(h, success)) \/ Register(h)
  BY <1>0, <1>2, SessionKeeps
<1>3. ASSUME NEW c \in HermesCalls, HostOf[c] = h,
             \/ PreLlmCall(c) \/ Pulled(c) \/ HermesPulled(c)
             \/ Answer(c, "injection") \/ Lose(c, "injection") \/ HermesAnswered(c)
      PROVE  DInv'
  <2>1. c \in Calls /\ HostOf[c] \notin CodexHosts /\ KindOf(c) = "injection"
    BY <1>0, <1>3 DEF KindOf, CodexHosts
  <2> QED BY <1>0, <1>3, <2>1, BeginKeeps, LoseKeeps, PulledKeeps, AnswerKeeps, AnsweredKeeps
<1> QED BY <1>1, <1>2, <1>3 DEF HermesNext

-----------------------------------------------------------------------------
(* The whole *)

\* Every step keeps the invariant.
LEMMA StepKeeps ==
  ASSUME DInv, [Next]_vars
  PROVE  DInv'
<1>0. TypeOK'
  BY TypesKept DEF DInv
<1>1. CASE ServerNext /\ UNCHANGED codexVars
  BY <1>0, <1>1, ServerKeeps
<1>2. CASE \E h \in Present \cap CodexHosts : CodexNext(h, party)
  BY <1>0, <1>2, CodexKeeps
<1>3. CASE \E h \in Present \cap OpenClawHosts : OpenClawNext(h, party) /\ UNCHANGED codexVars
  BY <1>0, <1>3, OpenClawKeeps
<1>4. CASE \E h \in Present \cap HermesHosts : HermesNext(h, party) /\ UNCHANGED codexVars
  BY <1>0, <1>4, HermesKeeps
<1>5. CASE UNCHANGED vars
  BY <1>0, <1>5, AloneKeeps DEF vars, deliveryVars, serverVars, server, callVars, codexVars
<1> QED BY <1>1, <1>2, <1>3, <1>4, <1>5 DEF Next

\* It holds at first.
LEMMA InitHolds == Init => DInv
<1> SUFFICES ASSUME Init PROVE DInv
  OBVIOUS
<1>1. /\ TypeOK /\ rows = {} /\ outbox = {} /\ network = {}
      /\ resume.status = "none" /\ resume.target = NoHost
  BY InitTypes DEF Init, ServerInit, CallsInit
<1>2. /\ \A h \in Hosts : /\ rec[h].status = "none" /\ rec[h].n = 1 /\ rec[h].returned = "no"
                          /\ rec[h].kind = "injection" /\ scope[h] = "none"
      /\ \A c \in Calls : call[c].pc = "idle" /\ call[c].answer = "none"
      /\ \A kind \in Kinds : \A id \in Attempts : given[kind][id] = 0
  BY DEF Init, CallsInit, NoRec, Idle
<1>3. ~Bound /\ \A kind, id, phase : ~Has(kind, id, phase)
  BY <1>1 DEF Bound, Has
<1>4. OneInFlight /\ CompletedOnce /\ Declares /\ EndsPast /\ EndsOnce
  BY <1>1, <1>3 DEF OneInFlight, CompletedOnce, InFlight, Completed, Declares, EndsPast, EndsOnce
<1>5. RecordsTrue /\ CallsClaimed /\ CallsAccepted
  BY <1>2 DEF RecordsTrue, CallsClaimed, CallsAccepted, Asked
<1>6. LockKept
  BY <1>2, CodexAssumption DEF LockKept, Asked
<1>7. GivenMarked
  BY <1>2 DEF GivenMarked, Attempts
<1>8. Unstarted /\ BoundRecords /\ AcknowledgedGiven /\ ScopeBacked
  BY <1>1, <1>2, <1>3 DEF Unstarted, BoundRecords, AcknowledgedGiven, ScopeBacked
<1>9. Returning
  BY <1>2, CodexAssumption DEF Returning, Init, CodexInit
<1> QED BY <1>1, <1>4, <1>5, <1>6, <1>7, <1>8, <1>9 DEF DInv

\* The inductive invariant holds in every reachable state: what the records of the
\* hosts, the local variables of the calls, the queues, the network and the tables
\* of the server say of each attempt agree with each other.
THEOREM Invariant == Spec => []DInv
<1>1. DInv /\ [Next]_vars => DInv'
  BY StepKeeps
<1> QED BY <1>1, InitHolds, PTL DEF Spec

-----------------------------------------------------------------------------
(* What a run checks of the delivery on a small instance *)

\* Whatever messages reach the server, and in whatever order, it has at most one
\* attempt of a protocol in flight (recordInjectionEvent, recordDeliveryReceipt).
THEOREM OneInFlightAlways == Spec => []OneInFlight
<1>1. DInv => OneInFlight
  BY DEF DInv
<1> QED BY <1>1, Invariant, PTL

\* No attempt is ever reported both completed and failed, in the queues of the
\* hosts and the tables of the server together.
THEOREM EndsOnceAlways == Spec => []EndsOnce
<1>1. DInv => EndsOnce
  BY DEF DInv
<1> QED BY <1>1, Invariant, PTL

\* In each protocol, a host whose record says that the context was handed over,
\* and whose attempt has not ended, is the only one: its attempt was declared and
\* has no end, so it is the one in flight in the table of the protocol.
THEOREM NoDoubleHoldAlways == Spec => []NoDoubleHold
<1>1. ASSUME DInv, NEW h \in Hosts, rec[h].status = "in_flight", rec[h].returned = "yes"
      PROVE  InFlight(rec[h].kind, <<h, rec[h].n>>) /\ <<h, rec[h].n>> \in Attempts
  <2> DEFINE kind == rec[h].kind
             n == rec[h].n
  <2>1. kind \in Kinds /\ n \in 1..MaxTries
    BY <1>1 DEF DInv, TypeOK, CallsTypeOK, Rec
  <2>2. GivenOrCut(kind, <<h, n>>)
    BY <1>1 DEF DInv, RecordsTrue
  <2>3. Has(kind, <<h, n>>, "initial")
    <3>1. CASE given[kind][<<h, n>>] > 0
      BY <1>1, <2>1, <3>1 DEF DInv, GivenMarked
    <3>2. CASE kind = "receipt" /\ OnItsWay(<<h, n>>)
      <4>1. PICK c \in Tools : call[c].pc = "return" /\ <<HostOf[c], call[c].n>> = <<h, n>>
        BY <3>2 DEF OnItsWay
      <4>2. c \in Calls /\ KindOf(c) = "receipt" /\ call[c].answer = "accepted"
        BY <1>1, <4>1, CodexAssumption DEF DInv, Returning, KindOf
      <4> QED BY <1>1, <3>2, <4>1, <4>2 DEF DInv, CallsAccepted
    <3>3. CASE kind = "receipt" /\ <<h, n>> \in cut
      BY <1>1, <3>3 DEF DInv, Returning
    <3> QED BY <2>2, <3>1, <3>2, <3>3 DEF GivenOrCut
  <2>4. \A m \in rows : m.id = <<h, n>> => m.phase = "initial"
    <3> SUFFICES ASSUME NEW m \in rows, m.id = <<h, n>>, m.phase # "initial" PROVE FALSE
      OBVIOUS
    <3>1. Past(m.id[1], m.id[2])
      BY <1>1 DEF DInv, EndsPast
    <3> QED BY <1>1, <2>1, <3>1 DEF Past
  <2>5. InFlight(kind, <<h, n>>)
    BY <2>3, <2>4 DEF InFlight, Has
  <2> QED BY <2>1, <2>5 DEF Attempts
<1>2. DInv => NoDoubleHold
  <2> SUFFICES ASSUME DInv, NEW one \in Hosts, NEW two \in Hosts,
                      rec[one].status = "in_flight", rec[one].returned = "yes",
                      rec[two].status = "in_flight", rec[two].returned = "yes",
                      rec[one].kind = rec[two].kind
               PROVE  one = two
    BY DEF NoDoubleHold
  <2>1. rec[one].kind \in Kinds
    BY DEF DInv, TypeOK, CallsTypeOK, Rec
  <2>2. <<one, rec[one].n>> = <<two, rec[two].n>>
    BY <1>1, <2>1 DEF DInv, OneInFlight
  <2> QED BY <2>2
<1> QED BY <1>2, Invariant, PTL

\* No context reaches a model before its declaration reached the server, and none
\* twice in an attempt whose record keeps a marker.
THEOREM GivenOnceAlways == Spec => []GivenOnce
<1>1. DInv => GivenOnce
  <2> SUFFICES ASSUME DInv, NEW kind \in Kinds, NEW id \in Attempts, given[kind][id] > 0
               PROVE  /\ Has(kind, id, "initial")
                      /\ given[kind][id] = 1 \/ (kind = "injection" /\ id[1] \in CodexHosts)
    BY DEF GivenOnce
  <2>1. PICK h \in Hosts, n \in 1..MaxTries : id = <<h, n>>
    BY DEF Attempts
  <2>2. Has(kind, <<h, n>>, "initial") /\ Marked(kind, h, n)
    BY <2>1 DEF DInv, GivenMarked
  <2> QED BY <2>1, <2>2 DEF Marked
<1> QED BY <1>1, Invariant, PTL

\* A delivery of the console that is reported complete did hand its context over,
\* unless the result of its tool call is still on its way or was cut off.
THEOREM AcknowledgedGivenAlways == Spec => []AcknowledgedGiven
<1>1. DInv => AcknowledgedGiven
  BY DEF DInv
<1> QED BY <1>1, Invariant, PTL

\* Events carry the task of a console Resume only where a delivery was accepted.
THEOREM ScopeBackedAlways == Spec => []ScopeBacked
<1>1. DInv => ScopeBacked
  BY DEF DInv
<1> QED BY <1>1, Invariant, PTL

-----------------------------------------------------------------------------
(* The two tables implement DeliveryOnce *)

\* The one way the tables change
Admits(m) ==
  /\ rows' = rows \cup {m} /\ ~Duplicate(m)
  /\ m.phase # "initial" => m \in outbox
  /\ m.phase = "initial" =>
       \A other \in Recorded(m.kind) \ {m.id} :
         ~Completed(m.kind, other) /\ ~InFlight(m.kind, other)

\* Only the handling of a request, at once or late, changes the tables.
LEMMA RowsMove ==
  ASSUME DInv, [Next]_vars
  PROVE  rows' = rows \/ \E m \in Row : Admits(m)
<1> DEFINE moved == rows' = rows \/ \E m \in Row : Admits(m)
<1>1. ASSUME NEW m \in Row, Record(m), m.phase # "initial" => m \in outbox PROVE moved
  BY <1>1, Accepted DEF Admits
<1>2. ASSUME Arrive PROVE moved
  <2>1. PICK m \in network \cup outbox : Record(m)
    BY <1>2 DEF Arrive
  <2>2. m \in Row /\ (m.phase # "initial" => m \in outbox)
    BY DEF DInv, TypeOK, CallsTypeOK, Message, Declares
  <2> HIDE DEF moved
  <2> QED BY <1>1, <2>1, <2>2
<1>3. ASSUME NEW c \in Calls, NEW kind \in Kinds, Answer(c, kind) PROVE moved
  <2>1. /\ Declaration(c, kind) \in Row /\ Declaration(c, kind).phase = "initial"
    BY MessageShapes DEF DInv, Declaration
  <2>2. Record(Declaration(c, kind))
    BY <1>3 DEF Answer
  <2> HIDE DEF moved
  <2> QED BY <1>1, <2>1, <2>2
<1> HIDE DEF moved
<1>4. UNCHANGED rows => moved
  BY DEF moved
<1> USE DEF vars, deliveryVars, serverVars, server
<1>5. ASSUME ServerNext PROVE moved
  BY <1>2, <1>4, <1>5 DEF ServerNext, CreatePreview, Cancel, ConsoleConfirm, SetEnabled, World, Expire
<1>6. "receipt" \in Kinds /\ "injection" \in Kinds
  BY DEF Kinds
<1>7. ASSUME NEW h, CodexNext(h, party) PROVE moved
  <2>1. ASSUME NEW c \in Tools,
               \/ TakePendingResume(c) \/ Pulled(c) \/ PendingPulled(c)
               \/ Answer(c, "receipt") \/ Lose(c, "receipt")
               \/ TakeAnswered(c) \/ MarkReturned(c) \/ HandOver(c)
               \/ Kill(c, "receipt")
        PROVE  moved
    BY <1>3, <1>4, <1>6, <2>1, CodexAssumption
       DEF TakePendingResume, Pulled, PendingPulled, Lose, TakeAnswered, MarkReturned,
           HandOver, Kill
  <2>2. ASSUME NEW k \in Hooks,
               \/ \E source : SessionStart(k, source)
               \/ PromptSubmit(k) \/ Answer(k, "injection") \/ Lose(k, "injection")
               \/ PromptAnswered(k) \/ Stop(k) \/ StopEnds(k) \/ Kill(k, "injection")
        PROVE  moved
    BY <1>3, <1>4, <1>6, <2>2, CodexAssumption
       DEF SessionStart, PromptSubmit, Lose, PromptAnswered, Stop, StopEnds, Kill
  <2>3. CASE CodexConfirm(h)
    BY <1>4, <2>3 DEF CodexConfirm
  <2> QED BY <1>7, <2>1, <2>2, <2>3 DEF CodexNext
<1>8. ASSUME NEW h, OpenClawNext(h, party) PROVE moved
  <2>1. ASSUME NEW c \in OpenClawBuilds,
               \/ BeforePromptBuild(c) \/ Pulled(c) \/ OpenClawPulled(c)
               \/ Answer(c, "injection") \/ Lose(c, "injection") \/ OpenClawAnswered(c)
        PROVE  moved
    BY <1>3, <1>4, <1>6, <2>1, OpenClawAssumption
       DEF BeforePromptBuild, Pulled, OpenClawPulled, Lose, OpenClawAnswered
  <2>2. ASSUME \/ OpenClawConfirm(h) \/ GatewayStart(h)
               \/ \E success : AgentEnd(h, success)
        PROVE  moved
    BY <1>4, <2>2 DEF OpenClawConfirm, GatewayStart, AgentEnd
  <2> QED BY <1>8, <2>1, <2>2 DEF OpenClawNext
<1>9. ASSUME NEW h, HermesNext(h, party) PROVE moved
  <2>1. ASSUME NEW c \in HermesCalls,
               \/ PreLlmCall(c) \/ Pulled(c) \/ HermesPulled(c)
               \/ Answer(c, "injection") \/ Lose(c, "injection") \/ HermesAnswered(c)
        PROVE  moved
    BY <1>3, <1>4, <1>6, <2>1, HermesAssumption
       DEF PreLlmCall, Pulled, HermesPulled, Lose, HermesAnswered
  <2>2. ASSUME \/ HermesConfirm(h) \/ Register(h)
               \/ \E success : OnSessionEnd(h, success)
        PROVE  moved
    BY <1>4, <2>2 DEF HermesConfirm, Register, OnSessionEnd
  <2> QED BY <1>9, <2>1, <2>2 DEF HermesNext
<1> QED BY <1>4, <1>5, <1>7, <1>8, <1>9 DEF Next, moved

\* A step of DeliveryOnce, or none, of the attempts of one protocol
Grants(kind, a) ==
  /\ HoldingOf(kind) = {} /\ CompletedOf(kind) = {}
  /\ HoldingOf(kind)' = {a} /\ CompletedOf(kind)' = {}
Fails(kind) ==
  /\ HoldingOf(kind) # {} /\ HoldingOf(kind)' = {}
  /\ CompletedOf(kind)' = CompletedOf(kind)
Completes(kind) ==
  /\ HoldingOf(kind) # {} /\ CompletedOf(kind) = {}
  /\ CompletedOf(kind)' = HoldingOf(kind) /\ HoldingOf(kind)' = {}
CompletesLate(kind, a) ==
  /\ HoldingOf(kind) = {} /\ CompletedOf(kind) = {}
  /\ CompletedOf(kind)' = {a} /\ HoldingOf(kind)' = HoldingOf(kind)
Rests(kind) ==
  HoldingOf(kind)' = HoldingOf(kind) /\ CompletedOf(kind)' = CompletedOf(kind)

\* A step that admits a row grants, fails or completes an attempt, or is none of
\* these: the row that comes in last decides.
LEMMA OnceMoves ==
  ASSUME DInv, DInv', [Next]_vars, NEW kind \in Kinds
  PROVE  \/ Rests(kind) \/ Fails(kind) \/ Completes(kind)
         \/ \E a \in Attempts : Grants(kind, a) \/ CompletesLate(kind, a)
<1> DEFINE H(id) == Has(kind, id, "initial")
           A(id) == Has(kind, id, "acknowledged")
           F(id) == Has(kind, id, "failed")
           H1(id) == Has(kind, id, "initial")'
           A1(id) == Has(kind, id, "acknowledged")'
           F1(id) == Has(kind, id, "failed")'
<1>1. CASE rows' = rows
  BY <1>1 DEF Rests, HoldingOf, CompletedOf, Recorded, InFlight, Completed, Has
<1>2. ASSUME NEW m \in Row, Admits(m)
      PROVE  \/ Rests(kind) \/ Fails(kind) \/ Completes(kind)
             \/ \E a \in Attempts : Grants(kind, a) \/ CompletesLate(kind, a)
  <2>0. m.kind \in Kinds /\ m.id \in Attempts /\ m.phase \in {"initial", "acknowledged", "failed"}
    BY DEF Row, Phases
  <2>1. \A id \in Attempts :
          /\ H1(id) <=> H(id) \/ (m.kind = kind /\ id = m.id /\ m.phase = "initial")
          /\ A1(id) <=> A(id) \/ (m.kind = kind /\ id = m.id /\ m.phase = "acknowledged")
          /\ F1(id) <=> F(id) \/ (m.kind = kind /\ id = m.id /\ m.phase = "failed")
    BY <1>2 DEF Has, Admits
  <2>2. \A id \in Attempts : ~(A1(id) /\ F1(id))
    <3> SUFFICES ASSUME NEW id \in Attempts, A1(id), F1(id) PROVE FALSE
      OBVIOUS
    <3>1. PICK x \in rows' : x.kind = kind /\ x.id = id /\ x.phase = "acknowledged"
      BY DEF Has
    <3>2. PICK y \in rows' : y.kind = kind /\ y.id = id /\ y.phase = "failed"
      BY DEF Has
    <3>3. {x.phase, y.phase} = {"acknowledged", "failed"}
      BY <3>1, <3>2
    <3> QED BY <3>1, <3>2, <3>3 DEF DInv, EndsOnce
  <2>3. /\ HoldingOf(kind) = {id \in Attempts : H(id) /\ ~A(id) /\ ~F(id)}
        /\ HoldingOf(kind)' = {id \in Attempts : H1(id) /\ ~A1(id) /\ ~F1(id)}
        /\ CompletedOf(kind) = {id \in Attempts : H(id) /\ A(id)}
        /\ CompletedOf(kind)' = {id \in Attempts : H1(id) /\ A1(id)}
    <3>1. rows \subseteq Row /\ rows' \subseteq Row
      BY DEF DInv, TypeOK, ServerTypeOK
    <3>2. /\ \A id : H(id) \/ A(id) => id \in Recorded(kind)
          /\ \A id : H1(id) \/ A1(id) => id \in Recorded(kind)'
          /\ Recorded(kind) \subseteq Attempts /\ Recorded(kind)' \subseteq Attempts
      BY <3>1 DEF Has, Recorded, Row
    <3>3. /\ HoldingOf(kind) = {id \in Recorded(kind) : H(id) /\ ~A(id) /\ ~F(id)}
          /\ HoldingOf(kind)' = {id \in Recorded(kind)' : H1(id) /\ ~A1(id) /\ ~F1(id)}
          /\ CompletedOf(kind) = {id \in Recorded(kind) : H(id) /\ A(id)}
          /\ CompletedOf(kind)' = {id \in Recorded(kind)' : H1(id) /\ A1(id)}
      BY DEF HoldingOf, CompletedOf, InFlight, Completed
    <3> HIDE DEF H, A, F, H1, A1, F1
    <3> QED BY <3>2, <3>3
  <2>4. /\ \A one, two \in Attempts : one \in HoldingOf(kind) /\ two \in HoldingOf(kind) => one = two
        /\ \A one, two \in Attempts : one \in CompletedOf(kind) => two \notin HoldingOf(kind)
    BY <2>3 DEF DInv, OneInFlight, CompletedOnce, InFlight, Completed
  <2>5. m.kind = kind /\ m.phase = "initial" =>
          \A id \in Attempts : id # m.id => id \notin HoldingOf(kind) /\ id \notin CompletedOf(kind)
    BY <1>2 DEF Admits, HoldingOf, CompletedOf
  <2>6. /\ m.kind = kind /\ m.phase = "initial" => ~H(m.id)
        /\ m.kind = kind /\ m.phase = "acknowledged" => ~A(m.id)
        /\ m.kind = kind /\ m.phase = "failed" => ~F(m.id)
    BY <1>2 DEF Admits, Duplicate
  <2> HIDE DEF H, A, F, H1, A1, F1
  <2>7. CASE m.kind # kind
    BY <2>1, <2>3, <2>7 DEF Rests
  <2>8. CASE m.kind = kind /\ m.phase = "initial"
    <3>1. HoldingOf(kind) = {} /\ CompletedOf(kind) = {}
      BY <2>3, <2>5, <2>6, <2>8
    <3>2. \A id \in Attempts : id # m.id => /\ id \notin HoldingOf(kind)'
                                            /\ id \notin CompletedOf(kind)'
      BY <2>1, <2>3, <2>5, <2>8
    <3>3. HoldingOf(kind)' \subseteq {m.id} /\ CompletedOf(kind)' \subseteq {m.id}
      BY <2>3, <3>2
    <3>4. CASE A(m.id)
      <4>1. CompletedOf(kind)' = {m.id} /\ HoldingOf(kind)' = {}
        BY <2>0, <2>1, <2>3, <2>8, <3>3, <3>4
      <4> QED BY <2>0, <3>1, <4>1 DEF CompletesLate
    <3>5. CASE ~A(m.id) /\ F(m.id)
      <4>1. CompletedOf(kind)' = {} /\ HoldingOf(kind)' = {}
        BY <2>0, <2>1, <2>3, <2>8, <3>3, <3>5
      <4> QED BY <3>1, <4>1 DEF Rests
    <3>6. CASE ~A(m.id) /\ ~F(m.id)
      <4>1. CompletedOf(kind)' = {} /\ HoldingOf(kind)' = {m.id}
        BY <2>0, <2>1, <2>3, <2>8, <3>3, <3>6
      <4> QED BY <2>0, <3>1, <4>1 DEF Grants
    <3> QED BY <3>4, <3>5, <3>6
  <2>9. CASE m.kind = kind /\ m.phase = "acknowledged"
    <3>1. ~F(m.id)
      BY <2>0, <2>1, <2>2, <2>9
    <3>2. CASE H(m.id)
      <4>1. HoldingOf(kind) = {m.id} /\ CompletedOf(kind) = {}
        BY <2>0, <2>3, <2>4, <2>6, <2>9, <3>1, <3>2
      <4>2. HoldingOf(kind)' = {} /\ CompletedOf(kind)' = {m.id}
        BY <2>0, <2>1, <2>3, <2>9, <3>2, <4>1
      <4> QED BY <4>1, <4>2 DEF Completes
    <3>3. CASE ~H(m.id)
      BY <2>1, <2>3, <2>9, <3>3 DEF Rests
    <3> QED BY <3>2, <3>3
  <2>10. CASE m.kind = kind /\ m.phase = "failed"
    <3>1. ~A(m.id)
      BY <2>0, <2>1, <2>2, <2>10
    <3>2. CompletedOf(kind)' = CompletedOf(kind)
      BY <2>1, <2>3, <2>10
    <3>3. CASE H(m.id)
      <4>1. HoldingOf(kind) = {m.id}
        BY <2>0, <2>3, <2>4, <2>6, <2>10, <3>1, <3>3
      <4>2. HoldingOf(kind)' = {}
        BY <2>0, <2>1, <2>3, <2>10, <4>1
      <4> QED BY <3>2, <4>1, <4>2 DEF Fails
    <3>4. CASE ~H(m.id)
      BY <2>1, <2>3, <2>10, <3>4 DEF Rests
    <3> QED BY <3>3, <3>4
  <2> QED BY <2>0, <2>7, <2>8, <2>9, <2>10
<1> QED BY <1>1, <1>2, RowsMove

\* The server implements DeliveryOnce in both protocols: through lost answers,
\* late and repeated requests, crashes and retries, for every set of hosts and
\* calls and every bound, a Resume is delivered once.
THEOREM Refinement == Spec => DeliveredOnce
<1>0. "receipt" \in Kinds /\ "injection" \in Kinds
  BY DEF Kinds
<1>1. Init => Receipts!Init /\ Injections!Init
  BY DEF Init, ServerInit, Receipts!Init, Injections!Init, HoldingOf, CompletedOf, Recorded
<1>2. DInv /\ DInv' /\ [Next]_vars => [Receipts!Next]_(Receipts!vars)
  BY <1>0, OnceMoves
     DEF Rests, Fails, Completes, Grants, CompletesLate, Receipts!Next, Receipts!vars,
         Receipts!Grant, Receipts!Fail, Receipts!Complete, Receipts!CompleteLate
<1>3. DInv /\ DInv' /\ [Next]_vars => [Injections!Next]_(Injections!vars)
  BY <1>0, OnceMoves
     DEF Rests, Fails, Completes, Grants, CompletesLate, Injections!Next, Injections!vars,
         Injections!Grant, Injections!Fail, Injections!Complete, Injections!CompleteLate
<1> QED BY <1>1, <1>2, <1>3, Invariant, PTL DEF Spec, DeliveredOnce, Receipts!Spec, Injections!Spec

===============================================================================
