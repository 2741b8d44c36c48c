--------------------------- MODULE TaskStoreProofs ----------------------------
(***************************************************************************)
(* The central store keeps its histories, for every set of tasks,          *)
(* projects, callers and requests, and every interleaving of their steps   *)
(* with crashes and lifecycle changes: the properties TaskStore states.    *)
(*                                                                         *)
(* Two facts carry the rest.  Whoever revises a task was shown its present *)
(* content (CallOK, Based): he remembers a version together with what he   *)
(* saw, what he saw is the content as long as the version lasts, and every *)
(* UPDATE names the version.  And nothing takes effect on an authority     *)
(* that a lifecycle change has outdated: who computes something remembers  *)
(* the generation it observed first, and the row is compared with the      *)
(* generation in the transaction that uses it.                             *)
(*                                                                         *)
(* StoreInv is the invariant.  The lemmas RowStep, ReviseStep and          *)
(* CaptureStepped say, by what a step writes, what makes it Lawful, that   *)
(* is keep StoreInv and satisfy both action properties; there is one       *)
(* lemma per action after them.                                            *)
(***************************************************************************)
EXTENDS TaskStore, TLAPS, FiniteSetTheorems, WellFoundedInduction, SequenceTheorems

-----------------------------------------------------------------------------
(* Projects resolve: each chain of merges leads, within the depth the code   *)
(* follows, to a project that is not merged.  The code follows at most       *)
(* MaxDepth links, and a merge makes the chain of every project that leads   *)
(* to its source one link longer.  Resolvable is kept because a merge leads  *)
(* from one canonical project to another, which does not lead back, and is   *)
(* refused when a member of the source would lie too deep.                   *)
(*                                                                           *)
(* Reach is a recursive function: Solution shows that its equation has a     *)
(* solution and ReachFollows that Reach is one; what is shown of chains uses *)
(* the equation alone.                                                       *)

\* Every set of natural numbers has a least element.
LEMMA Least ==
  ASSUME NEW T \in SUBSET Nat, T # {}
  PROVE  \E x \in T : \A y \in T : x <= y
<1>1. \E R : IsWellFoundedOn(R, Nat) /\ R = {ss \in Nat \X Nat : ss[1] < ss[2]}
  BY NatLessThanWellFounded DEF OpToRel
<1>2. PICK R : IsWellFoundedOn(R, Nat) /\ R = {ss \in Nat \X Nat : ss[1] < ss[2]}
  BY <1>1
<1>3. PICK x \in T : \A y \in T : ~ (<<y, x>> \in R)
  BY <1>2, WFMin
<1>4. \A y \in T : ~(y < x)
  BY <1>2, <1>3
<1> QED BY <1>4

\* What holds of 0, and of n + 1 where it holds of n, holds of all numbers.
LEMMA Induction ==
  ASSUME NEW S, 0 \in S, \A n \in Nat : n \in S => n + 1 \in S
  PROVE  Nat \subseteq S
<1> SUFFICES ASSUME Nat \ S # {} PROVE FALSE
  OBVIOUS
<1>1. PICK x \in Nat \ S : \A y \in Nat \ S : x <= y
  BY Least
<1>2. x # 0 /\ x - 1 \in Nat
  OBVIOUS
<1>3. x - 1 \in S
  BY <1>1, <1>2
<1> QED BY <1>1, <1>2, <1>3

-----------------------------------------------------------------------------
(* Chains of merges, in a table lf of life cycles *)

Onward(lf, q) == IF lf[q].state = "merged" THEN lf[q].into ELSE q
Body(lf, f, n) == [p \in Projects |-> IF n = 0 THEN p ELSE Onward(lf, f[n - 1][p])]
Follows(lf, R) == R = [n \in 0..MaxDepth |-> Body(lf, R, n)]

\* The recursive definition of Reach has a solution.
LEMMA Solution ==
  ASSUME NEW lf
  PROVE  \E R : Follows(lf, R)
<1> DEFINE Good(m) == \E g : g = [n \in 0..m |-> Body(lf, g, n)]
           S == {m \in Nat : Good(m)}
<1>1. Good(0)
  <2> DEFINE g == [n \in 0..0 |-> [p \in Projects |-> p]]
  <2>1. g = [n \in 0..0 |-> Body(lf, g, n)]
    BY DEF Body
  <2> QED BY <2>1
<1>2. ASSUME NEW m \in Nat, Good(m) PROVE Good(m + 1)
  <2>1. PICK g : g = [n \in 0..m |-> Body(lf, g, n)]
    BY <1>2
  <2> DEFINE h == [n \in 0..(m + 1) |-> IF n = m + 1 THEN Body(lf, g, n) ELSE g[n]]
  <2>2. \A n \in 0..m : h[n] = g[n]
    OBVIOUS
  <2>3. ASSUME NEW n \in 0..(m + 1) PROVE h[n] = Body(lf, h, n)
    <3>1. CASE n = 0
      <4>1. h[n] = g[n] /\ g[n] = Body(lf, g, n)
        BY <2>1, <2>2, <3>1
      <4> QED BY <3>1, <4>1 DEF Body
    <3>2. CASE n # 0
      <4>1. n - 1 \in 0..m
        BY <3>2
      <4>2. h[n - 1] = g[n - 1]
        BY <2>2, <4>1
      <4>3. h[n] = Body(lf, g, n)
        BY <2>1
      <4>4. Body(lf, g, n) = Body(lf, h, n)
        <5> HIDE DEF h
        <5> QED BY <3>2, <4>2 DEF Body
      <4> QED BY <4>3, <4>4
    <3> QED BY <3>1, <3>2
  <2>4. h = [n \in 0..(m + 1) |-> Body(lf, h, n)]
    <3>1. h = [n \in 0..(m + 1) |-> h[n]]
      OBVIOUS
    <3> HIDE DEF h
    <3> QED BY <2>3, <3>1
  <2> HIDE DEF h
  <2> QED BY <2>4
<1>3. Nat \subseteq S
  <2>1. 0 \in S
    BY <1>1
  <2>2. \A n \in Nat : n \in S => n + 1 \in S
    BY <1>2
  <2> HIDE DEF S
  <2> QED BY <2>1, <2>2, Induction
<1>4. Good(MaxDepth)
  BY <1>3, TreeAssumption
<1> QED BY <1>4 DEF Follows

\* So Reach does what it says, before a step and after it.
LEMMA ReachFollows == Follows(life, Reach) /\ Follows(life', Reach')
<1>1. Reach = CHOOSE f : f = [n \in 0..MaxDepth |-> Body(life, f, n)]
  BY DEF Reach, Body, Onward
<1>2. Reach' = CHOOSE f : f = [n \in 0..MaxDepth |-> Body(life', f, n)]
  BY DEF Reach, Body, Onward
<1>3. \E f : f = [n \in 0..MaxDepth |-> Body(life, f, n)]
  BY Solution DEF Follows
<1>4. \E f : f = [n \in 0..MaxDepth |-> Body(life', f, n)]
  BY Solution DEF Follows
<1>5. Reach = [n \in 0..MaxDepth |-> Body(life, Reach, n)]
  BY <1>1, <1>3
<1>6. Reach' = [n \in 0..MaxDepth |-> Body(life', Reach', n)]
  BY <1>2, <1>4
<1> QED BY <1>5, <1>6 DEF Follows

Links(lf) ==
  \A p \in Projects : lf[p].state = "merged" => lf[p].into \in Projects

\* A chain starts at its project, goes on one merge at a time, and stays at the
\* first project that was not merged.
LEMMA Chains ==
  ASSUME NEW lf, NEW R, Follows(lf, R), Links(lf), NEW p \in Projects
  PROVE  /\ R[0][p] = p
         /\ \A n \in 0..MaxDepth : R[n][p] \in Projects
         /\ \A n \in 0..MaxDepth : n # 0 => R[n][p] = Onward(lf, R[n - 1][p])
         /\ \A n \in 0..MaxDepth : lf[R[n][p]].state # "merged" =>
              \A m \in n..MaxDepth : R[m][p] = R[n][p]
<1>1. \A n \in 0..MaxDepth : R[n][p] = IF n = 0 THEN p ELSE Onward(lf, R[n - 1][p])
  <2> SUFFICES ASSUME NEW n \in 0..MaxDepth
               PROVE  R[n][p] = IF n = 0 THEN p ELSE Onward(lf, R[n - 1][p])
    OBVIOUS
  <2>1. R[n] = Body(lf, R, n)
    BY DEF Follows
  <2> QED BY <2>1 DEF Body
<1>2. 0 \in 0..MaxDepth
  BY TreeAssumption
<1>3. \A n \in 0..MaxDepth : R[n][p] \in Projects
  <2> DEFINE S == {n \in Nat : n \in 0..MaxDepth => R[n][p] \in Projects}
  <2>1. 0 \in S
    BY <1>1, <1>2
  <2>2. ASSUME NEW n \in Nat, n \in S PROVE n + 1 \in S
    <3> SUFFICES ASSUME n + 1 \in 0..MaxDepth PROVE R[n + 1][p] \in Projects
      OBVIOUS
    <3>1. n \in 0..MaxDepth /\ R[n][p] \in Projects
      BY <2>2, TreeAssumption
    <3>2. R[n + 1][p] = Onward(lf, R[n][p])
      BY <1>1
    <3> QED BY <3>1, <3>2 DEF Onward, Links
  <2>3. Nat \subseteq S
    <3> HIDE DEF S
    <3> QED BY <2>1, <2>2, Induction
  <2> QED BY <2>3, TreeAssumption
<1>4. ASSUME NEW n \in 0..MaxDepth, lf[R[n][p]].state # "merged"
      PROVE  \A m \in n..MaxDepth : R[m][p] = R[n][p]
  <2> DEFINE S == {k \in Nat : n + k \in n..MaxDepth => R[n + k][p] = R[n][p]}
  <2>1. 0 \in S
    <3>1. n + 0 = n
      BY TreeAssumption
    <3> QED BY <3>1
  <2>2. ASSUME NEW k \in Nat, k \in S PROVE k + 1 \in S
    <3> SUFFICES ASSUME n + (k + 1) \in n..MaxDepth PROVE R[n + (k + 1)][p] = R[n][p]
      OBVIOUS
    <3>1. /\ n + k \in n..MaxDepth /\ n + (k + 1) \in 0..MaxDepth
          /\ n + (k + 1) # 0 /\ (n + (k + 1)) - 1 = n + k
      BY TreeAssumption
    <3>2. R[n + k][p] = R[n][p]
      BY <2>2, <3>1
    <3>3. R[n + (k + 1)][p] = Onward(lf, R[(n + (k + 1)) - 1][p])
      BY <1>1, <3>1
    <3>4. R[n + (k + 1)][p] = Onward(lf, R[n][p])
      BY <3>1, <3>2, <3>3
    <3> QED BY <1>4, <3>4 DEF Onward
  <2>3. Nat \subseteq S
    <3> HIDE DEF S
    <3> QED BY <2>1, <2>2, Induction
  <2>4. ASSUME NEW m \in n..MaxDepth PROVE R[m][p] = R[n][p]
    <3>1. m - n \in Nat /\ n + (m - n) = m
      BY TreeAssumption
    <3>2. m - n \in S
      BY <2>3, <3>1
    <3> QED BY <3>1, <3>2
  <2> QED BY <2>4
<1>5. \A n \in 0..MaxDepth : n # 0 => R[n][p] = Onward(lf, R[n - 1][p])
  BY <1>1
<1> QED BY <1>1, <1>2, <1>3, <1>4, <1>5

\* Two tables that lead on alike along a chain have it in common.
LEMMA Agree ==
  ASSUME NEW lf, NEW R, Follows(lf, R), Links(lf), NEW lg, NEW Q, Follows(lg, Q), Links(lg),
         NEW p \in Projects, NEW d \in 0..MaxDepth,
         \A k \in 0..MaxDepth : k < d => Onward(lg, R[k][p]) = Onward(lf, R[k][p])
  PROVE  \A n \in 0..d : Q[n][p] = R[n][p]
<1> DEFINE S == {n \in Nat : n \in 0..d => Q[n][p] = R[n][p]}
<1>1. 0 \in S
  BY Chains
<1>2. ASSUME NEW n \in Nat, n \in S PROVE n + 1 \in S
  <2> SUFFICES ASSUME n + 1 \in 0..d PROVE Q[n + 1][p] = R[n + 1][p]
    OBVIOUS
  <2>1. n \in 0..MaxDepth /\ n < d /\ n + 1 \in 0..MaxDepth /\ n + 1 # 0 /\ (n + 1) - 1 = n
    BY TreeAssumption
  <2>2. Q[n][p] = R[n][p]
    BY <1>2, <2>1
  <2>3. R[n + 1][p] = Onward(lf, R[(n + 1) - 1][p]) /\ Q[n + 1][p] = Onward(lg, Q[(n + 1) - 1][p])
    BY <2>1, Chains
  <2> QED BY <2>1, <2>2, <2>3
<1>3. Nat \subseteq S
  <2> HIDE DEF S
  <2> QED BY <1>1, <1>2, Induction
<1> QED BY <1>3, TreeAssumption

-----------------------------------------------------------------------------
(* The invariant *)

\* A project that is not there has no life cycle yet, and a merge names a target.
UnownedActive == \A p \in Projects : ~Owned(p) => life[p] = Active
TreeInv == TreeTypeOK /\ Links(life) /\ UnownedActive /\ Resolvable

\* The canonical project of a project is one that is not merged, and its own
\* canonical project; who has not been merged, or was never made, is its own.
LEMMA CanonicalFacts ==
  ASSUME TreeInv, NEW p \in Projects
  PROVE  /\ Canonical(p) \in Projects
         /\ life[p].state # "merged" => Canonical(p) = p
         /\ ~Owned(p) => Canonical(p) = p
         /\ life[Canonical(p)].state # "merged"
         /\ Canonical(Canonical(p)) = Canonical(p)
         /\ Owned(p) => Owned(Canonical(p))
<1>0. Follows(life, Reach) /\ Links(life) /\ MaxDepth \in 0..MaxDepth /\ 0 \in 0..MaxDepth
  BY ReachFollows, TreeAssumption DEF TreeInv
<1>1. Canonical(p) \in Projects
  BY <1>0, Chains DEF Canonical
<1>2. ASSUME NEW q \in Projects, life[q].state # "merged" PROVE Canonical(q) = q
  <2>1. Reach[0][q] = q
    BY <1>0, Chains
  <2>2. MaxDepth \in 0..MaxDepth
    BY <1>0
  <2> QED BY <1>0, <1>2, <2>1, <2>2, Chains DEF Canonical
<1>3. ~Owned(p) => life[p].state # "merged"
  BY DEF TreeInv, UnownedActive, Active
<1>4. life[Canonical(p)].state # "merged"
  <2>1. CASE Owned(p)
    BY <2>1 DEF TreeInv, Resolvable, Resolves
  <2>2. CASE ~Owned(p)
    BY <1>2, <1>3, <2>2
  <2> QED BY <2>1, <2>2
<1>5. Owned(p) => Owned(Canonical(p))
  BY DEF TreeInv, Resolvable
<1> QED BY <1>1, <1>2, <1>3, <1>4, <1>5

\* A step that leaves a chain alone up to its d-th project.
LEMMA SameChain ==
  ASSUME Links(life), Links(life'), NEW p \in Projects, NEW d \in 0..MaxDepth,
         \A k \in 0..MaxDepth : k < d => Onward(life', Reach[k][p]) = Onward(life, Reach[k][p])
  PROVE  \A n \in 0..d : Reach'[n][p] = Reach[n][p]
<1>1. Follows(life, Reach) /\ Follows(life', Reach')
  BY ReachFollows
<1> QED BY <1>1, Agree

\* A project resolves to the first of its chain that is not merged after the step.
LEMMA Settled ==
  ASSUME Links(life'), NEW p \in Projects, NEW n \in 0..MaxDepth, life'[Reach'[n][p]].state # "merged"
  PROVE  Canonical(p)' = Reach'[n][p]
<1>1. Follows(life', Reach') /\ MaxDepth \in n..MaxDepth
  BY ReachFollows, TreeAssumption
<1> QED BY <1>1, Chains DEF Canonical

\* Merges made and undone aside, projects resolve as before.
LEMMA SameCanonical ==
  ASSUME Links(life), Links(life'), NEW p \in Projects,
         \A q \in Projects : Onward(life', q) = Onward(life, q)
  PROVE  Canonical(p)' = Canonical(p)
<1>1. Follows(life, Reach) /\ Follows(life', Reach') /\ MaxDepth \in 0..MaxDepth
  BY ReachFollows, TreeAssumption
<1>2. \A k \in 0..MaxDepth : Reach[k][p] \in Projects
  BY <1>1, Chains
<1>3. \A n \in 0..MaxDepth : Reach'[n][p] = Reach[n][p]
  BY <1>1, <1>2, Agree
<1> QED BY <1>1, <1>3 DEF Canonical

\* The members of a project are finitely many.
LEMMA MembersFinite ==
  ASSUME NEW S \in SUBSET Projects
  PROVE  IsFiniteSet(S) /\ Cardinality(S) \in Nat
BY TreeAssumption, FS_Subset, FS_CardinalityType

\* A write that leaves the projects and their life cycles alone.
LEMMA TreeKept ==
  ASSUME TreeInv, UNCHANGED <<names, life>>, TreeTypeOK'
  PROVE  TreeInv'
<1>1. \A p \in Projects : Canonical(p)' = Canonical(p)
  BY SameCanonical DEF TreeInv
<1>2. \A p \in Projects : (Owned(p))' <=> Owned(p)
  BY DEF Owned
<1>3. \A c : Members(c)' = Members(c)
  BY <1>1, <1>2 DEF Members
<1>4. \A p \in Projects : Owned(p) => life[Canonical(p)].state # "merged" /\ Owned(Canonical(p))
                                      /\ Cardinality(Members(Canonical(p))) - 1 <= MaxMembers
  BY DEF TreeInv, Resolvable, Resolves
<1>5. Resolvable'
  <2> SUFFICES ASSUME NEW p \in Projects, Owned(p)'
               PROVE  /\ life[Canonical(p)'].state # "merged" /\ names[Canonical(p)'] # None
                      /\ Cardinality(Members(Canonical(p))') - 1 <= MaxMembers
    BY DEF Resolvable, Resolves, Owned
  <2>1. Canonical(p)' = Canonical(p) /\ Owned(p)
    BY <1>1, <1>2
  <2>2. Members(Canonical(p))' = {q \in Projects : Owned(q)' /\ Canonical(q)' = Canonical(p)'}
    BY DEF Members
  <2>3. Members(Canonical(p))' = Members(Canonical(p))
    BY <1>1, <1>2, <2>1, <2>2 DEF Members
  <2> QED BY <1>4, <2>1, <2>3 DEF Owned
<1> QED BY <1>5 DEF TreeInv, Links, UnownedActive, Owned

\* A project is made, or renamed.
LEMMA TreeNamed ==
  ASSUME TreeInv, NEW p \in Projects, NEW name \in Projects,
         names' = [names EXCEPT ![p] = name], life' = life, TreeTypeOK'
  PROVE  TreeInv'
<1>0. /\ \A q \in Projects : Canonical(q)' = Canonical(q)
      /\ names \in [Projects -> Projects \cup {None}] /\ None \notin Projects
  BY SameCanonical, TreeAssumption DEF TreeInv, TreeTypeOK
<1>1. \A q \in Projects : Owned(q)' <=> Owned(q) \/ q = p
  BY <1>0 DEF Owned
<1>2. UnownedActive'
  BY <1>1 DEF TreeInv, UnownedActive
<1>3. Resolvable'
  <2> SUFFICES ASSUME NEW q \in Projects, Owned(q)'
               PROVE  /\ life[Canonical(q)].state # "merged" /\ Owned(Canonical(q))'
                      /\ Cardinality(Members(Canonical(q))') - 1 <= MaxMembers
    <3> SUFFICES ASSUME NEW q \in Projects, Owned(q)'
                 PROVE  /\ life'[Canonical(q)'].state # "merged" /\ names'[Canonical(q)'] # None
                        /\ Cardinality(Members(Canonical(q))') - 1 <= MaxMembers
      BY DEF Resolvable, Resolves, Owned
    <3>1. Canonical(q)' = Canonical(q)
      BY <1>0
    <3>2. /\ life[Canonical(q)].state # "merged" /\ Owned(Canonical(q))'
          /\ Cardinality(Members(Canonical(q))') - 1 <= MaxMembers
      OBVIOUS
    <3> QED BY <3>1, <3>2 DEF Owned
  <2>1. /\ Canonical(q) \in Projects /\ life[Canonical(q)].state # "merged"
        /\ Owned(q) => Owned(Canonical(q))
        /\ ~Owned(q) => Canonical(q) = q
    BY CanonicalFacts
  <2>2. Owned(Canonical(q))'
    BY <1>0, <1>1, <2>1 DEF Owned
  <2>3. Members(Canonical(q))' = {x \in Projects : (Owned(x) \/ x = p) /\ Canonical(x) = Canonical(q)}
    BY <1>0, <1>1 DEF Members
  <2>4. CASE Owned(p) \/ Canonical(q) # p
    <3>1. Owned(q) \/ Canonical(q) = p
      BY <1>1, <2>1
    <3>2. Owned(q)
      BY <1>1, <2>4, <3>1
    <3>3. ~Owned(p) => Canonical(p) = p
      BY CanonicalFacts
    <3>4. Members(Canonical(q))' = Members(Canonical(q))
      BY <2>3, <2>4, <3>3 DEF Members
    <3> QED BY <2>1, <2>2, <3>2, <3>4 DEF TreeInv, Resolvable
  <2>5. CASE ~Owned(p) /\ Canonical(q) = p
    <3>1. \A x \in Projects : Owned(x) => Canonical(x) # p
      BY <2>5, CanonicalFacts
    <3>2. Canonical(p) = p
      BY <2>5, CanonicalFacts
    <3>3. Members(Canonical(q))' = {p}
      BY <2>3, <2>5, <3>1, <3>2
    <3>4. Cardinality({p}) = 1
      BY FS_Singleton
    <3> QED BY <2>1, <2>2, <3>3, <3>4, TreeAssumption
  <2> QED BY <2>4, <2>5
<1> QED BY <1>2, <1>3 DEF TreeInv

\* A deletion or a restoration: the chains stay.
LEMMA TreeToggled ==
  ASSUME TreeInv, NEW p \in Projects, Owned(p), life[p].state # "merged",
         NEW row, row.state # "merged",
         life' = [life EXCEPT ![p] = row], names' = names, TreeTypeOK'
  PROVE  TreeInv'
<1>0. life \in [Projects -> [state : {"active", "deleted", "merged"}, into : Projects \cup {None}]]
  BY DEF TreeInv, TreeTypeOK
<1>1. \A q \in Projects : life'[q] = IF q = p THEN row ELSE life[q]
  BY <1>0
<1>2. Links(life')
  BY <1>1 DEF TreeInv, Links
<1>3. \A q \in Projects : Onward(life', q) = Onward(life, q)
  BY <1>1 DEF Onward
<1>4. \A q \in Projects : Canonical(q)' = Canonical(q)
  BY <1>2, <1>3, SameCanonical DEF TreeInv
<1>5. \A q \in Projects : Owned(q)' <=> Owned(q)
  BY DEF Owned
<1>6. UnownedActive'
  BY <1>1, <1>5 DEF TreeInv, UnownedActive
<1>7. Resolvable'
  <2> SUFFICES ASSUME NEW q \in Projects, Owned(q)'
               PROVE  /\ life'[Canonical(q)'].state # "merged" /\ names'[Canonical(q)'] # None
                      /\ Cardinality(Members(Canonical(q))') - 1 <= MaxMembers
    BY DEF Resolvable, Resolves, Owned
  <2>1. /\ Canonical(q)' = Canonical(q) /\ Canonical(q) \in Projects
        /\ life[Canonical(q)].state # "merged" /\ Owned(Canonical(q)) /\ Owned(q)
    BY <1>4, <1>5, CanonicalFacts
  <2>2. Members(Canonical(q))' = Members(Canonical(q))
    BY <1>4, <1>5, <2>1 DEF Members
  <2>3. Cardinality(Members(Canonical(q))) - 1 <= MaxMembers
    BY <2>1 DEF TreeInv, Resolvable
  <2> QED BY <1>1, <2>1, <2>2, <2>3 DEF Owned
<1> QED BY <1>2, <1>6, <1>7 DEF TreeInv

\* A merge within the limits: the members of the source follow it, the others stay.
LEMMA TreeMerged ==
  ASSUME TreeInv, NEW p \in Projects, NEW q \in Projects, Subject("merge", p, q),
         life' = [life EXCEPT ![p] = [state |-> "merged", into |-> q]], names' = names, TreeTypeOK'
  PROVE  TreeInv'
<1>0. /\ life \in [Projects -> [state : {"active", "deleted", "merged"}, into : Projects \cup {None}]]
      /\ MaxDepth \in Nat /\ MaxMembers \in Nat
  BY TreeAssumption DEF TreeInv, TreeTypeOK
<1>1. /\ \A x \in Projects : life'[x] = IF x = p THEN [state |-> "merged", into |-> q] ELSE life[x]
      /\ p # q /\ Owned(p) /\ Owned(q) /\ Canonical(p) = p /\ Canonical(q) = q
      /\ life[p].state = "active"
      /\ Cardinality(Members(q)) - 1 + Cardinality(Members(p)) <= MaxMembers
      /\ \A m \in Members(p) : DepthTo(m, p) + 1 <= MaxDepth
  BY <1>0 DEF Subject, IsCanonical, Live
<1>2. Links(life')
  BY <1>1 DEF TreeInv, Links
<1>3. /\ Follows(life, Reach) /\ Follows(life', Reach') /\ Links(life)
      /\ MaxDepth \in 0..MaxDepth /\ 0 \in 0..MaxDepth
  BY <1>0, ReachFollows DEF TreeInv
<1>4. \A x \in Projects : x # p => Onward(life', x) = Onward(life, x)
  BY <1>1 DEF Onward
<1>5. life[q].state # "merged" /\ life'[q].state # "merged"
  BY <1>1, CanonicalFacts
\* A chain that does not end in the source never passes through it.
<1>6. ASSUME NEW x \in Projects, Canonical(x) # p PROVE Canonical(x)' = Canonical(x)
  <2>1. \A k \in 0..MaxDepth : Reach[k][x] # p
    <3> SUFFICES ASSUME NEW k \in 0..MaxDepth, Reach[k][x] = p PROVE FALSE
      OBVIOUS
    <3>1. MaxDepth \in k..MaxDepth
      BY <1>0
    <3>2. Reach[MaxDepth][x] = Reach[k][x]
      BY <1>1, <1>3, <3>1, Chains
    <3> QED BY <1>6, <3>2 DEF Canonical
  <2>2. \A k \in 0..MaxDepth : Reach[k][x] \in Projects
    BY <1>3, Chains
  <2>3. \A n \in 0..MaxDepth : Reach'[n][x] = Reach[n][x]
    <3>1. \A k \in 0..MaxDepth : k < MaxDepth => Onward(life', Reach[k][x]) = Onward(life, Reach[k][x])
      BY <1>4, <2>1, <2>2
    <3> QED BY <1>2, <1>3, <3>1, SameChain
  <2> QED BY <1>3, <2>3 DEF Canonical
\* One that does takes one more step.
<1>7. ASSUME NEW x \in Projects, Owned(x), Canonical(x) = p PROVE Canonical(x)' = q
  <2> DEFINE D == {n \in 0..MaxDepth : Reach[n][x] = p}
  <2>1. PICK d \in D : \A n \in D : d <= n
    <3>1. MaxDepth \in D /\ D \in SUBSET Nat
      BY <1>3, <1>7 DEF Canonical
    <3> HIDE DEF D
    <3> QED BY <3>1, Least
  <2>2. d \in 0..MaxDepth /\ Reach[d][x] = p /\ \A k \in 0..MaxDepth : k < d => Reach[k][x] # p
    <3>1. \A k \in 0..MaxDepth : k < d => k \notin D
      BY <2>1, <1>0
    <3> QED BY <2>1, <3>1
  <2>3. DepthTo(x, p) = d
    <3> DEFINE P(n) == Reach[n][x] = p /\ \A k \in 0..(n - 1) : Reach[k][x] # p
    <3>1. P(d)
      <4>1. \A k \in 0..(d - 1) : k \in 0..MaxDepth /\ k < d
        BY <2>2, <1>0
      <4> QED BY <2>2, <4>1
    <3>2. \A n \in 0..MaxDepth : P(n) => n = d
      <4> SUFFICES ASSUME NEW n \in 0..MaxDepth, P(n), n # d PROVE FALSE
        OBVIOUS
      <4>1. ~(n < d)
        BY <2>2
      <4>2. d \in 0..(n - 1)
        BY <1>0, <2>2, <4>1
      <4> QED BY <2>2, <4>2
    <3>3. DepthTo(x, p) = CHOOSE n \in 0..MaxDepth : P(n)
      BY DEF DepthTo
    <3> HIDE DEF P
    <3> QED BY <2>2, <3>1, <3>2, <3>3
  <2>4. x \in Members(p)
    BY <1>7 DEF Members
  <2>5. d + 1 \in 0..MaxDepth /\ d \in 0..d
    BY <1>0, <1>1, <2>2, <2>3, <2>4
  <2>6. \A k \in 0..MaxDepth : Reach[k][x] \in Projects
    BY <1>3, Chains
  <2>7. \A n \in 0..d : Reach'[n][x] = Reach[n][x]
    <3>1. \A k \in 0..MaxDepth : k < d => Onward(life', Reach[k][x]) = Onward(life, Reach[k][x])
      BY <1>4, <2>2, <2>6
    <3> QED BY <1>2, <1>3, <2>2, <3>1, SameChain
  <2>8. Reach'[d + 1][x] = q
    <3>1. Reach'[d][x] = p
      BY <2>2, <2>5, <2>7
    <3>2. d + 1 # 0 /\ (d + 1) - 1 = d
      BY <1>0, <2>2
    <3>3. Reach'[d + 1][x] = Onward(life', Reach'[(d + 1) - 1][x])
      BY <1>2, <1>3, <2>5, <3>2, Chains
    <3> QED BY <1>1, <3>1, <3>2, <3>3 DEF Onward
  <2> QED BY <1>2, <1>5, <2>5, <2>8, Settled
<1>8. \A x \in Projects : Owned(x)' <=> Owned(x)
  BY DEF Owned
<1>9. UnownedActive'
  BY <1>1, <1>8 DEF TreeInv, UnownedActive
<1>10. Members(q)' = Members(q) \cup Members(p)
  BY <1>1, <1>6, <1>7, <1>8 DEF Members
<1>11. Cardinality(Members(q)') - 1 <= MaxMembers
  <2>1. Members(q) \cap Members(p) = {} /\ Members(q) \in SUBSET Projects /\ Members(p) \in SUBSET Projects
    BY <1>1 DEF Members
  <2>2. /\ IsFiniteSet(Members(q)) /\ Cardinality(Members(q)) \in Nat
        /\ IsFiniteSet(Members(p)) /\ Cardinality(Members(p)) \in Nat
    BY <2>1, MembersFinite
  <2>3. Cardinality(Members(q) \cup Members(p)) = Cardinality(Members(q)) + Cardinality(Members(p)) - 0
    <3>1. Cardinality(Members(q) \cup Members(p)) = Cardinality(Members(q)) + Cardinality(Members(p))
                                                        - Cardinality(Members(q) \cap Members(p))
      BY ONLY <2>2, FS_Union
    <3> QED BY <2>1, <2>2, <3>1, FS_EmptySet
  <2> QED BY <1>0, <1>1, <1>10, <2>2, <2>3
<1>12. ASSUME NEW x \in Projects, Owned(x), Canonical(x) # p, Canonical(x) # q
       PROVE  Members(Canonical(x))' = Members(Canonical(x))
  <2>1. Canonical(x)' = Canonical(x)
    BY <1>6, <1>12
  <2>2. Members(Canonical(x))' = {y \in Projects : Owned(y)' /\ Canonical(y)' = Canonical(x)'}
    BY DEF Members
  <2>3. \A y \in Projects : Owned(y) => (Canonical(y)' = Canonical(x) <=> Canonical(y) = Canonical(x))
    BY <1>6, <1>7, <1>12
  <2> QED BY <1>8, <2>1, <2>2, <2>3 DEF Members
<1>13. Resolvable'
  <2> SUFFICES ASSUME NEW x \in Projects, Owned(x)'
               PROVE  /\ life'[Canonical(x)'].state # "merged" /\ names'[Canonical(x)'] # None
                      /\ Cardinality(Members(Canonical(x))') - 1 <= MaxMembers
    BY DEF Resolvable, Resolves, Owned
  <2>1. Owned(x) /\ Canonical(x) \in Projects /\ life[Canonical(x)].state # "merged" /\ Owned(Canonical(x))
    BY <1>8, CanonicalFacts
  <2>2. CASE Canonical(x) = p \/ Canonical(x) = q
    <3>1. Canonical(x)' = q
      BY <1>1, <1>6, <1>7, <2>1, <2>2
    <3>2. Members(Canonical(x))' = Members(q)'
      BY <3>1 DEF Members
    <3> QED BY <1>1, <1>5, <1>11, <3>1, <3>2 DEF Owned
  <2>3. CASE Canonical(x) # p /\ Canonical(x) # q
    <3>1. Canonical(x)' = Canonical(x) /\ Members(Canonical(x))' = Members(Canonical(x))
      BY <1>6, <1>12, <2>1, <2>3
    <3>2. Cardinality(Members(Canonical(x))) - 1 <= MaxMembers
      BY <2>1 DEF TreeInv, Resolvable
    <3> QED BY <1>1, <2>1, <2>3, <3>1, <3>2 DEF Owned
  <2> QED BY <2>2, <2>3
<1> QED BY <1>2, <1>9, <1>13 DEF TreeInv

-----------------------------------------------------------------------------
(* Types, and what a row and a call remember *)

Flags == {"yes", "no"}
Shown == Contents \cup {NoContent}
Authors == [source : Sources, id : Nat]
RevisionRows == [task : Tasks, from : Versions, to : Versions, before : Shown, after : Contents,
                 by : Authors, saw : Shown]
Drafts == [task : Tasks, base : Versions, ops : SUBSET Operations, sources : SUBSET Nat,
           bound : Nat, read : Nat, saw : Contents]
ProposalRows == [task : Tasks, base : Versions, ops : SUBSET Operations, sources : SUBSET Nat,
                 bound : Nat, read : Nat, saw : Contents,
                 status : {"awaiting", "no_effect", "superseded", "stale", "rejected", "applied"}]
Offers == [kind : {"project", "task"}, project : Projects, title : Titles, bound : Nat, read : Nat,
           name : Projects]
BootstrapRows == [kind : {"project", "task"}, project : Projects, title : Titles, name : Projects,
                  bound : Nat, read : Nat,
                  status : {"pending", "confirmed", "cancelled", "expired"}, late : Flags]
EventRows == [task : Tasks, project : Projects, claim : Claims, trigger : Flags]
CheckpointRows == [trigger : Nat, task : Tasks, project : Projects, sources : SUBSET Nat,
                   version : Nat \ {0}, claim : Claims]

RowTypes ==
  /\ tasks \in [Tasks -> [version : Versions, content : Shown]]
  /\ \A t \in Tasks : tasks[t].version = 0 <=> tasks[t].content = NoContent
  /\ revisions \subseteq RevisionRows
  /\ proposals \in Seq(ProposalRows)
  /\ \A i \in DOMAIN proposals : proposals[i].ops = {} => proposals[i].status = "no_effect"
  /\ bootstraps \in Seq(BootstrapRows)

\* The revisions of a task are its history, and each was made of what its author saw.
History ==
  /\ \A t \in Tasks : \A v \in 1..tasks[t].version : \E r \in revisions : r.task = t /\ r.to = v
  /\ \A r \in revisions : /\ r.from = r.to - 1 /\ r.to <= tasks[r.task].version /\ r.saw = r.before
                          /\ r.to = tasks[r.task].version => r.after = tasks[r.task].content
  /\ \A r, q \in revisions : r.task = q.task => /\ r.to = q.to => r = q
                                                /\ q.to = r.from => q.after = r.before

\* A revision of a proposal or bootstrap is the one that its status speaks of.
Decided ==
  /\ \A r \in revisions :
       /\ r.by.source = "proposal" => r.by.id \in DOMAIN proposals /\ proposals[r.by.id].status = "applied"
       /\ r.by.source = "bootstrap" => r.by.id \in DOMAIN bootstraps /\ bootstraps[r.by.id].status = "confirmed"
  /\ \A i \in DOMAIN proposals : proposals[i].status = "applied" =>
       \E r \in revisions : r.by = [source |-> "proposal", id |-> i]
  /\ \A i \in DOMAIN bootstraps : bootstraps[i].status = "confirmed" =>
       \E r \in revisions : r.by = [source |-> "bootstrap", id |-> i]
  /\ \A r, q \in revisions : r.by = q.by /\ r.by.source \in {"proposal", "bootstrap"} => r = q

\* A proposal was made from a version of its task that was read after its
\* generation was observed; what it saw is the task's content while that version lasts.
Based(p, ts, g) ==
  /\ 1 <= p.base /\ p.base <= ts[p.task].version
  /\ p.base = ts[p.task].version => p.saw = ts[p.task].content
  /\ p.bound <= p.read /\ p.read <= g
BasedAll ==
  /\ \A i \in DOMAIN proposals : Based(proposals[i], tasks, generation)
  /\ \A i \in DOMAIN bootstraps : bootstraps[i].bound <= bootstraps[i].read /\ bootstraps[i].read <= generation

RowsInv == RowTypes /\ History /\ Decided /\ BasedAll

\* The checkpoints of a task are numbered without a gap, and each takes events
\* between the trigger of the one before and its own.
CaptureInv ==
  /\ events \in Seq(EventRows)
  /\ checkpoints \subseteq CheckpointRows
  /\ \E b \in Nat : \A k \in checkpoints : k.version <= b
  /\ \A k \in checkpoints :
       /\ k.trigger \in 1..Len(events) /\ events[k.trigger].task = k.task
       /\ k.sources # {} /\ \A j \in k.sources : j \in 1..k.trigger /\ events[j].task = k.task
       /\ \A n \in 1..k.version : \E o \in checkpoints : o.task = k.task /\ o.version = n
  /\ \A k, o \in checkpoints : k.task = o.task =>
       /\ k.version = o.version => k = o
       /\ k.version < o.version => \A j \in o.sources : k.trigger < j

\* What a caller brings from one step of its call to the next.
CallOK(r, ts, ps, bs, es, ks, g) ==
  /\ r.at = "edit" => /\ r.task \in Tasks /\ r.version \in Versions /\ r.saw \in Contents
                      /\ 1 <= r.version /\ r.version <= ts[r.task].version
                      /\ r.version = ts[r.task].version => r.saw = ts[r.task].content
  /\ r.at = "generate" => /\ r.task \in Tasks /\ r.ops \in SUBSET Operations /\ r.sources \in SUBSET Nat
                          /\ r.bound \in Nat /\ r.bound <= g
  /\ r.at = "insert" => r.proposal \in Drafts /\ Based(r.proposal, ts, g)
  /\ r.at \in {"supersede", "apply"} => r.id \in DOMAIN ps
  /\ r.at = "commit" => /\ r.id \in DOMAIN ps /\ r.version = ps[r.id].base
                        /\ r.after \in Contents /\ r.after.project = ps[r.id].saw.project
  /\ r.at = "bootstrap" => /\ r.kind \in {"project", "task"} /\ r.project \in Projects /\ r.title \in Titles
                           /\ r.bound \in Nat /\ r.bound <= g
  /\ r.at = "offer" => /\ r.bootstrap \in Offers
                       /\ r.bootstrap.bound <= r.bootstrap.read /\ r.bootstrap.read <= g
  /\ r.at = "confirm" => r.id \in DOMAIN bs
  /\ r.at = "checkpoint" => r.event \in DOMAIN es
  /\ r.at = "insert_checkpoint" =>
       /\ r.event \in DOMAIN es /\ r.version \in Nat \ {0} /\ r.claim \in Claims
       /\ r.sources # {} /\ \A j \in r.sources : j \in 1..r.event /\ es[j].task = es[r.event].task
       /\ \A n \in 1..(r.version - 1) : \E k \in ks : k.task = es[r.event].task /\ k.version = n
       /\ \A k \in ks : k.task = es[r.event].task /\ k.version < r.version => \A j \in r.sources : k.trigger < j
CallsInv ==
  /\ DOMAIN call = Callers
  /\ \A c \in Callers : CallOK(call[c], tasks, proposals, bootstraps, events, checkpoints, generation)

StoreInv == scenario \in Scenarios /\ TreeInv /\ RowsInv /\ CaptureInv /\ CallsInv
-----------------------------------------------------------------------------
(* Data *)

\* No task reads like the lack of one.
LEMMA NoContentApart == NoContent \notin Contents
BY TreeAssumption DEF NoContent, Contents

\* Max finds the largest of finitely many numbers.
LEMMA MaxOf ==
  ASSUME NEW S \in SUBSET Nat, S # {}, NEW b \in Nat, \A x \in S : x <= b
  PROVE  Max(S) \in S /\ \A x \in S : x <= Max(S)
<1> DEFINE U == {n \in Nat : \A x \in S : x <= n}
<1>1. PICK m \in U : \A n \in U : m <= n
  <2>1. b \in U /\ U \in SUBSET Nat
    OBVIOUS
  <2> HIDE DEF U
  <2> QED BY <2>1, Least
<1>2. m \in S
  <2> SUFFICES ASSUME m \notin S PROVE FALSE
    OBVIOUS
  <2>1. \A x \in S : x <= m - 1 /\ m - 1 \in Nat
    BY <1>1
  <2>2. m - 1 \in U
    BY <2>1
  <2> QED BY <1>1, <2>2
<1>3. \E x \in S : \A y \in S : x >= y
  BY <1>1, <1>2
<1> QED BY <1>3 DEF Max

\* Operations change titles and notes, never the project.
LEMMA AppliedTo ==
  ASSUME NEW content \in Contents, NEW ops \in SUBSET Operations
  PROVE  Applied(content, ops) \in Contents /\ Applied(content, ops).project = content.project
<1>0. Operations = [key : {"title"}, val : Titles, safe : {"no"}]
                     \cup [key : {"note"}, val : {"in", "out"}, safe : {"yes", "no"}]
  BY DEF Operations
<1> DEFINE new(k) == IF \E o \in ops : o.key = k THEN (CHOOSE o \in ops : o.key = k).val ELSE content[k]
<1>1. \A k : (\E o \in ops : o.key = k) =>
         (CHOOSE o \in ops : o.key = k) \in ops /\ (CHOOSE o \in ops : o.key = k).key = k
  OBVIOUS
<1>2. new("title") \in Titles
  <2>1. \A o \in ops : o.key = "title" => o.val \in Titles
    BY <1>0
  <2> QED BY <1>1, <2>1 DEF Contents
<1>3. new("note") \in {"in", "out"}
  <2>1. \A o \in ops : o.key = "note" => o.val \in {"in", "out"}
    BY <1>0
  <2> QED BY <1>1, <2>1 DEF Contents
<1>4. new("project") = content.project
  <2>1. \A o \in ops : o.key # "project"
    BY <1>0
  <2> QED BY <2>1
<1>5. DOMAIN content = {"project", "title", "note"} /\ content.project \in Projects
  BY DEF Contents
<1>6. Applied(content, ops) = [k \in {"project", "title", "note"} |-> new(k)]
  BY <1>5 DEF Applied
<1>7. Applied(content, ops) = [project |-> new("project"), title |-> new("title"), note |-> new("note")]
  <2> HIDE DEF new
  <2> QED BY <1>6
<1> HIDE DEF new
<1> QED BY <1>2, <1>3, <1>4, <1>5, <1>7 DEF Contents

\* What a request proposes are operations again.
LEMMA MergedOps ==
  ASSUME NEW ops \in SUBSET Operations
  PROVE  Merged(ops) \in SUBSET Operations
<1>0. Operations = [key : {"title"}, val : Titles, safe : {"no"}]
                     \cup [key : {"note"}, val : {"in", "out"}, safe : {"yes", "no"}]
  BY DEF Operations
<1>1. ASSUME NEW o \in ops, NEW s, s = o.safe \/ s = "no"
      PROVE  [o EXCEPT !.safe = s] \in Operations
  BY <1>0, <1>1
<1>2. \A o \in ops : (\A a \in ops : SameOperation(a, o) => a.safe = "yes") => o.safe = "yes"
  BY DEF SameOperation
<1> QED BY <1>1, <1>2 DEF Merged

-----------------------------------------------------------------------------
(* Tasks, their revisions, and the proposals and bootstraps about them *)

SameButStatus(p, q) ==
  /\ p.task = q.task /\ p.base = q.base /\ p.ops = q.ops /\ p.saw = q.saw
  /\ p.bound = q.bound /\ p.read = q.read

\* A step that applies no proposal and confirms no bootstrap, and makes new ones
\* from what it reads.
ProposalsKept ==
  /\ proposals' \in Seq(ProposalRows)
  /\ \A i \in DOMAIN proposals : i \in DOMAIN proposals' /\ SameButStatus(proposals[i], proposals'[i])
  /\ \A i \in DOMAIN proposals' :
       /\ proposals'[i].ops = {} => proposals'[i].status = "no_effect"
       /\ proposals'[i].status = "applied" <=> i \in DOMAIN proposals /\ proposals[i].status = "applied"
       /\ i \in DOMAIN proposals \/ Based(proposals'[i], tasks, generation)
BootstrapsKept ==
  /\ bootstraps' \in Seq(BootstrapRows)
  /\ \A i \in DOMAIN bootstraps : /\ i \in DOMAIN bootstraps'
                                  /\ bootstraps'[i].bound = bootstraps[i].bound
                                  /\ bootstraps'[i].read = bootstraps[i].read
  /\ \A i \in DOMAIN bootstraps' :
       /\ bootstraps'[i].status = "confirmed" <=> i \in DOMAIN bootstraps /\ bootstraps[i].status = "confirmed"
       /\ \/ i \in DOMAIN bootstraps
          \/ bootstraps'[i].bound <= bootstraps'[i].read /\ bootstraps'[i].read <= generation

\* Rows that nothing was done to are kept.
LEMMA RowsSame ==
  ASSUME RowTypes
  PROVE  /\ UNCHANGED proposals => ProposalsKept
         /\ UNCHANGED bootstraps => BootstrapsKept
BY DEF RowTypes, ProposalsKept, BootstrapsKept, SameButStatus

\* A step that revises no task, and keeps the proposals and bootstraps in this
\* sense, keeps what the rows say of each other.
LEMMA RowsKept ==
  ASSUME RowsInv, UNCHANGED <<tasks, revisions>>, generation \in Nat, generation' \in Nat,
         generation <= generation', ProposalsKept, BootstrapsKept
  PROVE  RowsInv'
<1>1. RowTypes'
  BY DEF RowsInv, RowTypes, ProposalsKept, BootstrapsKept
<1>2. History'
  BY DEF RowsInv, History
<1>3. Decided'
  BY DEF RowsInv, Decided, ProposalsKept, BootstrapsKept
<1>4. BasedAll'
  <2>1. ASSUME NEW i \in DOMAIN proposals' PROVE Based(proposals'[i], tasks', generation')
    <3>1. proposals'[i].read \in Nat
      <4>1. proposals' \in Seq(ProposalRows)
        BY DEF ProposalsKept
      <4>2. proposals'[i] \in ProposalRows
        BY <2>1, <4>1
      <4> QED BY <4>2 DEF ProposalRows
    <3>2. CASE i \in DOMAIN proposals
      <4>1. Based(proposals[i], tasks, generation) /\ SameButStatus(proposals[i], proposals'[i])
        BY <3>2 DEF RowsInv, BasedAll, ProposalsKept
      <4> QED BY <3>1, <4>1 DEF Based, SameButStatus
    <3>3. CASE i \notin DOMAIN proposals
      <4>1. Based(proposals'[i], tasks, generation)
        BY <2>1, <3>3 DEF ProposalsKept
      <4> QED BY <3>1, <4>1 DEF Based
    <3> QED BY <3>2, <3>3
  <2>2. ASSUME NEW i \in DOMAIN bootstraps'
        PROVE  bootstraps'[i].bound <= bootstraps'[i].read /\ bootstraps'[i].read <= generation'
    <3>1. bootstraps'[i].read \in Nat
      <4>1. bootstraps' \in Seq(BootstrapRows)
        BY DEF BootstrapsKept
      <4>2. bootstraps'[i] \in BootstrapRows
        BY <2>2, <4>1
      <4> QED BY <4>2 DEF BootstrapRows
    <3>2. bootstraps'[i].bound <= bootstraps'[i].read /\ bootstraps'[i].read <= generation
      BY <2>2 DEF RowsInv, BasedAll, BootstrapsKept
    <3> QED BY <3>1, <3>2
  <2> QED BY <2>1, <2>2 DEF BasedAll
<1> QED BY <1>1, <1>2, <1>3, <1>4 DEF RowsInv

\* A revision of a task by somebody who was shown its present content.
LEMMA RowsRevised ==
  ASSUME RowsInv, NEW t \in Tasks, NEW after \in Contents, NEW by \in Authors, NEW saw,
         Revise(t, after, by, saw), saw = tasks[t].content,
         by.source = "proposal" => by.id \in DOMAIN proposals /\ proposals[by.id].status = "awaiting",
         by.source = "bootstrap" => by.id \in DOMAIN bootstraps /\ bootstraps[by.id].status = "pending",
         bootstraps' = IF by.source = "bootstrap" THEN [bootstraps EXCEPT ![by.id].status = "confirmed"]
                       ELSE bootstraps,
         generation' = generation
  PROVE  /\ RowsInv'
         /\ \A i \in DOMAIN proposals : i \in DOMAIN proposals' /\ SameButStatus(proposals[i], proposals'[i])
         /\ \A i \in DOMAIN proposals : proposals[i].status # "applied" /\ proposals'[i].status = "applied" =>
              by = [source |-> "proposal", id |-> i]
         /\ DOMAIN bootstraps' = DOMAIN bootstraps
         /\ \A i \in DOMAIN bootstraps : bootstraps[i].status # "confirmed" /\ bootstraps'[i].status = "confirmed" =>
              by = [source |-> "bootstrap", id |-> i]
<1> DEFINE v == tasks[t].version
           new == [task |-> t, from |-> v, to |-> v + 1, before |-> tasks[t].content,
                   after |-> after, by |-> by, saw |-> saw]
<1>0. /\ v \in Nat /\ v + 1 \in Versions /\ v \in Versions /\ MaxVersion \in Nat
      /\ tasks[t].content \in Shown /\ tasks \in [Tasks -> [version : Versions, content : Shown]]
  BY CanonAssumption DEF RowsInv, RowTypes, Versions, Revise
<1>1. /\ new.task = t /\ new.from = v /\ new.to = v + 1 /\ new.before = tasks[t].content
      /\ new.after = after /\ new.by = by /\ new.saw = saw /\ new.from = new.to - 1
      /\ new \in RevisionRows
  <2>1. new \in RevisionRows
    BY <1>0 DEF RevisionRows
  <2> QED BY <1>0, <2>1
<1>2. revisions' = revisions \cup {new}
  BY DEF Revise
<1> HIDE DEF new
<1>3. /\ tasks'[t].version = v + 1 /\ tasks'[t].content = after
      /\ \A u \in Tasks : u # t => tasks'[u] = tasks[u]
      /\ tasks' \in [Tasks -> [version : Versions, content : Shown]]
  <2>1. tasks' = [tasks EXCEPT ![t] = [version |-> v + 1, content |-> after]]
    BY DEF Revise
  <2> QED BY <1>0, <2>1 DEF Shown
<1>4. /\ DOMAIN proposals' = DOMAIN proposals
      /\ \A i \in DOMAIN proposals : proposals'[i] = 
           IF by = [source |-> "proposal", id |-> i] THEN [proposals[i] EXCEPT !.status = "applied"]
           ELSE IF proposals[i].task = t /\ proposals[i].status = "awaiting"
                THEN [proposals[i] EXCEPT !.status = "stale"] ELSE proposals[i]
  BY DEF Revise
<1>5. \A i \in DOMAIN proposals : proposals[i] \in ProposalRows
  BY ElementOfSeq DEF RowsInv, RowTypes
<1>6. \A i : by = [source |-> "proposal", id |-> i] <=> by.source = "proposal" /\ by.id = i
  BY DEF Authors
<1>7. \A i : by = [source |-> "bootstrap", id |-> i] <=> by.source = "bootstrap" /\ by.id = i
  BY DEF Authors
<1>8. \A i \in DOMAIN proposals :
        /\ proposals'[i] \in ProposalRows /\ SameButStatus(proposals[i], proposals'[i])
        /\ proposals'[i].status = "applied" <=>
             proposals[i].status = "applied" \/ (by.source = "proposal" /\ by.id = i)
        /\ proposals[i].ops = {} => proposals'[i].status = "no_effect"
  <2> SUFFICES ASSUME NEW i \in DOMAIN proposals
               PROVE  /\ proposals'[i] \in ProposalRows /\ SameButStatus(proposals[i], proposals'[i])
                      /\ proposals'[i].status = "applied" <=>
                           proposals[i].status = "applied" \/ (by.source = "proposal" /\ by.id = i)
                      /\ proposals[i].ops = {} => proposals'[i].status = "no_effect"
    OBVIOUS
  <2>0. proposals[i] \in ProposalRows /\ (proposals[i].ops = {} => proposals[i].status = "no_effect")
    BY <1>5 DEF RowsInv, RowTypes
  <2>1. CASE by.source = "proposal" /\ by.id = i
    <3>1. proposals'[i] = [proposals[i] EXCEPT !.status = "applied"] /\ proposals[i].status = "awaiting"
      BY <1>4, <1>6, <2>1
    <3> QED BY <2>0, <2>1, <3>1 DEF ProposalRows, SameButStatus
  <2>2. CASE ~(by.source = "proposal" /\ by.id = i) /\ proposals[i].task = t /\ proposals[i].status = "awaiting"
    <3>1. proposals'[i] = [proposals[i] EXCEPT !.status = "stale"]
      BY <1>4, <1>6, <2>2
    <3> QED BY <2>0, <2>2, <3>1 DEF ProposalRows, SameButStatus
  <2>3. CASE ~(by.source = "proposal" /\ by.id = i) /\ ~(proposals[i].task = t /\ proposals[i].status = "awaiting")
    <3>1. proposals'[i] = proposals[i]
      BY <1>4, <1>6, <2>3
    <3> QED BY <2>0, <2>3, <3>1 DEF SameButStatus
  <2> QED BY <2>1, <2>2, <2>3
<1>9. proposals' \in Seq(ProposalRows)
  <2>1. \E n \in Nat : DOMAIN proposals = 1..n
    BY DEF RowsInv, RowTypes
  <2>2. proposals' = [i \in DOMAIN proposals |-> proposals'[i]]
    <3>1. \E f : proposals' = [i \in DOMAIN proposals |-> f[i]]
      <4> DEFINE f == [i \in DOMAIN proposals |->
             IF by = [source |-> "proposal", id |-> i] THEN [proposals[i] EXCEPT !.status = "applied"]
             ELSE IF proposals[i].task = t /\ proposals[i].status = "awaiting"
                  THEN [proposals[i] EXCEPT !.status = "stale"] ELSE proposals[i]]
      <4>1. proposals' = f
        BY DEF Revise
      <4>2. f = [i \in DOMAIN proposals |-> f[i]]
        OBVIOUS
      <4> HIDE DEF f
      <4> QED BY <4>1, <4>2
    <3> QED BY <3>1
  <2> QED BY <1>8, <2>1, <2>2
<1>10. \A i \in DOMAIN bootstraps : bootstraps[i] \in BootstrapRows
  BY ElementOfSeq DEF RowsInv, RowTypes
<1>11. /\ bootstraps' \in Seq(BootstrapRows) /\ DOMAIN bootstraps' = DOMAIN bootstraps
       /\ \A i \in DOMAIN bootstraps :
            /\ bootstraps'[i].bound = bootstraps[i].bound /\ bootstraps'[i].read = bootstraps[i].read
            /\ bootstraps'[i].status = "confirmed" <=>
                 bootstraps[i].status = "confirmed" \/ (by.source = "bootstrap" /\ by.id = i)
  <2>0. bootstraps \in Seq(BootstrapRows)
    BY DEF RowsInv, RowTypes
  <2>1. CASE by.source = "bootstrap"
    <3>1. bootstraps' = [bootstraps EXCEPT ![by.id] = [bootstraps[by.id] EXCEPT !.status = "confirmed"]] /\ by.id \in DOMAIN bootstraps
      BY <2>1
    <3>2. [bootstraps[by.id] EXCEPT !.status = "confirmed"] \in BootstrapRows
      BY <1>10, <3>1 DEF BootstrapRows
    <3>3. /\ [bootstraps[by.id] EXCEPT !.status = "confirmed"].bound = bootstraps[by.id].bound
          /\ [bootstraps[by.id] EXCEPT !.status = "confirmed"].read = bootstraps[by.id].read
          /\ [bootstraps[by.id] EXCEPT !.status = "confirmed"].status = "confirmed"
      BY <1>10, <3>1 DEF BootstrapRows
    <3> DEFINE row == [bootstraps[by.id] EXCEPT !.status = "confirmed"]
    <3> HIDE DEF row
    <3>4. bootstraps' = [bootstraps EXCEPT ![by.id] = row] /\ row \in BootstrapRows
      BY <3>1, <3>2 DEF row
    <3>5. bootstraps' \in Seq(BootstrapRows) /\ DOMAIN bootstraps' = DOMAIN bootstraps
      BY <2>0, <3>1, <3>4
    <3>6. \A i \in DOMAIN bootstraps : bootstraps'[i] = IF i = by.id THEN row ELSE bootstraps[i]
      BY <2>0, <3>4
    <3>7. row.bound = bootstraps[by.id].bound /\ row.read = bootstraps[by.id].read /\ row.status = "confirmed"
      BY <3>3 DEF row
    <3> QED BY <2>1, <3>5, <3>6, <3>7
  <2>2. CASE by.source # "bootstrap"
    BY <2>0, <2>2
  <2> QED BY <2>1, <2>2
<1>12. RowTypes'
  <2>1. \A u \in Tasks : tasks'[u].version = 0 <=> tasks'[u].content = NoContent
    <3>1. after # NoContent /\ v + 1 # 0
      BY <1>0, NoContentApart
    <3> QED BY <1>3, <3>1 DEF RowsInv, RowTypes
  <2>2. revisions' \subseteq RevisionRows
    BY <1>1, <1>2 DEF RowsInv, RowTypes
  <2>3. \A i \in DOMAIN proposals' : proposals'[i].ops = {} => proposals'[i].status = "no_effect"
    BY <1>4, <1>8 DEF SameButStatus
  <2> QED BY <1>3, <1>9, <1>11, <2>1, <2>2, <2>3 DEF RowTypes
<1>13. \A r \in revisions : r.task \in Tasks /\ r.from \in Nat /\ r.to \in Nat
  BY DEF RowsInv, RowTypes, RevisionRows, Versions
<1>14. \A u \in Tasks : tasks[u].version \in Nat
  BY DEF RowsInv, RowTypes, Versions
<1>15. History'
  <2>1. ASSUME NEW u \in Tasks, NEW n \in 1..tasks'[u].version
        PROVE  \E r \in revisions' : r.task = u /\ r.to = n
    <3>1. CASE u = t /\ n = v + 1
      BY <1>1, <1>2, <3>1
    <3>2. CASE ~(u = t /\ n = v + 1)
      <4>1. n \in 1..tasks[u].version
        BY <1>3, <1>14, <2>1, <3>2
      <4> QED BY <1>2, <4>1 DEF RowsInv, History
    <3> QED BY <3>1, <3>2
  <2>2. ASSUME NEW r \in revisions'
        PROVE  /\ r.from = r.to - 1 /\ r.to <= tasks'[r.task].version /\ r.saw = r.before
               /\ r.to = tasks'[r.task].version => r.after = tasks'[r.task].content
    <3>1. CASE r = new
      BY <1>0, <1>1, <1>3, <3>1
    <3>2. CASE r \in revisions /\ r.task = t
      <4>1. r.to <= v
        BY <3>2 DEF RowsInv, History
      <4> QED BY <1>0, <1>3, <1>13, <3>2, <4>1 DEF RowsInv, History
    <3>3. CASE r \in revisions /\ r.task # t
      <4>1. tasks'[r.task] = tasks[r.task]
        BY <1>3, <1>13, <3>3
      <4> QED BY <3>3, <4>1 DEF RowsInv, History
    <3> QED BY <1>2, <2>2, <3>1, <3>2, <3>3
  <2>3. \A r \in revisions : r.task = t => r.to <= v /\ r.from < v + 1 /\ r.from # v
    <3>1. \A r \in revisions : r.task = t => r.to <= v /\ r.from = r.to - 1
      BY DEF RowsInv, History
    <3> QED BY <1>0, <1>13, <3>1
  <2>4. \A r \in revisions : r.task = t /\ r.to = v => r.after = tasks[t].content
    BY DEF RowsInv, History
  <2>5. ASSUME NEW r \in revisions', NEW q \in revisions', r.task = q.task
        PROVE  /\ r.to = q.to => r = q
               /\ q.to = r.from => q.after = r.before
    <3>1. CASE r = new /\ q = new
      BY <1>0, <1>1, <3>1
    <3>2. CASE r = new /\ q \in revisions
      <4>1. q.task = t /\ q.to <= v
        BY <1>1, <2>3, <2>5, <3>2
      <4> QED BY <1>0, <1>1, <1>13, <2>4, <3>2, <4>1
    <3>3. CASE q = new /\ r \in revisions
      <4>1. r.task = t /\ r.to <= v /\ r.from < v + 1
        BY <1>1, <2>3, <2>5, <3>3
      <4> QED BY <1>0, <1>1, <1>13, <3>3, <4>1
    <3>4. CASE r \in revisions /\ q \in revisions
      BY <2>5, <3>4 DEF RowsInv, History
    <3> QED BY <1>2, <2>5, <3>1, <3>2, <3>3, <3>4
  <2> QED BY <2>1, <2>2, <2>5 DEF History
<1>16. Decided'
  <2>1. ASSUME NEW r \in revisions'
        PROVE  /\ r.by.source = "proposal" => r.by.id \in DOMAIN proposals' /\ proposals'[r.by.id].status = "applied"
               /\ r.by.source = "bootstrap" => r.by.id \in DOMAIN bootstraps' /\ bootstraps'[r.by.id].status = "confirmed"
    <3>1. CASE r = new
      BY <1>1, <1>4, <1>8, <1>11, <3>1
    <3>2. CASE r \in revisions
      BY <1>4, <1>8, <1>11, <3>2 DEF RowsInv, Decided
    <3> QED BY <1>2, <2>1, <3>1, <3>2
  <2>2. ASSUME NEW i \in DOMAIN proposals', proposals'[i].status = "applied"
        PROVE  \E r \in revisions' : r.by = [source |-> "proposal", id |-> i]
    <3>1. CASE proposals[i].status = "applied"
      BY <1>2, <1>4, <2>2, <3>1 DEF RowsInv, Decided
    <3>2. CASE by.source = "proposal" /\ by.id = i
      <4>1. new.by = [source |-> "proposal", id |-> i] /\ new \in revisions'
        BY <1>1, <1>2, <1>6, <3>2
      <4> QED BY <4>1
    <3> QED BY <1>4, <1>8, <2>2, <3>1, <3>2
  <2>3. ASSUME NEW i \in DOMAIN bootstraps', bootstraps'[i].status = "confirmed"
        PROVE  \E r \in revisions' : r.by = [source |-> "bootstrap", id |-> i]
    <3>1. CASE bootstraps[i].status = "confirmed"
      BY <1>2, <1>11, <2>3, <3>1 DEF RowsInv, Decided
    <3>2. CASE by.source = "bootstrap" /\ by.id = i
      <4>1. new.by = [source |-> "bootstrap", id |-> i] /\ new \in revisions'
        BY <1>1, <1>2, <1>7, <3>2
      <4> QED BY <4>1
    <3> QED BY <1>11, <2>3, <3>1, <3>2
  <2>4. \A r \in revisions : r.by = by => r.by.source \notin {"proposal", "bootstrap"}
    BY DEF RowsInv, Decided
  <2>5. ASSUME NEW r \in revisions', NEW q \in revisions', r.by = q.by, r.by.source \in {"proposal", "bootstrap"}
        PROVE  r = q
    <3>1. CASE r \in revisions /\ q \in revisions
      BY <2>5, <3>1 DEF RowsInv, Decided
    <3>2. CASE r = new \/ q = new
      BY <1>1, <1>2, <2>4, <2>5, <3>2
    <3> QED BY <1>2, <2>5, <3>1, <3>2
  <2> QED BY <2>1, <2>2, <2>3, <2>5 DEF Decided
<1>17. BasedAll'
  <2>1. ASSUME NEW i \in DOMAIN proposals' PROVE Based(proposals'[i], tasks', generation')
    <3>1. /\ i \in DOMAIN proposals /\ Based(proposals[i], tasks, generation)
          /\ SameButStatus(proposals[i], proposals'[i]) /\ proposals[i] \in ProposalRows
      BY <1>4, <1>5, <1>8, <2>1 DEF RowsInv, BasedAll
    <3>2. proposals[i].task \in Tasks /\ proposals[i].base \in Nat
      BY <3>1 DEF ProposalRows, Versions
    <3>3. CASE proposals[i].task = t
      <4>1. proposals[i].base <= v /\ tasks'[proposals[i].task].version = v + 1
        BY <1>3, <3>1, <3>3 DEF Based
      <4>2. proposals[i].base # v + 1 /\ proposals[i].base <= v + 1
        BY <1>0, <3>2, <4>1
      <4> QED BY <3>1, <4>1, <4>2 DEF Based, SameButStatus
    <3>4. CASE proposals[i].task # t
      <4>1. tasks'[proposals[i].task] = tasks[proposals[i].task]
        BY <1>3, <3>2, <3>4
      <4> QED BY <3>1, <4>1 DEF Based, SameButStatus
    <3> QED BY <3>3, <3>4
  <2>2. ASSUME NEW i \in DOMAIN bootstraps'
        PROVE  bootstraps'[i].bound <= bootstraps'[i].read /\ bootstraps'[i].read <= generation'
    BY <1>11, <2>2 DEF RowsInv, BasedAll
  <2> QED BY <2>1, <2>2 DEF BasedAll
<1>18. RowsInv'
  BY ONLY <1>12, <1>15, <1>16, <1>17 DEF RowsInv
<1>19. /\ \A i \in DOMAIN proposals : i \in DOMAIN proposals' /\ SameButStatus(proposals[i], proposals'[i])
       /\ \A i \in DOMAIN proposals : proposals[i].status # "applied" /\ proposals'[i].status = "applied" =>
            by = [source |-> "proposal", id |-> i]
  BY <1>4, <1>6, <1>8
<1>20. /\ DOMAIN bootstraps' = DOMAIN bootstraps
       /\ \A i \in DOMAIN bootstraps : bootstraps[i].status # "confirmed" /\ bootstraps'[i].status = "confirmed" =>
            by = [source |-> "bootstrap", id |-> i]
  BY <1>7, <1>11
<1> QED BY ONLY <1>18, <1>19, <1>20

-----------------------------------------------------------------------------
(* Calls in progress, while others work on the same database *)

\* What no step takes back.
Grows ==
  /\ generation' \in Nat /\ generation <= generation'
  /\ \A t \in Tasks : /\ tasks'[t].version \in Nat /\ tasks[t].version <= tasks'[t].version
                      /\ tasks'[t].version = tasks[t].version => tasks'[t].content = tasks[t].content
  /\ \A i \in DOMAIN proposals : i \in DOMAIN proposals' /\ SameButStatus(proposals[i], proposals'[i])
  /\ \A i \in DOMAIN bootstraps : i \in DOMAIN bootstraps'
  /\ \A i \in DOMAIN events : i \in DOMAIN events' /\ events'[i] = events[i]
  /\ checkpoints \subseteq checkpoints'
  /\ \A k \in checkpoints' \ checkpoints :
       k.version \in Nat \ {0} /\ \A o \in checkpoints : o.task = k.task => o.version # k.version

\* The lifecycle generation is a number.
LEMMA GenerationType ==
  ASSUME TreeInv PROVE generation \in Nat
BY TreeAssumption DEF TreeInv, TreeTypeOK

\* The rows of the tables, one by one.
LEMMA RowsTyped ==
  ASSUME RowsInv
  PROVE  /\ \A i \in DOMAIN proposals : proposals[i] \in ProposalRows
         /\ \A i \in DOMAIN bootstraps : bootstraps[i] \in BootstrapRows
         /\ \A t \in Tasks :
              /\ tasks[t].version \in Nat /\ tasks[t].version \in Versions /\ tasks[t].content \in Shown
              /\ Exists(t) => 1 <= tasks[t].version /\ tasks[t].content \in Contents
              /\ ~Exists(t) => tasks[t].content = NoContent
<1>1. /\ \A i \in DOMAIN proposals : proposals[i] \in ProposalRows
      /\ \A i \in DOMAIN bootstraps : bootstraps[i] \in BootstrapRows
  BY ElementOfSeq DEF RowsInv, RowTypes
<1>2. \A t \in Tasks : tasks[t].version \in Versions /\ tasks[t].version \in Nat /\ tasks[t].content \in Shown
  BY DEF RowsInv, RowTypes, Versions
<1>3. \A t \in Tasks : Exists(t) <=> tasks[t].content # NoContent
  BY <1>2 DEF RowsInv, RowTypes, Exists
<1>4. \A t \in Tasks : Exists(t) => 1 <= tasks[t].version
  BY <1>2 DEF Exists
<1> QED BY <1>1, <1>2, <1>3, <1>4 DEF Shown

\* What a caller remembers stays good while others work.
LEMMA CallKept ==
  ASSUME StoreInv, Grows, NEW r,
         CallOK(r, tasks, proposals, bootstraps, events, checkpoints, generation)
  PROVE  CallOK(r, tasks', proposals', bootstraps', events', checkpoints', generation')
<1>0. /\ generation \in Nat /\ generation' \in Nat /\ generation <= generation'
      /\ \A t \in Tasks : tasks[t].version \in Nat
  BY GenerationType DEF StoreInv, Grows, RowsInv, RowTypes, Versions
<1>1. ASSUME r.at = "edit"
      PROVE  /\ r.task \in Tasks /\ r.version \in Versions /\ r.saw \in Contents
             /\ 1 <= r.version /\ r.version <= tasks'[r.task].version
             /\ r.version = tasks'[r.task].version => r.saw = tasks'[r.task].content
  <2>1. /\ r.task \in Tasks /\ r.version \in Versions /\ r.saw \in Contents
        /\ 1 <= r.version /\ r.version <= tasks[r.task].version
        /\ r.version = tasks[r.task].version => r.saw = tasks[r.task].content
    BY <1>1 DEF CallOK
  <2> QED BY <1>0, <2>1 DEF Grows, Versions
<1>2. ASSUME r.at = "insert"
      PROVE  r.proposal \in Drafts /\ Based(r.proposal, tasks', generation')
  <2>1. r.proposal \in Drafts /\ Based(r.proposal, tasks, generation)
    BY <1>2 DEF CallOK
  <2>2. r.proposal.task \in Tasks /\ r.proposal.base \in Nat /\ r.proposal.read \in Nat
    BY <2>1 DEF Drafts, Versions
  <2> QED BY <1>0, <2>1, <2>2 DEF Grows, Based
<1>3. ASSUME r.at = "insert_checkpoint"
      PROVE  /\ r.event \in DOMAIN events' /\ r.version \in Nat \ {0} /\ r.claim \in Claims
             /\ r.sources # {} /\ \A j \in r.sources : j \in 1..r.event /\ events'[j].task = events'[r.event].task
             /\ \A n \in 1..(r.version - 1) :
                  \E k \in checkpoints' : k.task = events'[r.event].task /\ k.version = n
             /\ \A k \in checkpoints' : k.task = events'[r.event].task /\ k.version < r.version =>
                  \A j \in r.sources : k.trigger < j
  <2>1. /\ r.event \in DOMAIN events /\ r.version \in Nat \ {0} /\ r.claim \in Claims
        /\ r.sources # {} /\ \A j \in r.sources : j \in 1..r.event /\ events[j].task = events[r.event].task
        /\ \A n \in 1..(r.version - 1) :
             \E k \in checkpoints : k.task = events[r.event].task /\ k.version = n
        /\ \A k \in checkpoints : k.task = events[r.event].task /\ k.version < r.version =>
             \A j \in r.sources : k.trigger < j
    BY <1>3 DEF CallOK
  <2>2. DOMAIN events = 1..Len(events) /\ Len(events) \in Nat
    BY DEF StoreInv, CaptureInv
  <2>3. r.event \in DOMAIN events' /\ events'[r.event] = events[r.event]
    BY <2>1 DEF Grows
  <2>4. \A j \in r.sources : events'[j] = events[j]
    BY <2>1, <2>2 DEF Grows
  <2>5. ASSUME NEW k \in checkpoints', k.task = events[r.event].task, k.version < r.version
        PROVE  k \in checkpoints
    <3> SUFFICES ASSUME k \notin checkpoints PROVE FALSE
      OBVIOUS
    <3>1. k.version \in 1..(r.version - 1) /\ \A o \in checkpoints : o.task = k.task => o.version # k.version
      BY <2>1, <2>5 DEF Grows
    <3> QED BY <2>1, <2>5, <3>1
  <2> QED BY <2>1, <2>3, <2>4, <2>5 DEF Grows
<1>4. ASSUME r.at = "commit"
      PROVE  /\ r.id \in DOMAIN proposals' /\ r.version = proposals'[r.id].base
             /\ r.after \in Contents /\ r.after.project = proposals'[r.id].saw.project
  BY <1>4 DEF CallOK, Grows, SameButStatus
<1>5. r.at = "generate" \/ r.at = "bootstrap" => r.bound \in Nat /\ r.bound <= generation'
  BY <1>0 DEF CallOK
<1>6. ASSUME r.at = "offer"
      PROVE  r.bootstrap \in Offers /\ r.bootstrap.bound <= r.bootstrap.read /\ r.bootstrap.read <= generation'
  <2>1. r.bootstrap \in Offers /\ r.bootstrap.bound <= r.bootstrap.read /\ r.bootstrap.read <= generation
    BY <1>6 DEF CallOK
  <2>2. r.bootstrap.read \in Nat
    BY <2>1 DEF Offers
  <2> QED BY <1>0, <2>1, <2>2
<1>7. /\ r.at \in {"supersede", "apply"} => r.id \in DOMAIN proposals'
      /\ r.at = "confirm" => r.id \in DOMAIN bootstraps'
      /\ r.at = "checkpoint" => r.event \in DOMAIN events'
  BY DEF CallOK, Grows
<1>8. /\ r.at = "generate" => r.task \in Tasks /\ r.ops \in SUBSET Operations /\ r.sources \in SUBSET Nat
      /\ r.at = "bootstrap" => r.kind \in {"project", "task"} /\ r.project \in Projects /\ r.title \in Titles
  BY DEF CallOK
<1> QED BY <1>1, <1>2, <1>3, <1>4, <1>5, <1>6, <1>7, <1>8 DEF CallOK

\* A step of nobody's call leaves every call good.
LEMMA CallsKept ==
  ASSUME StoreInv, Grows, call' = call
  PROVE  CallsInv'
BY CallKept DEF StoreInv, CallsInv

\* A step of one call leaves every other good.
LEMMA CallsMoved ==
  ASSUME StoreInv, Grows, NEW c \in Callers, NEW r, call' = [call EXCEPT ![c] = r],
         CallOK(r, tasks', proposals', bootstraps', events', checkpoints', generation')
  PROVE  CallsInv'
<1>1. DOMAIN call' = Callers /\ \A d \in Callers : call'[d] = IF d = c THEN r ELSE call[d]
  BY DEF StoreInv, CallsInv
<1>2. \A d \in Callers : CallOK(call'[d], tasks', proposals', bootstraps', events', checkpoints', generation')
  BY <1>1, CallKept DEF StoreInv, CallsInv
<1> QED BY <1>1, <1>2 DEF CallsInv

\* A caller that is in no call.
LEMMA IdleOK ==
  ASSUME NEW ts, NEW ps, NEW bs, NEW es, NEW ks, NEW g
  PROVE  CallOK(Idle, ts, ps, bs, es, ks, g)
BY DEF CallOK, Idle

\* A step that leaves the tasks, events and checkpoints alone takes nothing back.
LEMMA GrowsStill ==
  ASSUME StoreInv, UNCHANGED <<tasks, events, checkpoints>>, generation' \in Nat, generation <= generation',
         ProposalsKept, BootstrapsKept
  PROVE  Grows
BY DEF StoreInv, RowsInv, RowTypes, Versions, Grows, ProposalsKept, BootstrapsKept

-----------------------------------------------------------------------------
(* The steps by what they write *)

\* Nothing takes effect on an authority that a lifecycle change has outdated.
Fresh ==
  /\ \A i \in DOMAIN proposals :
       proposals[i].status # "applied" /\ proposals'[i].status = "applied" => proposals[i].read = generation
  /\ \A i \in DOMAIN bootstraps :
       bootstraps[i].status # "confirmed" /\ bootstraps'[i].status = "confirmed" => bootstraps[i].read = generation

\* Nothing is written to what is deleted.
Frozen == \A p \in Projects : Dead(p) => Holds(p)' = Holds(p)

\* What is shown of every step.
Lawful == StoreInv' /\ Fresh /\ Frozen

CallMoves ==
  \/ call' = call
  \/ \E c \in Callers : \E r :
       /\ call' = [call EXCEPT ![c] = r]
       /\ CallOK(r, tasks', proposals', bootstraps', events', checkpoints', generation')

\* Either way the calls stay good.
LEMMA CallsMove ==
  ASSUME StoreInv, Grows, CallMoves
  PROVE  CallsInv'
BY CallsKept, CallsMoved DEF CallMoves

\* A step that revises no task and captures nothing.
LEMMA RowStep ==
  ASSUME StoreInv, scenario' = scenario, UNCHANGED <<tasks, revisions, events, checkpoints>>,
         generation' \in Nat, generation <= generation', ProposalsKept, BootstrapsKept,
         TreeInv', \A p \in Projects : Dead(p) => names'[p] = names[p], CallMoves
  PROVE  Lawful
<1>1. generation \in Nat
  BY GenerationType DEF StoreInv
<1>2. RowsInv'
  BY <1>1, RowsKept DEF StoreInv
<1>3. CaptureInv'
  BY DEF StoreInv, CaptureInv
<1>4. CallsInv'
  BY GrowsStill, CallsMove
<1>5. Fresh
  BY DEF Fresh, ProposalsKept, BootstrapsKept
<1>6. Frozen
  BY DEF Frozen, Holds, ProjectOf
<1> QED BY <1>2, <1>3, <1>4, <1>5, <1>6 DEF StoreInv, Lawful

\* A step that revises a task.
LEMMA ReviseStep ==
  ASSUME StoreInv, scenario' = scenario, UNCHANGED <<generation, events, checkpoints>>,
         NEW t \in Tasks, NEW after \in Contents, NEW by \in Authors, NEW saw,
         Revise(t, after, by, saw), saw = tasks[t].content,
         by.source = "proposal" => /\ by.id \in DOMAIN proposals /\ proposals[by.id].status = "awaiting"
                                   /\ proposals[by.id].bound = generation,
         by.source = "bootstrap" => /\ by.id \in DOMAIN bootstraps /\ bootstraps[by.id].status = "pending"
                                    /\ bootstraps[by.id].bound = generation,
         bootstraps' = IF by.source = "bootstrap" THEN [bootstraps EXCEPT ![by.id].status = "confirmed"]
                       ELSE bootstraps,
         TreeInv', \A p \in Projects : Dead(p) => names'[p] = names[p],
         TaskLive(t), ~Dead(after.project), CallMoves
  PROVE  Lawful
<1>1. generation \in Nat
  BY GenerationType DEF StoreInv
<1>2. /\ RowsInv'
      /\ \A i \in DOMAIN proposals : i \in DOMAIN proposals' /\ SameButStatus(proposals[i], proposals'[i])
      /\ \A i \in DOMAIN proposals : proposals[i].status # "applied" /\ proposals'[i].status = "applied" =>
           by = [source |-> "proposal", id |-> i]
      /\ DOMAIN bootstraps' = DOMAIN bootstraps
      /\ \A i \in DOMAIN bootstraps : bootstraps[i].status # "confirmed" /\ bootstraps'[i].status = "confirmed" =>
           by = [source |-> "bootstrap", id |-> i]
  <2>1. RowsInv
    BY DEF StoreInv
  <2> QED BY <2>1, RowsRevised
<1>3. CaptureInv'
  BY DEF StoreInv, CaptureInv
<1>4. /\ tasks'[t] = [version |-> tasks[t].version + 1, content |-> after]
      /\ \A u \in Tasks : u # t => tasks'[u] = tasks[u]
      /\ \A u \in Tasks : tasks[u].version \in Nat
  BY DEF StoreInv, RowsInv, RowTypes, Versions, Revise
<1>5. tasks'[t].version = tasks[t].version + 1 /\ tasks'[t].content = after
  BY <1>4
<1>6. Grows
  <2>1. \A u \in Tasks : /\ tasks'[u].version \in Nat /\ tasks[u].version <= tasks'[u].version
                         /\ tasks'[u].version = tasks[u].version => tasks'[u].content = tasks[u].content
    BY <1>4, <1>5
  <2> QED BY <1>1, <1>2, <2>1 DEF Grows
<1>7. CallsInv'
  BY <1>6, CallsMove
<1>8. Fresh
  <2>1. ASSUME NEW i \in DOMAIN proposals, proposals[i].status # "applied", proposals'[i].status = "applied"
        PROVE  proposals[i].read = generation
    <3>1. by.source = "proposal" /\ by.id = i
      BY <1>2, <2>1
    <3>2. proposals[i].bound = generation /\ Based(proposals[i], tasks, generation) /\ proposals[i].read \in Nat
      <4>1. proposals[i] \in ProposalRows
        BY <2>1, RowsTyped DEF StoreInv
      <4> QED BY <3>1, <4>1 DEF StoreInv, RowsInv, BasedAll, ProposalRows
    <3> QED BY <1>1, <3>2 DEF Based
  <2>2. ASSUME NEW i \in DOMAIN bootstraps, bootstraps[i].status # "confirmed", bootstraps'[i].status = "confirmed"
        PROVE  bootstraps[i].read = generation
    <3>1. by.source = "bootstrap" /\ by.id = i
      BY <1>2, <2>2
    <3>2. /\ bootstraps[i].bound = generation /\ bootstraps[i].read \in Nat
          /\ bootstraps[i].bound <= bootstraps[i].read /\ bootstraps[i].read <= generation
      <4>1. bootstraps[i] \in BootstrapRows
        BY <2>2, RowsTyped DEF StoreInv
      <4> QED BY <3>1, <4>1 DEF StoreInv, RowsInv, BasedAll, BootstrapRows
    <3> QED BY <1>1, <3>2
  <2> QED BY <2>1, <2>2 DEF Fresh
<1>9. Frozen
  <2> SUFFICES ASSUME NEW p \in Projects, Dead(p) PROVE Holds(p)' = Holds(p)
    BY DEF Frozen
  <2>1. ProjectOf(t) # p
    <3>1. CASE tasks[t].version = 0
      <4>1. tasks[t].content = NoContent
        BY <3>1 DEF StoreInv, RowsInv, RowTypes
      <4> QED BY <4>1, TreeAssumption DEF ProjectOf, NoContent
    <3>2. CASE tasks[t].version # 0
      <4>1. Live(ProjectOf(t))
        BY <1>4, <3>2 DEF TaskLive, Exists
      <4> QED BY <4>1 DEF Live
    <3> QED BY <3>1, <3>2
  <2>2. after.project # p
    OBVIOUS
  <2> DEFINE A == {u \in Tasks : tasks[u].content.project = p}
             B == {u \in Tasks : tasks'[u].content.project = p}
  <2>3. A = B /\ t \notin A
    BY <1>4, <1>5, <2>1, <2>2 DEF ProjectOf
  <2>4. {<<u, tasks[u]>> : u \in A} = {<<u, tasks'[u]>> : u \in B}
    <3>1. \A u \in A : tasks'[u] = tasks[u]
      BY <1>4, <2>3
    <3> HIDE DEF A, B
    <3> QED BY <2>3, <3>1
  <2> QED BY <2>4 DEF Holds, ProjectOf
<1> QED BY <1>2, <1>3, <1>7, <1>8, <1>9 DEF StoreInv, Lawful

\* A step that captures an event or makes a checkpoint.
LEMMA CaptureStepped ==
  ASSUME StoreInv, scenario' = scenario,
         UNCHANGED <<tasks, revisions, proposals, bootstraps, names, life, generation>>, TreeInv', CaptureInv',
         \A i \in DOMAIN events : i \in DOMAIN events' /\ events'[i] = events[i],
         \A i \in DOMAIN events' \ DOMAIN events : ~Dead(events'[i].project),
         checkpoints \subseteq checkpoints',
         \A k \in checkpoints' \ checkpoints :
            /\ k.version \in Nat \ {0} /\ ~Dead(k.project)
            /\ \A o \in checkpoints : o.task = k.task => o.version # k.version,
         CallMoves
  PROVE  Lawful
<1>1. generation \in Nat
  BY GenerationType DEF StoreInv
<1>2. ProposalsKept /\ BootstrapsKept
  BY RowsSame DEF StoreInv, RowsInv
<1>3. RowsInv'
  BY <1>1, <1>2, RowsKept DEF StoreInv
<1>4. Grows
  <2>1. \A u \in Tasks : tasks[u].version \in Nat
    BY DEF StoreInv, RowsInv, RowTypes, Versions
  <2> QED BY <1>1, <1>2, <2>1 DEF Grows, ProposalsKept
<1>5. CallsInv'
  BY <1>4, CallsMove
<1>6. Fresh
  BY <1>2 DEF Fresh
<1>7. Frozen
  <2> SUFFICES ASSUME NEW p \in Projects, Dead(p) PROVE Holds(p)' = Holds(p)
    BY DEF Frozen
  <2>1. {i \in DOMAIN events : events[i].project = p} = {i \in DOMAIN events' : events'[i].project = p}
    OBVIOUS
  <2>2. {k \in checkpoints : k.project = p} = {k \in checkpoints' : k.project = p}
    OBVIOUS
  <2>3. {<<u, tasks[u]>> : u \in {w \in Tasks : ProjectOf(w) = p}}
          = {<<u, tasks[u]>> : u \in {w \in Tasks : ProjectOf(w) = p}}'
    BY DEF ProjectOf
  <2> QED BY <2>1, <2>2, <2>3 DEF Holds
<1> QED BY <1>3, <1>5, <1>6, <1>7 DEF StoreInv, Lawful

-----------------------------------------------------------------------------
(* Steps that only read the database *)

\* The projects, when a write at most outdates the previews of life cycle changes.
LEMMA TreeStill ==
  ASSUME TreeInv, UNCHANGED <<names, life, generation>>,
         lifePreviews' \subseteq lifePreviews \/ lifePreviews' = EpochMoved
  PROVE  TreeInv'
<1>1. EpochMoved \subseteq [action : Actions, project : Projects, target : Projects \cup {None},
                            generation : 0..MaxGeneration, epoch : {"same", "moved"}]
  BY DEF TreeInv, TreeTypeOK, EpochMoved
<1>2. TreeTypeOK'
  BY <1>1 DEF TreeInv, TreeTypeOK
<1> QED BY <1>2, TreeKept

\* A step that only moves its call on is lawful when what it remembers is good.
LEMMA ReadStep ==
  ASSUME StoreInv, scenario' = scenario,
         UNCHANGED <<tasks, revisions, proposals, events, checkpoints, treeVars, bootstraps>>,
         NEW c \in Callers, NEW r, call' = [call EXCEPT ![c] = r],
         CallOK(r, tasks, proposals, bootstraps, events, checkpoints, generation)
  PROVE  Lawful
<1>1. TreeInv'
  BY TreeStill DEF StoreInv, treeVars
<1>2. generation \in Nat /\ generation' = generation /\ names' = names
  BY GenerationType DEF StoreInv, treeVars
<1>3. ProposalsKept /\ BootstrapsKept
  BY RowsSame DEF StoreInv, RowsInv
<1>4. CallMoves
  BY <1>2 DEF CallMoves
<1> QED BY <1>1, <1>2, <1>3, <1>4, RowStep

\* Some facts of a call in progress.
LEMMA CallFacts ==
  ASSUME StoreInv, NEW c \in Callers
  PROVE  CallOK(call[c], tasks, proposals, bootstraps, events, checkpoints, generation)
BY DEF StoreInv, CallsInv

\* An editor reads the task he is about to change.
LEMMA OpenTaskStep ==
  ASSUME StoreInv, scenario' = scenario, NEW c \in Callers, NEW t \in Tasks, OpenTask(c, t), UNCHANGED bootstraps
  PROVE  Lawful
<1> DEFINE r == [at |-> "edit", task |-> t, version |-> tasks[t].version, saw |-> tasks[t].content]
<1>1. CallOK(r, tasks, proposals, bootstraps, events, checkpoints, generation)
  <2>1. /\ tasks[t].version \in Versions /\ tasks[t].version \in Nat /\ 1 <= tasks[t].version
        /\ tasks[t].content \in Contents
    <3>1. RowsInv /\ Exists(t)
      BY DEF StoreInv, OpenTask
    <3> QED BY <3>1, RowsTyped
  <2> QED BY <2>1 DEF CallOK
<1>2. call' = [call EXCEPT ![c] = r]
  BY DEF OpenTask
<1> HIDE DEF r
<1> QED BY <1>1, <1>2, ReadStep DEF OpenTask

\* A request for a proposal remembers the generation it observed.
LEMMA ObservedOK ==
  ASSUME StoreInv, NEW t \in Tasks, NEW ops \in SUBSET Operations, NEW sources \in SUBSET Nat,
         NEW derive, NEW auto, NEW ts, NEW ps, NEW bs, NEW es, NEW ks
  PROVE  CallOK(Observed(t, ops, sources, derive, auto), ts, ps, bs, es, ks, generation)
<1>1. generation \in Nat
  BY GenerationType DEF StoreInv
<1> QED BY <1>1 DEF CallOK, Observed

\* A reconciliation starts by observing the generation.
LEMMA ReconcileOpens ==
  ASSUME StoreInv, scenario' = scenario, NEW c \in Callers, NEW t \in Tasks, NEW ops \in SUBSET Operations,
         NEW sources \in SUBSET Nat, NEW derive, NEW auto, Reconcile(c, t, ops, sources, derive, auto),
         UNCHANGED bootstraps
  PROVE  Lawful
<1>1. CallOK(Observed(t, ops, sources, derive, auto), tasks, proposals, bootstraps, events, checkpoints, generation)
  BY ObservedOK
<1> QED BY <1>1, ReadStep DEF Reconcile

\* A bootstrap starts by observing the generation.
LEMMA StartBootstrapStep ==
  ASSUME StoreInv, scenario' = scenario, NEW c \in Callers, NEW kind \in {"project", "task"},
         NEW p \in Projects, NEW title \in Titles, StartBootstrap(c, kind, p, title)
  PROVE  Lawful
<1> DEFINE r == [at |-> "bootstrap", kind |-> kind, project |-> p, title |-> title, bound |-> generation]
<1>1. CallOK(r, tasks, proposals, bootstraps, events, checkpoints, generation)
  <2>1. generation \in Nat
    BY GenerationType DEF StoreInv
  <2> QED BY <2>1 DEF CallOK
<1>2. call' = [call EXCEPT ![c] = r]
  BY DEF StartBootstrap
<1> HIDE DEF r
<1> QED BY <1>1, <1>2, ReadStep DEF StartBootstrap

\* The proposal a request leads to.
LEMMA ProposedOK ==
  ASSUME StoreInv, NEW r, r.at = "generate",
         CallOK(r, tasks, proposals, bootstraps, events, checkpoints, generation), Exists(r.task)
  PROVE  Proposed(r) \in Drafts /\ Based(Proposed(r), tasks, generation)
<1>0. /\ r.task \in Tasks /\ r.ops \in SUBSET Operations /\ r.sources \in SUBSET Nat
      /\ r.bound \in Nat /\ r.bound <= generation /\ generation \in Nat
  BY GenerationType DEF StoreInv, CallOK
<1> DEFINE task == tasks[r.task]
           named == IF r.sources # Latest THEN r.sources
                    ELSE IF r.ops = {} THEN LatestCheckpoints(r.task) ELSE {}
           pending == {proposals[i] : i \in Pending(r.task, task.version)}
           derived == IF r.derive = "yes" THEN Needed(task.content, Derived(named)) ELSE {}
           ops == (UNION {q.ops : q \in pending}) \cup derived \cup Needed(task.content, r.ops)
           sources == named \cup UNION {q.sources : q \in pending}
<1>1. named \in SUBSET Nat
  <2>1. \A k \in checkpoints : k.trigger \in Nat
    BY DEF StoreInv, CaptureInv, CheckpointRows
  <2> QED BY <1>0, <2>1 DEF LatestCheckpoints
<1>2. pending \subseteq ProposalRows
  BY RowsTyped DEF StoreInv, Pending
<1>3. derived \in SUBSET Operations
  <2>1. Derived(named) \in SUBSET Operations
    BY DEF Derived, Operations
  <2> HIDE DEF named
  <2> QED BY <2>1 DEF Needed
<1>4. ops \in SUBSET Operations
  <2> DEFINE taken == UNION {q.ops : q \in pending}
  <2>1. taken \in SUBSET Operations
    <3> HIDE DEF pending
    <3> QED BY <1>2 DEF ProposalRows
  <2>2. Needed(task.content, r.ops) \in SUBSET Operations
    BY <1>0 DEF Needed
  <2> HIDE DEF pending, derived, task
  <2>3. ops = taken \cup derived \cup Needed(task.content, r.ops)
    OBVIOUS
  <2> HIDE DEF taken, ops
  <2> QED BY <1>3, <2>1, <2>2, <2>3
<1>5. sources \in SUBSET Nat
  <2> HIDE DEF pending, named
  <2> QED BY <1>1, <1>2 DEF ProposalRows
<1>6. task.version \in Versions /\ task.version \in Nat /\ 1 <= task.version /\ task.content \in Contents
  <2>1. RowsInv
    BY DEF StoreInv
  <2> QED BY <1>0, <2>1, RowsTyped
<1>7. Merged(ops) \in SUBSET Operations
  <2> HIDE DEF ops
  <2> QED BY <1>4, MergedOps
<1>8. Proposed(r) = [task |-> r.task, base |-> task.version, ops |-> Merged(ops), sources |-> sources,
                     bound |-> r.bound, read |-> generation, saw |-> task.content]
  BY DEF Proposed
<1> HIDE DEF task, named, pending, derived, ops, sources
<1>9. Proposed(r) \in Drafts
  BY <1>0, <1>5, <1>6, <1>7, <1>8 DEF Drafts
<1>10. /\ Proposed(r).task = r.task /\ Proposed(r).base = task.version /\ Proposed(r).saw = task.content
       /\ Proposed(r).bound = r.bound /\ Proposed(r).read = generation
  BY <1>8
<1> QED BY <1>0, <1>6, <1>9, <1>10 DEF Based, task

\* A proposal is computed from the task as it is now, on the authority that
\* was observed earlier.
LEMMA GenerateStep ==
  ASSUME StoreInv, scenario' = scenario, NEW c \in Callers, Generate(c), UNCHANGED bootstraps
  PROVE  Lawful
<1>1. CallOK(call[c], tasks, proposals, bootstraps, events, checkpoints, generation)
  BY CallFacts
<1> DEFINE r == call[c]
           next == [at |-> "insert", auto |-> r.auto, proposal |-> Proposed(r)]
<1>2. CASE call' = [call EXCEPT ![c] = Idle]
  BY <1>2, IdleOK, ReadStep DEF Generate
<1>3. CASE call' = [call EXCEPT ![c] = next] /\ Exists(r.task)
  <2>1. Proposed(r) \in Drafts /\ Based(Proposed(r), tasks, generation)
    BY <1>1, <1>3, ProposedOK DEF Generate
  <2>2. next.at = "insert" /\ next.proposal = Proposed(r)
    OBVIOUS
  <2> HIDE DEF next
  <2>3. CallOK(next, tasks, proposals, bootstraps, events, checkpoints, generation)
    BY <2>1, <2>2 DEF CallOK
  <2> QED BY <1>3, <2>3, ReadStep DEF Generate
<1> QED BY <1>2, <1>3 DEF Generate

\* A bootstrap is computed on the authority that was observed earlier.
LEMMA ReadBootstrapStep ==
  ASSUME StoreInv, scenario' = scenario, NEW c \in Callers, ReadBootstrap(c)
  PROVE  Lawful
<1>0. CallOK(call[c], tasks, proposals, bootstraps, events, checkpoints, generation) /\ call[c].at = "bootstrap"
  BY CallFacts DEF ReadBootstrap
<1> DEFINE r == call[c]
           next == [at |-> "offer", bootstrap |-> Offered(r)]
<1>1. CASE call' = [call EXCEPT ![c] = Idle]
  BY <1>1, IdleOK, ReadStep DEF ReadBootstrap
<1>2. CASE call' = [call EXCEPT ![c] = next] /\ Available(r)
  <2>1. /\ r.kind \in {"project", "task"} /\ r.project \in Projects /\ r.title \in Titles
        /\ r.bound \in Nat /\ r.bound <= generation /\ generation \in Nat
    BY <1>0, GenerationType DEF StoreInv, CallOK
  <2> DEFINE name == IF r.kind = "project" THEN r.project ELSE names[r.project]
  <2>2. name \in Projects
    <3>1. r.kind = "task" => Owned(r.project)
      BY <1>2 DEF Available, IsCanonical, Live
    <3>2. r.kind = "task" => names[r.project] \in Projects
      BY <2>1, <3>1 DEF StoreInv, TreeInv, TreeTypeOK, Owned
    <3> QED BY <2>1, <3>2
  <2>3. Offered(r) = [kind |-> r.kind, project |-> r.project, title |-> r.title, bound |-> r.bound,
                      read |-> generation, name |-> name]
    BY DEF Offered
  <2> HIDE DEF name, r
  <2>4. Offered(r) \in Offers /\ Offered(r).bound = r.bound /\ Offered(r).read = generation
    BY <2>1, <2>2, <2>3 DEF Offers
  <2>5. next.at = "offer" /\ next.bootstrap = Offered(r)
    OBVIOUS
  <2> HIDE DEF next
  <2>6. CallOK(next, tasks, proposals, bootstraps, events, checkpoints, generation)
    BY <2>1, <2>4, <2>5 DEF CallOK
  <2> QED BY <1>2, <2>6, ReadStep DEF ReadBootstrap
<1> QED BY <1>1, <1>2 DEF ReadBootstrap

\* A repeated trigger event goes to the checkpoint step with the event it repeats.
LEMMA RepeatTriggerStep ==
  ASSUME StoreInv, scenario' = scenario, NEW c \in Callers, NEW i \in DOMAIN events, RepeatTrigger(c, i),
         UNCHANGED bootstraps
  PROVE  Lawful
<1>1. CallOK(Checkpointing(i), tasks, proposals, bootstraps, events, checkpoints, generation)
  BY DEF CallOK, Checkpointing
<1> QED BY <1>1, ReadStep DEF RepeatTrigger

\* A process that dies leaves what it has committed.
LEMMA CrashStep ==
  ASSUME StoreInv, scenario' = scenario, NEW c \in Callers, Crash(c)
  PROVE  Lawful
BY IdleOK, ReadStep DEF Crash

-----------------------------------------------------------------------------
(* Proposals *)

\* Proposals and bootstraps change, tasks do not.
LEMMA ProposalStep ==
  ASSUME StoreInv, scenario' = scenario,
         UNCHANGED <<tasks, revisions, events, checkpoints, names, life, generation>>,
         lifePreviews' \subseteq lifePreviews \/ lifePreviews' = EpochMoved,
         ProposalsKept, BootstrapsKept, CallMoves
  PROVE  Lawful
<1>1. TreeInv'
  BY TreeStill DEF StoreInv
<1>2. generation \in Nat
  BY GenerationType DEF StoreInv
<1> QED BY <1>1, <1>2, RowStep

\* The status of a proposal that was neither applied nor becomes so.
LEMMA StatusKept ==
  ASSUME StoreInv, NEW i \in DOMAIN proposals, NEW status \in {"no_effect", "superseded", "stale", "rejected"},
         proposals[i].status = "awaiting", proposals' = [proposals EXCEPT ![i].status = status]
  PROVE  ProposalsKept
<1> DEFINE row == [proposals[i] EXCEPT !.status = status]
<1>0. proposals \in Seq(ProposalRows) /\ proposals[i] \in ProposalRows /\ proposals[i].ops # {}
  <2>1. RowsInv
    BY DEF StoreInv
  <2> QED BY <2>1, RowsTyped DEF RowsInv, RowTypes
<1>1. row \in ProposalRows /\ SameButStatus(proposals[i], row) /\ row.status = status
  BY <1>0 DEF ProposalRows, SameButStatus
<1>2. proposals' = [proposals EXCEPT ![i] = row]
  OBVIOUS
<1> HIDE DEF row
<1>3. proposals' \in Seq(ProposalRows) /\ DOMAIN proposals' = DOMAIN proposals
  BY <1>0, <1>1, <1>2
<1>4. \A j \in DOMAIN proposals : proposals'[j] = IF j = i THEN row ELSE proposals[j]
  BY <1>0, <1>2
<1>5. \A j \in DOMAIN proposals : SameButStatus(proposals[j], proposals'[j])
  BY <1>1, <1>4 DEF SameButStatus
<1>6. \A j \in DOMAIN proposals' : proposals'[j].ops = {} => proposals'[j].status = "no_effect"
  <2>1. \A j \in DOMAIN proposals : proposals[j].ops = {} => proposals[j].status = "no_effect"
    BY DEF StoreInv, RowsInv, RowTypes
  <2> QED BY <1>0, <1>1, <1>3, <1>4, <2>1 DEF SameButStatus
<1>7. \A j \in DOMAIN proposals' :
        proposals'[j].status = "applied" <=> j \in DOMAIN proposals /\ proposals[j].status = "applied"
  BY <1>1, <1>3, <1>4
<1> QED BY <1>3, <1>5, <1>6, <1>7 DEF ProposalsKept

\* A proposal that waits is closed without being applied.
LEMMA SettleStep ==
  ASSUME StoreInv, scenario' = scenario, NEW c \in Callers, NEW i \in DOMAIN proposals,
         proposals[i].status = "awaiting", NEW status \in {"no_effect", "stale", "rejected"},
         Settle(c, i, status), UNCHANGED bootstraps
  PROVE  Lawful
<1>1. ProposalsKept
  BY StatusKept DEF Settle
<1>2. BootstrapsKept
  BY RowsSame DEF StoreInv, RowsInv
<1>3. CallMoves
  BY IdleOK DEF CallMoves, Settle
<1> QED BY <1>1, <1>2, <1>3, ProposalStep DEF Settle

\* An application checks the proposal, and closes it or computes the new content.
LEMMA ApplyProposalStep ==
  ASSUME StoreInv, scenario' = scenario, NEW c \in Callers, NEW id \in DOMAIN proposals, ApplyProposal(c, id),
         UNCHANGED bootstraps
  PROVE  Lawful
<1> DEFINE p == proposals[id]
           task == tasks[p.task]
           after == Applied(task.content, p.ops)
           goes == p.status = "awaiting" /\ Authorised(p)
           fits == goes /\ task.version = p.base /\ ~Conflicting(p.ops)
           next == [at |-> "commit", id |-> id, version |-> task.version, after |-> after]
<1>1. CASE goes /\ Settle(c, id, IF fits THEN "no_effect" ELSE "stale")
  BY <1>1, SettleStep
<1>2. CASE /\ fits /\ call' = [call EXCEPT ![c] = next]
           /\ UNCHANGED <<tasks, revisions, proposals, events, checkpoints, treeVars>>
  <2>1. /\ p \in ProposalRows /\ 1 <= p.base /\ task.version = p.base /\ p.saw = task.content
        /\ task.content \in Contents /\ task.content # NoContent
    <3>0. RowsInv
      BY DEF StoreInv
    <3>1. p \in ProposalRows
      BY <3>0, RowsTyped
    <3>2. 1 <= p.base /\ task.version = p.base /\ p.saw = task.content
      BY <1>2, <3>0 DEF RowsInv, BasedAll, Based
    <3>3. p.task \in Tasks /\ p.base # 0
      BY <3>1, <3>2 DEF ProposalRows, Versions
    <3>4. p.saw \in Contents
      BY <3>1 DEF ProposalRows
    <3> QED BY <3>1, <3>2, <3>4, NoContentApart
  <2>2. p.ops \in SUBSET Operations
    BY <2>1 DEF ProposalRows
  <2>3. after \in Contents /\ after.project = p.saw.project
    BY <2>1, <2>2, AppliedTo
  <2>4. next.at = "commit" /\ next.id = id /\ next.version = p.base /\ next.after = after
    BY <2>1
  <2> HIDE DEF next, after
  <2>5. CallOK(next, tasks, proposals, bootstraps, events, checkpoints, generation)
    BY <2>3, <2>4 DEF CallOK
  <2> QED BY <1>2, <2>5, ReadStep
<1>3. CASE /\ call' = [call EXCEPT ![c] = Idle]
           /\ UNCHANGED <<tasks, revisions, proposals, events, checkpoints, treeVars>>
  BY <1>3, IdleOK, ReadStep
<1> QED BY <1>1, <1>2, <1>3 DEF ApplyProposal

\* The owner applies or rejects a proposal.
LEMMA ResolveProposalStep ==
  ASSUME StoreInv, scenario' = scenario, NEW c \in Callers, NEW id \in DOMAIN proposals, NEW decision,
         ResolveProposal(c, id, decision), UNCHANGED bootstraps
  PROVE  Lawful
BY ApplyProposalStep, SettleStep DEF ResolveProposal

\* A proposal is inserted.
LEMMA InsertProposalStep ==
  ASSUME StoreInv, scenario' = scenario, NEW c \in Callers, InsertProposal(c), UNCHANGED bootstraps
  PROVE  Lawful
<1> DEFINE p == call[c].proposal
           n == Len(proposals)
           row == WithStatus(p, IF p.ops = {} THEN "no_effect" ELSE "awaiting")
           next == IF p.ops = {} THEN Idle
                   ELSE [at |-> "supersede", id |-> Len(proposals) + 1, auto |-> call[c].auto]
<1>0. /\ proposals \in Seq(ProposalRows) /\ n \in Nat /\ DOMAIN proposals = 1..n
      /\ p \in Drafts /\ Based(p, tasks, generation)
  <2>1. p \in Drafts /\ Based(p, tasks, generation)
    BY CallFacts DEF InsertProposal, CallOK
  <2>2. proposals \in Seq(ProposalRows)
    BY DEF StoreInv, RowsInv, RowTypes
  <2> QED BY <2>1, <2>2
<1>1. BootstrapsKept
  BY RowsSame DEF StoreInv, RowsInv
<1>2. CASE Known(p)
  <2>1. /\ call' = [call EXCEPT ![c] = Idle] /\ UNCHANGED <<proposals, lifePreviews>>
        /\ UNCHANGED <<tasks, revisions, events, checkpoints, names, life, generation>>
    BY <1>2 DEF InsertProposal
  <2>2. ProposalsKept
    BY <2>1, RowsSame DEF StoreInv, RowsInv
  <2>3. CallMoves
    BY <2>1, IdleOK DEF CallMoves
  <2> QED BY <1>1, <2>1, <2>2, <2>3, ProposalStep
<1>3. CASE ~Known(p)
  <2>1. /\ proposals' = Append(proposals, row) /\ call' = [call EXCEPT ![c] = next]
        /\ lifePreviews' = EpochMoved
        /\ UNCHANGED <<tasks, revisions, events, checkpoints, names, life, generation>>
    BY <1>3 DEF InsertProposal
  <2>2. /\ row \in ProposalRows /\ SameButStatus(p, row) /\ row.status # "applied"
        /\ row.ops = {} => row.status = "no_effect"
    BY <1>0 DEF Drafts, ProposalRows, WithStatus, SameButStatus
  <2> HIDE DEF row
  <2>3. /\ proposals' \in Seq(ProposalRows) /\ DOMAIN proposals' = 1..(n + 1)
        /\ \A i \in DOMAIN proposals : proposals'[i] = proposals[i]
        /\ proposals'[n + 1] = row
    BY <1>0, <2>1, <2>2
  <2>4. Based(row, tasks, generation)
    BY <1>0, <2>2 DEF Based, SameButStatus
  <2>5. \A i \in DOMAIN proposals : i \in DOMAIN proposals' /\ SameButStatus(proposals[i], proposals'[i])
    BY <1>0, <2>3 DEF SameButStatus
  <2>6. ASSUME NEW i \in DOMAIN proposals'
        PROVE  /\ proposals'[i].ops = {} => proposals'[i].status = "no_effect"
               /\ proposals'[i].status = "applied" <=> i \in DOMAIN proposals /\ proposals[i].status = "applied"
               /\ i \in DOMAIN proposals \/ Based(proposals'[i], tasks, generation)
    <3>1. CASE i = n + 1
      BY <1>0, <2>2, <2>3, <2>4, <3>1
    <3>2. CASE i \in DOMAIN proposals
      BY <2>3, <3>2 DEF StoreInv, RowsInv, RowTypes
    <3> QED BY <1>0, <2>3, <2>6, <3>1, <3>2
  <2>7. ProposalsKept
    BY <2>3, <2>5, <2>6 DEF ProposalsKept
  <2>8. CallOK(next, tasks', proposals', bootstraps', events', checkpoints', generation')
    <3>1. next = Idle \/ (next.at = "supersede" /\ next.id = n + 1)
      OBVIOUS
    <3> HIDE DEF next
    <3>2. CASE next = Idle
      BY <3>2, IdleOK
    <3>3. CASE next.at = "supersede" /\ next.id = n + 1
      BY <1>0, <2>3, <3>3 DEF CallOK
    <3> QED BY <3>1, <3>2, <3>3
  <2>9. CallMoves
    BY <2>1, <2>8 DEF CallMoves
  <2> QED BY <1>1, <2>1, <2>7, <2>9, ProposalStep
<1> QED BY <1>2, <1>3

\* The proposals of the same task and version give way to the new one.
LEMMA SupersedeOthersStep ==
  ASSUME StoreInv, scenario' = scenario, NEW c \in Callers, SupersedeOthers(c), UNCHANGED bootstraps
  PROVE  Lawful
<1> DEFINE id == call[c].id
           p == proposals[id]
           next == IF AllSafe(p) /\ call[c].auto = "yes" THEN [at |-> "apply", id |-> id] ELSE Idle
           others == {i \in Pending(p.task, p.base) : i # id}
<1>0. /\ proposals \in Seq(ProposalRows) /\ id \in DOMAIN proposals
      /\ \A i \in DOMAIN proposals : /\ proposals[i] \in ProposalRows
                                     /\ proposals[i].ops = {} => proposals[i].status = "no_effect"
  <2>0. RowsInv
    BY DEF StoreInv
  <2>1. id \in DOMAIN proposals
    BY CallFacts DEF SupersedeOthers, CallOK
  <2>2. \A i \in DOMAIN proposals : proposals[i] \in ProposalRows
    BY <2>0, RowsTyped
  <2> QED BY <2>0, <2>1, <2>2 DEF RowsInv, RowTypes
<1>1. /\ proposals' = [i \in DOMAIN proposals |-> IF i \in others THEN [proposals[i] EXCEPT !.status = "superseded"]
                                                  ELSE proposals[i]]
      /\ call' = [call EXCEPT ![c] = next] /\ lifePreviews' = EpochMoved
      /\ UNCHANGED <<tasks, revisions, events, checkpoints, names, life, generation>>
  BY DEF SupersedeOthers
<1>2. \A i \in others : i \in DOMAIN proposals /\ proposals[i].status = "awaiting"
  BY DEF Pending
<1> HIDE DEF others, next, id, p
<1>3. DOMAIN proposals' = DOMAIN proposals
  BY <1>1
<1>4. \A i \in DOMAIN proposals :
        /\ proposals'[i] \in ProposalRows /\ SameButStatus(proposals[i], proposals'[i])
        /\ proposals'[i].status = "applied" <=> proposals[i].status = "applied"
        /\ proposals'[i].ops = {} => proposals'[i].status = "no_effect"
  <2> SUFFICES ASSUME NEW i \in DOMAIN proposals
               PROVE  /\ proposals'[i] \in ProposalRows /\ SameButStatus(proposals[i], proposals'[i])
                      /\ proposals'[i].status = "applied" <=> proposals[i].status = "applied"
                      /\ proposals'[i].ops = {} => proposals'[i].status = "no_effect"
    OBVIOUS
  <2>1. CASE i \in others
    <3>1. proposals'[i] = [proposals[i] EXCEPT !.status = "superseded"] /\ proposals[i].status = "awaiting"
      BY <1>1, <1>2, <2>1
    <3> QED BY <1>0, <3>1 DEF ProposalRows, SameButStatus
  <2>2. CASE i \notin others
    <3>1. proposals'[i] = proposals[i]
      BY <1>1, <2>2
    <3> QED BY <1>0, <3>1 DEF SameButStatus
  <2> QED BY <2>1, <2>2
<1>5. proposals' \in Seq(ProposalRows)
  <2>1. \E m \in Nat : DOMAIN proposals = 1..m
    BY <1>0
  <2>2. proposals' = [i \in DOMAIN proposals |-> proposals'[i]]
    <3> DEFINE f == [i \in DOMAIN proposals |-> IF i \in others THEN [proposals[i] EXCEPT !.status = "superseded"]
                                                ELSE proposals[i]]
    <3>1. f = [i \in DOMAIN proposals |-> f[i]]
      OBVIOUS
    <3>2. proposals' = f
      BY <1>1
    <3> HIDE DEF f
    <3> QED BY <3>1, <3>2
  <2> QED BY <1>4, <2>1, <2>2
<1>6. ProposalsKept
  BY <1>3, <1>4, <1>5 DEF ProposalsKept
<1>7. CallOK(next, tasks', proposals', bootstraps', events', checkpoints', generation')
  <2>1. next = Idle \/ (next.at = "apply" /\ next.id = id)
    BY DEF next
  <2>2. CASE next = Idle
    BY <2>2, IdleOK
  <2>3. CASE next.at = "apply" /\ next.id = id
    BY <1>0, <1>3, <2>3 DEF CallOK
  <2> QED BY <2>1, <2>2, <2>3
<1>8. CallMoves
  BY <1>1, <1>7 DEF CallMoves
<1>9. BootstrapsKept
  BY RowsSame DEF StoreInv, RowsInv
<1> QED BY <1>1, <1>6, <1>8, <1>9, ProposalStep

-----------------------------------------------------------------------------
(* Revisions of tasks *)

\* A proposal revises its task where its authority and the version still hold:
\* what it saw is then what it replaces.
LEMMA CommitProposalStep ==
  ASSUME StoreInv, scenario' = scenario, NEW c \in Callers, CommitProposal(c), UNCHANGED bootstraps
  PROVE  Lawful
<1> DEFINE id == call[c].id
           p == proposals[id]
           by == [source |-> "proposal", id |-> id]
           goes == Authorised(p) /\ tasks[p.task].version = call[c].version /\ p.status = "awaiting"
<1>0. /\ id \in DOMAIN proposals /\ call[c].version = p.base
      /\ call[c].after \in Contents /\ call[c].after.project = p.saw.project
      /\ call' = [call EXCEPT ![c] = Idle] /\ UNCHANGED <<names, life, generation, events, checkpoints>>
  BY CallFacts DEF CommitProposal, CallOK
<1>1. CallMoves
  BY <1>0, IdleOK DEF CallMoves
<1>2. CASE ~goes
  <2>1. UNCHANGED <<tasks, revisions, proposals, lifePreviews>>
    BY <1>2 DEF CommitProposal
  <2>2. ProposalsKept /\ BootstrapsKept
    BY <2>1, RowsSame DEF StoreInv, RowsInv
  <2> QED BY <1>0, <1>1, <2>1, <2>2, ProposalStep
<1>3. CASE goes
  <2>1. Revise(p.task, call[c].after, by, p.saw)
    BY <1>3 DEF CommitProposal
  <2>2. RowsInv /\ p \in ProposalRows
    BY <1>0, RowsTyped DEF StoreInv
  <2>3. p.task \in Tasks /\ 1 <= p.base /\ p.saw = tasks[p.task].content
    BY <1>0, <1>3, <2>2 DEF RowsInv, BasedAll, Based, ProposalRows
  <2>4. by \in Authors /\ by.source = "proposal" /\ by.id = id
    <3>1. id \in Nat
      BY <1>0 DEF StoreInv, RowsInv, RowTypes
    <3> QED BY <3>1 DEF Authors, Sources
  <2>5. TreeInv'
    BY <1>0, <2>1, TreeStill DEF StoreInv, Revise
  <2>6. TaskLive(p.task) /\ p.bound = generation /\ p.status = "awaiting"
    BY <1>3 DEF Authorised
  <2>7. ~Dead(call[c].after.project)
    <3>1. Exists(p.task)
      <4>1. tasks[p.task].version = p.base /\ tasks[p.task].version \in Nat /\ 1 <= p.base
        BY <1>0, <1>3, <2>2, <2>3, RowsTyped
      <4> QED BY <4>1 DEF Exists
    <3>2. Live(ProjectOf(p.task))
      BY <2>6, <3>1 DEF TaskLive
    <3> QED BY <1>0, <2>3, <3>2 DEF Live, ProjectOf
  <2> HIDE DEF by, p
  <2> QED BY <1>0, <1>1, <2>1, <2>3, <2>4, <2>5, <2>6, <2>7, ReviseStep DEF p
<1> QED BY <1>2, <1>3

\* An edit revises its task where the version it read still holds.
LEMMA UpdateTaskStep ==
  ASSUME StoreInv, scenario' = scenario, NEW c \in Callers, NEW title \in Titles, UpdateTask(c, title),
         UNCHANGED bootstraps
  PROVE  Lawful
<1> DEFINE t == call[c].task
           after == [tasks[t].content EXCEPT !.title = title]
           by == [source |-> "edit", id |-> 0]
<1>0. /\ t \in Tasks /\ call[c].version = tasks[t].version /\ 1 <= call[c].version
      /\ call[c].saw = tasks[t].content /\ call[c].saw \in Contents
      /\ TaskLive(t) /\ call' = [call EXCEPT ![c] = Idle] /\ UNCHANGED <<names, life, generation, events, checkpoints>>
  BY CallFacts DEF UpdateTask, CallOK
<1>1. CallMoves
  BY <1>0, IdleOK DEF CallMoves
<1>2. CASE UNCHANGED <<tasks, revisions, proposals, lifePreviews>>
  <2>1. ProposalsKept /\ BootstrapsKept
    BY <1>2, RowsSame DEF StoreInv, RowsInv
  <2> QED BY <1>0, <1>1, <1>2, <2>1, ProposalStep
<1>3. CASE Revise(t, after, by, call[c].saw)
  <2>1. after \in Contents /\ after.project = tasks[t].content.project
    BY <1>0 DEF Contents
  <2>2. by \in Authors /\ by.source = "edit"
    BY DEF Authors, Sources
  <2>3. TreeInv'
    BY <1>0, <1>3, TreeStill DEF StoreInv, Revise
  <2>4. ~Dead(after.project)
    <3>1. Exists(t)
      <4>1. tasks[t].version \in Nat /\ 1 <= tasks[t].version
        BY <1>0, RowsTyped DEF StoreInv
      <4> QED BY <4>1 DEF Exists
    <3>2. Live(ProjectOf(t))
      BY <1>0, <3>1 DEF TaskLive
    <3> QED BY <2>1, <3>2 DEF Live, ProjectOf
  <2> HIDE DEF by, after
  <2> QED BY <1>0, <1>1, <1>3, <2>1, <2>2, <2>3, <2>4, ReviseStep
<1> QED BY <1>2, <1>3 DEF UpdateTask, WriteUpserted

\* Where a write is routed to is not deleted.
LEMMA Routed ==
  ASSUME TreeInv, NEW p \in Projects, Writable(p), NEW origin \in Projects \cup {None},
         origin # None => Live(origin)
  PROVE  /\ Route(p, origin) \in Projects
         /\ ~Dead(Route(p, origin))
<1>1. CASE ~Owned(p)
  BY <1>1 DEF Route, Dead
<1>2. CASE Owned(p)
  <2>1. /\ Canonical(p) \in Projects /\ Canonical(Canonical(p)) = Canonical(p)
    BY CanonicalFacts
  <2>2. ~Dead(Canonical(p))
    BY <1>2, <2>1 DEF Writable, Dead
  <2>3. origin # None => ~Dead(origin)
    BY DEF Live
  <2>4. Route(p, origin) = Canonical(p) \/ (Route(p, origin) = origin /\ origin # None)
    BY <1>2 DEF Route
  <2> QED BY <2>1, <2>2, <2>3, <2>4
<1> QED BY <1>1, <1>2

\* A project that is made does not hold anything yet.
LEMMA NamesStep ==
  ASSUME TreeInv, NEW p \in Projects, NEW name \in Projects, ~Dead(p),
         names' = [names EXCEPT ![p] = name] \/ names' = names,
         UNCHANGED <<life, generation>>, lifePreviews' = lifePreviews \/ lifePreviews' = EpochMoved
  PROVE  TreeInv' /\ \A q \in Projects : Dead(q) => names'[q] = names[q]
<1>1. EpochMoved \subseteq [action : Actions, project : Projects, target : Projects \cup {None},
                            generation : 0..MaxGeneration, epoch : {"same", "moved"}]
  BY DEF TreeInv, TreeTypeOK, EpochMoved
<1>2. TreeTypeOK'
  BY <1>1 DEF TreeInv, TreeTypeOK
<1>3. TreeInv'
  BY <1>2, TreeNamed, TreeKept
<1>4. \A q \in Projects : Dead(q) => names'[q] = names[q]
  BY DEF TreeInv, TreeTypeOK
<1> QED BY <1>3, <1>4

\* A write of a whole task makes it or revises it, in the project that its
\* project stands for.
LEMMA UpsertTaskStep ==
  ASSUME StoreInv, scenario' = scenario, NEW t \in Tasks, NEW p \in Projects, NEW title \in Titles,
         NEW note \in {"in", "out"}, UpsertTask(t, p, title, note), UNCHANGED bootstraps
  PROVE  Lawful
<1> DEFINE dest == Route(p, ProjectOf(t))
           after == [project |-> dest, title |-> title, note |-> note]
           by == [source |-> "upsert", id |-> 0]
<1>0. /\ TaskLive(t) /\ Writable(p) /\ UNCHANGED <<life, generation, events, checkpoints, call>>
      /\ names' = names \/ names' = [names EXCEPT ![dest] = dest]
      /\ \/ Revise(t, after, by, tasks[t].content)
         \/ UNCHANGED <<tasks, revisions, proposals, lifePreviews>>
  BY DEF UpsertTask, WriteUpserted
<1>1. dest \in Projects /\ ~Dead(dest)
  <2>1. ProjectOf(t) \in Projects \cup {None} /\ (ProjectOf(t) # None => Live(ProjectOf(t)))
    <3>1. CASE Exists(t)
      <4>1. tasks[t].content \in Contents
        BY <3>1, RowsTyped DEF StoreInv
      <4> QED BY <1>0, <3>1, <4>1 DEF Contents, ProjectOf, TaskLive
    <3>2. CASE ~Exists(t)
      <4>1. tasks[t].content = NoContent
        BY <3>2, RowsTyped DEF StoreInv
      <4> QED BY <4>1 DEF NoContent, ProjectOf
    <3> QED BY <3>1, <3>2
  <2> QED BY <1>0, <2>1, Routed DEF StoreInv
<1>2. after \in Contents /\ after.project = dest
  BY <1>1 DEF Contents
<1> HIDE DEF dest, after
<1>3. TreeInv' /\ \A q \in Projects : Dead(q) => names'[q] = names[q]
  <2>1. lifePreviews' = lifePreviews \/ lifePreviews' = EpochMoved
    BY <1>0 DEF Revise
  <2> QED BY <1>0, <1>1, <2>1, NamesStep DEF StoreInv
<1>4. CallMoves
  BY <1>0 DEF CallMoves
<1>5. CASE UNCHANGED <<tasks, revisions, proposals, lifePreviews>>
  <2>1. ProposalsKept /\ BootstrapsKept
    BY <1>5, RowsSame DEF StoreInv, RowsInv
  <2>2. generation \in Nat /\ generation' = generation
    BY <1>0, GenerationType DEF StoreInv
  <2> QED BY <1>0, <1>3, <1>4, <1>5, <2>1, <2>2, RowStep
<1>6. CASE Revise(t, after, by, tasks[t].content)
  <2>1. by \in Authors /\ by.source = "upsert"
    BY DEF Authors, Sources
  <2> HIDE DEF by
  <2> QED BY <1>0, <1>1, <1>2, <1>3, <1>4, <1>6, <2>1, ReviseStep
<1> QED BY <1>0, <1>5, <1>6

\* A write of a project makes it.
LEMMA UpsertProjectStep ==
  ASSUME StoreInv, scenario' = scenario, NEW p \in Projects, NEW name \in Projects, UpsertProject(p, name),
         UNCHANGED <<canonVars, bootstraps>>
  PROVE  Lawful
<1>1. ~Dead(p)
  BY DEF UpsertProject, IsCanonical, Live, Dead
<1>2. TreeInv' /\ \A q \in Projects : Dead(q) => names'[q] = names[q]
  BY <1>1, NamesStep DEF StoreInv, UpsertProject
<1>3. ProposalsKept /\ BootstrapsKept
  BY RowsSame DEF StoreInv, RowsInv, canonVars
<1>4. generation \in Nat /\ generation' = generation
  BY GenerationType DEF StoreInv, UpsertProject
<1>5. CallMoves
  BY DEF CallMoves, canonVars
<1> QED BY <1>2, <1>3, <1>4, <1>5, RowStep DEF canonVars

-----------------------------------------------------------------------------
(* Bootstraps *)

\* A change of a bootstrap that does not confirm it.
LEMMA BootstrapKept ==
  ASSUME StoreInv, NEW i \in DOMAIN bootstraps, bootstraps[i].status # "confirmed", NEW row \in BootstrapRows,
         bootstraps' = [bootstraps EXCEPT ![i] = row], row.status # "confirmed",
         row.bound = bootstraps[i].bound, row.read = bootstraps[i].read
  PROVE  BootstrapsKept
<1>0. bootstraps \in Seq(BootstrapRows)
  BY DEF StoreInv, RowsInv, RowTypes
<1>1. bootstraps' \in Seq(BootstrapRows) /\ DOMAIN bootstraps' = DOMAIN bootstraps
  BY <1>0
<1>2. \A j \in DOMAIN bootstraps : bootstraps'[j] = IF j = i THEN row ELSE bootstraps[j]
  BY <1>0
<1> QED BY <1>1, <1>2 DEF BootstrapsKept

\* The owner decides on a bootstrap that waits.
LEMMA DecideBootstrapStep ==
  ASSUME StoreInv, scenario' = scenario, NEW c \in Callers, NEW i \in DOMAIN bootstraps, NEW confirmed,
         DecideBootstrap(c, i, confirmed)
  PROVE  Lawful
<1>0. bootstraps[i] \in BootstrapRows /\ bootstraps[i].status = "pending"
  BY RowsTyped DEF StoreInv, DecideBootstrap
<1>1. ProposalsKept
  BY RowsSame DEF StoreInv, RowsInv, DecideBootstrap
<1>2. CASE bootstraps[i].late = "yes" \/ confirmed = "no"
  <2> DEFINE status == IF bootstraps[i].late = "yes" THEN "expired" ELSE "cancelled"
             row == [bootstraps[i] EXCEPT !.status = status]
  <2>1. /\ row \in BootstrapRows /\ row.status # "confirmed"
        /\ row.bound = bootstraps[i].bound /\ row.read = bootstraps[i].read
    BY <1>0 DEF BootstrapRows
  <2>2. bootstraps' = [bootstraps EXCEPT ![i] = row] /\ call' = call
    BY <1>2 DEF DecideBootstrap
  <2> HIDE DEF row
  <2>3. BootstrapsKept
    BY <1>0, <2>1, <2>2, BootstrapKept
  <2>4. CallMoves
    BY <2>2 DEF CallMoves
  <2> QED BY <1>1, <1>2, <2>3, <2>4, ProposalStep DEF DecideBootstrap
<1>3. CASE ~(bootstraps[i].late = "yes" \/ confirmed = "no")
  <2> DEFINE r == [at |-> "confirm", id |-> i]
  <2>1. CallOK(r, tasks, proposals, bootstraps, events, checkpoints, generation)
    BY DEF CallOK
  <2>2. call' = [call EXCEPT ![c] = r]
    BY <1>3 DEF DecideBootstrap
  <2> HIDE DEF r
  <2> QED BY <1>3, <2>1, <2>2, ReadStep DEF DecideBootstrap, treeVars
<1> QED BY <1>2, <1>3

\* The time a bootstrap may wait runs out.
LEMMA BootstrapLateStep ==
  ASSUME StoreInv, scenario' = scenario, NEW i \in DOMAIN bootstraps, BootstrapLate(i)
  PROVE  Lawful
<1> DEFINE row == [bootstraps[i] EXCEPT !.late = "yes"]
<1>0. bootstraps[i] \in BootstrapRows /\ bootstraps[i].status = "pending"
  BY RowsTyped DEF StoreInv, BootstrapLate
<1>1. /\ row \in BootstrapRows /\ row.status # "confirmed"
      /\ row.bound = bootstraps[i].bound /\ row.read = bootstraps[i].read
  BY <1>0 DEF BootstrapRows, Flags
<1>2. bootstraps' = [bootstraps EXCEPT ![i] = row]
  BY DEF BootstrapLate
<1> HIDE DEF row
<1>3. BootstrapsKept
  BY <1>0, <1>1, <1>2, BootstrapKept
<1>4. ProposalsKept
  BY RowsSame DEF StoreInv, RowsInv, BootstrapLate, canonVars
<1>5. CallMoves
  BY DEF CallMoves, BootstrapLate, canonVars
<1> QED BY <1>3, <1>4, <1>5, ProposalStep DEF BootstrapLate, canonVars, treeVars

\* A bootstrap is inserted, and waits for the owner.
LEMMA InsertBootstrapStep ==
  ASSUME StoreInv, scenario' = scenario, NEW c \in Callers, InsertBootstrap(c)
  PROVE  Lawful
<1> DEFINE b == call[c].bootstrap
           n == Len(bootstraps)
           row == [kind |-> b.kind, project |-> b.project, title |-> b.title, name |-> b.name,
                   bound |-> b.bound, read |-> b.read, status |-> "pending", late |-> "no"]
<1>0. b \in Offers /\ b.bound <= b.read /\ b.read <= generation
  BY CallFacts DEF InsertBootstrap, CallOK
<1>1. row \in BootstrapRows /\ row.status = "pending" /\ row.bound = b.bound /\ row.read = b.read
  BY <1>0 DEF Offers, BootstrapRows, Flags
<1>2. bootstraps' = Append(bootstraps, row)
  BY DEF InsertBootstrap
<1> HIDE DEF row
<1>3. bootstraps \in Seq(BootstrapRows) /\ n \in Nat /\ DOMAIN bootstraps = 1..n
  BY DEF StoreInv, RowsInv, RowTypes
<1>4. /\ bootstraps' \in Seq(BootstrapRows) /\ DOMAIN bootstraps' = 1..(n + 1)
      /\ \A i \in DOMAIN bootstraps : bootstraps'[i] = bootstraps[i]
      /\ bootstraps'[n + 1] = row
  BY <1>1, <1>2, <1>3
<1>5. BootstrapsKept
  BY <1>0, <1>1, <1>3, <1>4 DEF BootstrapsKept
<1>6. ProposalsKept
  BY RowsSame DEF StoreInv, RowsInv, InsertBootstrap
<1>7. CallMoves
  BY IdleOK DEF CallMoves, InsertBootstrap
<1> QED BY <1>5, <1>6, <1>7, ProposalStep DEF InsertBootstrap

\* A confirmed bootstrap makes its task, where its authority still holds.
LEMMA ConfirmBootstrapStep ==
  ASSUME StoreInv, scenario' = scenario, NEW c \in Callers, ConfirmBootstrap(c)
  PROVE  Lawful
<1> DEFINE i == call[c].id
           b == bootstraps[i]
           t == TaskOf(b)
           after == [project |-> b.project, title |-> b.title, note |-> "out"]
           by == [source |-> "bootstrap", id |-> i]
<1>0. /\ i \in DOMAIN bootstraps /\ call' = [call EXCEPT ![c] = Idle]
      /\ UNCHANGED <<life, generation, events, checkpoints>>
  BY CallFacts DEF ConfirmBootstrap, CallOK
<1>1. CallMoves
  BY <1>0, IdleOK DEF CallMoves
<1>2. CASE ~Confirmable(b)
  <2>1. UNCHANGED <<names, tasks, revisions, proposals, lifePreviews, bootstraps>>
    BY <1>2 DEF ConfirmBootstrap
  <2>2. ProposalsKept /\ BootstrapsKept
    BY <2>1, RowsSame DEF StoreInv, RowsInv
  <2> QED BY <1>0, <1>1, <2>1, <2>2, ProposalStep
<1>3. CASE Confirmable(b)
  <2>1. /\ names' = [names EXCEPT ![b.project] = b.name] /\ Revise(t, after, by, NoContent)
        /\ bootstraps' = [bootstraps EXCEPT ![i].status = "confirmed"]
    BY <1>3 DEF ConfirmBootstrap
  <2>2. b \in BootstrapRows /\ RowsInv
    BY <1>0, RowsTyped DEF StoreInv
  <2>3. t \in Tasks /\ b.project \in Projects /\ b.name \in Projects /\ after \in Contents
    BY <2>2 DEF BootstrapRows, Tasks, TaskOf, Contents
  <2>4. by \in Authors /\ by.source = "bootstrap" /\ by.id = i
    <3>1. i \in Nat
      BY <1>0, <2>2 DEF RowsInv, RowTypes
    <3> QED BY <3>1 DEF Authors, Sources
  <2>5. ~Dead(b.project) /\ b.bound = generation /\ b.status = "pending" /\ ~Exists(t)
    BY <1>3 DEF Confirmable
  <2>6. TreeInv' /\ \A q \in Projects : Dead(q) => names'[q] = names[q]
    BY <1>0, <2>1, <2>3, <2>5, NamesStep DEF StoreInv, Revise
  <2>7. NoContent = tasks[t].content
    BY <2>2, <2>3, <2>5, RowsTyped
  <2>8. TaskLive(t) /\ after.project = b.project
    BY <2>5 DEF TaskLive
  <2> HIDE DEF by, after, t
  <2> QED BY <1>0, <1>1, <2>1, <2>3, <2>4, <2>5, <2>6, <2>7, <2>8, ReviseStep
<1> QED BY <1>2, <1>3

-----------------------------------------------------------------------------
(* The life cycle *)

\* A preview of a lifecycle change is computed and kept.
LEMMA PreviewStep ==
  ASSUME StoreInv, scenario' = scenario, NEW action \in Actions, NEW p \in Projects,
         NEW q \in Projects \cup {None}, Preview(action, p, q), UNCHANGED <<canonVars, bootstraps>>
  PROVE  Lawful
<1>1. TreeTypeOK'
  <2>1. [action |-> action, project |-> p, target |-> q, generation |-> generation, epoch |-> "same"]
          \in [action : Actions, project : Projects, target : Projects \cup {None},
               generation : 0..MaxGeneration, epoch : {"same", "moved"}]
    BY DEF StoreInv, TreeInv, TreeTypeOK
  <2> QED BY <2>1 DEF StoreInv, TreeInv, TreeTypeOK, Preview
<1>2. TreeInv'
  BY <1>1, TreeKept DEF StoreInv, Preview
<1>3. ProposalsKept /\ BootstrapsKept
  BY RowsSame DEF StoreInv, RowsInv, canonVars
<1>4. generation \in Nat /\ generation' = generation
  BY GenerationType DEF StoreInv, Preview
<1>5. CallMoves
  BY DEF CallMoves, canonVars
<1> QED BY <1>2, <1>3, <1>4, <1>5, RowStep DEF canonVars, Preview

\* A preview of a lifecycle change runs out.
LEMMA ExpiredStep ==
  ASSUME StoreInv, scenario' = scenario, NEW v \in lifePreviews, Expired(v), UNCHANGED <<canonVars, bootstraps>>
  PROVE  Lawful
<1>1. ProposalsKept /\ BootstrapsKept
  BY RowsSame DEF StoreInv, RowsInv, canonVars
<1>2. CallMoves
  BY DEF CallMoves, canonVars
<1>3. lifePreviews' \subseteq lifePreviews
  BY DEF Expired
<1> QED BY <1>1, <1>2, <1>3, ProposalStep DEF canonVars, Expired

\* A deletion, restoration or merge leaves the projects resolvable.
LEMMA TreeConfirmed ==
  ASSUME TreeInv, NEW v \in lifePreviews, Confirm(v)
  PROVE  TreeInv'
<1>0. /\ v.action \in Actions /\ v.project \in Projects /\ v.target \in Projects \cup {None}
      /\ generation \in Nat /\ MaxGeneration \in Nat
      /\ life \in [Projects -> [state : {"active", "deleted", "merged"}, into : Projects \cup {None}]]
  BY TreeAssumption DEF TreeInv, TreeTypeOK
<1> DEFINE row == CASE v.action = "delete" -> [state |-> "deleted", into |-> None]
                    [] v.action = "restore" -> Active
                    [] v.action = "merge" -> [state |-> "merged", into |-> v.target]
<1>1. life' = [life EXCEPT ![v.project] = row] /\ names' = names
  BY DEF Confirm
<1>2. /\ v.action = "delete" => row = [state |-> "deleted", into |-> None]
      /\ v.action = "restore" => row = Active
      /\ v.action = "merge" => row = [state |-> "merged", into |-> v.target]
  OBVIOUS
<1> HIDE DEF row
<1>3. TreeTypeOK'
  <2>1. row \in [state : {"active", "deleted", "merged"}, into : Projects \cup {None}]
    BY <1>0, <1>2 DEF Actions, Active
  <2>2. life' \in [Projects -> [state : {"active", "deleted", "merged"}, into : Projects \cup {None}]]
    BY <1>0, <1>1, <2>1
  <2>3. generation' \in 0..MaxGeneration /\ lifePreviews' = {}
    BY <1>0 DEF Confirm
  <2> QED BY <1>1, <2>2, <2>3 DEF TreeInv, TreeTypeOK
<1>4. Owned(v.project) /\ life[v.project].state # "merged"
  BY DEF Confirm, Subject
<1>5. CASE v.action # "merge"
  <2>1. row.state # "merged"
    BY <1>0, <1>2, <1>5 DEF Actions, Active
  <2> QED BY <1>0, <1>1, <1>3, <1>4, <2>1, TreeToggled
<1>6. CASE v.action = "merge"
  <2>1. Subject("merge", v.project, v.target)
    BY <1>6 DEF Confirm
  <2>2. v.target \in Projects
    BY <1>0, <2>1 DEF Subject
  <2> QED BY <1>0, <1>1, <1>2, <1>3, <1>6, <2>1, <2>2, TreeMerged
<1> QED BY <1>5, <1>6

\* A lifecycle change is confirmed: it advances the generation and changes no
\* task of a deleted project.
LEMMA ConfirmStep ==
  ASSUME StoreInv, scenario' = scenario, NEW v \in lifePreviews, Confirm(v), UNCHANGED <<canonVars, bootstraps>>
  PROVE  Lawful
<1>1. TreeInv'
  BY TreeConfirmed DEF StoreInv
<1>2. generation \in Nat /\ generation' = generation + 1
  BY GenerationType DEF StoreInv, Confirm
<1>3. ProposalsKept /\ BootstrapsKept
  BY RowsSame DEF StoreInv, RowsInv, canonVars
<1>4. CallMoves
  BY DEF CallMoves, canonVars
<1>5. generation' \in Nat /\ generation <= generation'
  BY <1>2
<1> QED BY <1>1, <1>3, <1>4, <1>5, RowStep DEF canonVars, Confirm

-----------------------------------------------------------------------------
(* Capture *)

\* An event is appended, in no deleted project.
LEMMA AppendEventStep ==
  ASSUME StoreInv, scenario' = scenario, NEW c \in Callers, NEW t \in Tasks, NEW p \in Projects,
         NEW claim \in Claims, NEW trigger \in Flags, AppendEvent(c, t, p, claim, trigger), UNCHANGED bootstraps
  PROVE  Lawful
<1> DEFINE n == Len(events)
           row == [task |-> t, project |-> Route(p, None), claim |-> claim, trigger |-> trigger]
           next == IF trigger = "yes" THEN Checkpointing(n + 1) ELSE Idle
<1>0. /\ events' = Append(events, row) /\ call' = [call EXCEPT ![c] = next]
      /\ UNCHANGED <<tasks, revisions, proposals, bootstraps, checkpoints, names, life, generation>>
      /\ lifePreviews' = EpochMoved
  BY DEF AppendEvent
<1>1. Route(p, None) \in Projects /\ ~Dead(Route(p, None))
  BY Routed DEF StoreInv, AppendEvent
<1>2. row \in EventRows /\ row.project = Route(p, None)
  BY <1>1 DEF EventRows
<1> HIDE DEF row
<1>3. events \in Seq(EventRows) /\ n \in Nat /\ DOMAIN events = 1..n
  BY DEF StoreInv, CaptureInv
<1>4. /\ events' \in Seq(EventRows) /\ DOMAIN events' = 1..(n + 1) /\ Len(events') = n + 1
      /\ \A i \in DOMAIN events : events'[i] = events[i]
      /\ events'[n + 1] = row
  BY <1>0, <1>2, <1>3
<1>5. TreeInv'
  BY <1>0, TreeStill DEF StoreInv
<1>6. CaptureInv'
  <2>1. \A k \in checkpoints :
          /\ k.trigger \in 1..(n + 1) /\ events'[k.trigger] = events[k.trigger]
          /\ \A j \in k.sources : events'[j] = events[j]
    BY <1>3, <1>4 DEF StoreInv, CaptureInv
  <2>2. \A k \in checkpoints :
          /\ k.trigger \in 1..Len(events') /\ events'[k.trigger].task = k.task
          /\ k.sources # {} /\ \A j \in k.sources : j \in 1..k.trigger /\ events'[j].task = k.task
          /\ \A m \in 1..k.version : \E o \in checkpoints : o.task = k.task /\ o.version = m
    BY <1>4, <2>1 DEF StoreInv, CaptureInv
  <2> QED BY <1>0, <1>4, <2>2 DEF StoreInv, CaptureInv
<1>7. CallMoves
  <2>1. CallOK(next, tasks', proposals', bootstraps', events', checkpoints', generation')
    <3>1. CASE next = Idle
      BY <3>1, IdleOK
    <3>2. CASE next = Checkpointing(n + 1)
      BY <1>3, <1>4, <3>2 DEF CallOK, Checkpointing
    <3> QED BY <3>1, <3>2
  <2> HIDE DEF next
  <2> QED BY <1>0, <2>1 DEF CallMoves
<1>8. \A i \in DOMAIN events' \ DOMAIN events : ~Dead(events'[i].project)
  BY <1>1, <1>2, <1>3, <1>4
<1>9. \A i \in DOMAIN events : i \in DOMAIN events' /\ events'[i] = events[i]
  BY <1>3, <1>4
<1> QED BY <1>0, <1>5, <1>6, <1>7, <1>8, <1>9, CaptureStepped

\* The last checkpoint of a task is the one made last: no earlier one lies after it.
LEMMA PreviousFacts ==
  ASSUME StoreInv, NEW t \in Tasks
  PROVE  /\ Max(Previous(t)) \in Nat
         /\ \A k \in checkpoints : k.task = t => k.trigger <= Max(Previous(t))
<1> DEFINE own == {k \in checkpoints : k.task = t}
           last == {k \in own : \A o \in own : o.version <= k.version}
<1>0. /\ \A k \in checkpoints : k \in CheckpointRows /\ k.trigger \in Nat /\ k.version \in Nat
      /\ \E b \in Nat : \A k \in checkpoints : k.version <= b
  BY DEF StoreInv, CaptureInv, CheckpointRows
<1>1. Previous(t) = {0} \cup {k.trigger : k \in last}
  BY DEF Previous
<1>2. /\ \A k \in own : k.trigger \in 1..Len(events) /\ k.sources # {} /\ \A j \in k.sources : j \in 1..k.trigger
      /\ \A k, o \in own : /\ k.version = o.version => k = o
                           /\ k.version < o.version => \A j \in o.sources : k.trigger < j
      /\ Len(events) \in Nat
  BY DEF StoreInv, CaptureInv
<1>3. Max(Previous(t)) \in Previous(t) /\ \A x \in Previous(t) : x <= Max(Previous(t))
  <2>1. Previous(t) \in SUBSET Nat /\ Previous(t) # {} /\ \A x \in Previous(t) : x <= Len(events)
    <3>1. \A k \in last : k.trigger \in 1..Len(events)
      BY <1>2
    <3> HIDE DEF last
    <3> QED BY <1>1, <1>2, <3>1
  <2> QED BY <1>2, <2>1, MaxOf
<1>4. ASSUME NEW k \in own PROVE k.trigger <= Max(Previous(t))
  <2> DEFINE V == {o.version : o \in own}
  <2>1. PICK m \in V : \A x \in V : x <= m
    <3>1. V \in SUBSET Nat /\ V # {} /\ \E b \in Nat : \A x \in V : x <= b
      BY <1>0
    <3> HIDE DEF V
    <3> QED BY <3>1, MaxOf
  <2>2. PICK o \in own : o.version = m
    OBVIOUS
  <2>3. o \in last
    BY <2>1, <2>2
  <2>4. o.trigger <= Max(Previous(t))
    <3> HIDE DEF last
    <3> QED BY <1>1, <1>3, <2>3
  <2>5. k.version <= o.version
    BY <2>1, <2>2
  <2>6. k.trigger <= o.trigger
    <3>1. CASE k.version = o.version
      <4>1. k = o
        BY <1>2, <3>1
      <4> QED BY <1>0, <4>1
    <3>2. CASE k.version < o.version
      <4>1. PICK j \in o.sources : k.trigger < j /\ j \in 1..o.trigger
        BY <1>2, <3>2
      <4> QED BY <1>0, <1>2, <4>1
    <3> QED BY <1>0, <2>5, <3>1, <3>2
  <2>7. Max(Previous(t)) \in Nat
    <3>1. Previous(t) \in SUBSET Nat
      <4>1. \A x \in last : x.trigger \in Nat
        BY <1>0
      <4> HIDE DEF last
      <4> QED BY <1>1, <4>1
    <3> QED BY <1>3, <3>1
  <2> QED BY <1>0, <2>4, <2>6, <2>7
<1>5. Max(Previous(t)) \in Nat
  <2>1. \A x \in last : x.trigger \in Nat
    BY <1>0
  <2> HIDE DEF last
  <2> QED BY <1>1, <1>3, <2>1
<1> QED BY <1>4, <1>5

\* The window of a checkpoint is read: the events after the last trigger of the
\* task, up to this one.
LEMMA ReadWindowStep ==
  ASSUME StoreInv, scenario' = scenario, NEW c \in Callers, ReadWindow(c), UNCHANGED bootstraps
  PROVE  Lawful
<1> DEFINE i == call[c].event
           t == events[i].task
           window == Window(i)
           versions == {0} \cup {k.version : k \in {j \in checkpoints : j.task = t}}
           next == [at |-> "insert_checkpoint", event |-> i, sources |-> window, claim |-> ClaimOf(t, window),
                    version |-> 1 + Max(versions)]
<1>0. /\ i \in DOMAIN events /\ events \in Seq(EventRows) /\ DOMAIN events = 1..Len(events) /\ Len(events) \in Nat
      /\ i \in Nat /\ t \in Tasks
  <2>1. i \in DOMAIN events
    BY CallFacts DEF ReadWindow, CallOK
  <2>2. events \in Seq(EventRows)
    BY DEF StoreInv, CaptureInv
  <2>3. events[i] \in EventRows
    BY <2>1, <2>2
  <2> QED BY <2>1, <2>2, <2>3 DEF EventRows
<1>1. /\ UNCHANGED <<tasks, revisions, proposals, events, checkpoints, treeVars, bootstraps>>
      /\ \/ call' = [call EXCEPT ![c] = Idle]
         \/ call' = [call EXCEPT ![c] = Observed(t, {}, {i}, "yes", "yes")]
         \/ window # {} /\ call' = [call EXCEPT ![c] = next]
  BY DEF ReadWindow
<1>2. CASE call' = [call EXCEPT ![c] = Idle]
  BY <1>1, <1>2, IdleOK, ReadStep
<1>3. CASE call' = [call EXCEPT ![c] = Observed(t, {}, {i}, "yes", "yes")]
  <2>1. CallOK(Observed(t, {}, {i}, "yes", "yes"), tasks, proposals, bootstraps, events, checkpoints, generation)
    BY <1>0, ObservedOK
  <2> QED BY <1>1, <1>3, <2>1, ReadStep
<1>4. CASE window # {} /\ call' = [call EXCEPT ![c] = next]
  <2> DEFINE m == Max(Previous(t))
  <2>1. m \in Nat /\ \A k \in checkpoints : k.task = t => k.trigger <= m
    BY <1>0, PreviousFacts
  <2>2. \A j \in window : j \in (m + 1)..i /\ events[j].task = t
    BY DEF Window
  <2> HIDE DEF m, window
  <2>3. \A j \in window : j \in 1..i /\ m < j /\ j \in DOMAIN events
    BY <1>0, <2>1, <2>2
  <2>4. /\ Max(versions) \in versions /\ \A x \in versions : x <= Max(versions)
        /\ \A x \in versions : x \in Nat
    <3>1. /\ \A k \in checkpoints : k.version \in Nat \ {0}
          /\ \E b \in Nat : \A k \in checkpoints : k.version <= b
      BY DEF StoreInv, CaptureInv, CheckpointRows
    <3>2. versions \in SUBSET Nat /\ versions # {} /\ \E b \in Nat : \A x \in versions : x <= b
      BY <3>1
    <3> HIDE DEF versions
    <3> QED BY <3>2, MaxOf
  <2> DEFINE v == 1 + Max(versions)
  <2>5. /\ v \in Nat \ {0}
        /\ \A n \in 1..(v - 1) : \E k \in checkpoints : k.task = t /\ k.version = n
    <3>1. Max(versions) = 0 \/ \E k \in checkpoints : k.task = t /\ k.version = Max(versions)
      BY <2>4
    <3>2. \A k \in checkpoints : \A n \in 1..k.version : \E o \in checkpoints : o.task = k.task /\ o.version = n
      BY DEF StoreInv, CaptureInv
    <3>3. Max(versions) \in Nat
      BY <2>4
    <3> HIDE DEF versions
    <3> QED BY <3>1, <3>2, <3>3
  <2>6. \A k \in checkpoints : k.task = t => \A j \in window : k.trigger < j
    <3>1. \A k \in checkpoints : k.trigger \in Nat
      BY DEF StoreInv, CaptureInv, CheckpointRows
    <3> QED BY <1>0, <2>1, <2>3, <3>1
  <2>7. ClaimOf(t, window) \in Claims
    <3> DEFINE claims == {j \in window : events[j].claim # "none"}
    <3>1. CASE claims # {}
      <4>1. claims \in SUBSET Nat /\ \A x \in claims : x <= i
        BY <1>0, <2>3
      <4>2. Max(claims) \in claims
        <5> HIDE DEF claims
        <5> QED BY <1>0, <3>1, <4>1, MaxOf
      <4>3. Max(claims) \in DOMAIN events
        BY <2>3, <4>2
      <4>4. events[Max(claims)].claim \in Claims
        <5>1. events[Max(claims)] \in EventRows
          BY <1>0, <4>3
        <5> QED BY <5>1 DEF EventRows
      <4> QED BY <4>4 DEF ClaimOf, Claims
    <3>2. CASE claims = {}
      BY <3>2 DEF ClaimOf, Claims
    <3> QED BY <3>1, <3>2
  <2>8. /\ next.at = "insert_checkpoint" /\ next.event = i /\ next.sources = window
        /\ next.claim = ClaimOf(t, window) /\ next.version = v
    BY DEF window
  <2>9. \A j \in window : j \in 1..i /\ events[j].task = events[i].task
    BY <2>2, <2>3
  <2> HIDE DEF next, v, versions
  <2>10. CallOK(next, tasks, proposals, bootstraps, events, checkpoints, generation)
    BY <1>0, <1>4, <2>5, <2>6, <2>7, <2>8, <2>9 DEF CallOK
  <2> QED BY <1>1, <1>4, <2>10, ReadStep
<1> QED BY <1>1, <1>2, <1>3, <1>4

\* The checkpoint is inserted, unless another one took its trigger or version
\* since the window was read: no event is then in two.
LEMMA InsertCheckpointStep ==
  ASSUME StoreInv, scenario' = scenario, NEW c \in Callers, InsertCheckpoint(c), UNCHANGED bootstraps
  PROVE  Lawful
<1> DEFINE i == call[c].event
           t == events[i].task
           v == call[c].version
           S == call[c].sources
           dest == Route(events[i].project, None)
           row == [trigger |-> i, task |-> t, project |-> dest, sources |-> S, version |-> v,
                   claim |-> call[c].claim]
           next == Observed(t, {}, {i}, "yes", "yes")
<1>0. /\ i \in DOMAIN events /\ v \in Nat \ {0} /\ call[c].claim \in Claims
      /\ S # {} /\ \A j \in S : j \in 1..i /\ events[j].task = t
      /\ \A n \in 1..(v - 1) : \E k \in checkpoints : k.task = t /\ k.version = n
      /\ \A k \in checkpoints : k.task = t /\ k.version < v => \A j \in S : k.trigger < j
  BY CallFacts DEF InsertCheckpoint, CallOK
<1>1. /\ events \in Seq(EventRows) /\ DOMAIN events = 1..Len(events) /\ Len(events) \in Nat
      /\ i \in Nat /\ t \in Tasks /\ events[i].project \in Projects
  <2>1. events \in Seq(EventRows)
    BY DEF StoreInv, CaptureInv
  <2>2. events[i] \in EventRows
    BY <1>0, <2>1
  <2> QED BY <1>0, <2>1, <2>2 DEF EventRows
<1>2. UNCHANGED <<tasks, revisions, proposals, bootstraps, events, names, life, generation>>
  BY DEF InsertCheckpoint
<1>3. CASE call' = [call EXCEPT ![c] = Idle] /\ UNCHANGED <<checkpoints, lifePreviews>>
  BY <1>2, <1>3, IdleOK, ReadStep DEF treeVars
<1>4. CASE /\ checkpoints' = checkpoints \cup {row} /\ lifePreviews' = EpochMoved
           /\ call' = [call EXCEPT ![c] = next] /\ Writable(events[i].project)
           /\ \A k \in checkpoints : k.task = t => k.version # v
  <2>1. dest \in Projects /\ ~Dead(dest)
    BY <1>1, <1>4, Routed DEF StoreInv
  <2>2. row \in CheckpointRows
    <3>1. S \in SUBSET Nat
      BY <1>0, <1>1
    <3> QED BY <1>0, <1>1, <2>1, <3>1 DEF CheckpointRows
  <2>3. /\ row.trigger = i /\ row.task = t /\ row.project = dest /\ row.sources = S /\ row.version = v
    OBVIOUS
  <2> HIDE DEF row
  <2>4. /\ \A k \in checkpoints : k \in CheckpointRows /\ k.version \in Nat \ {0} /\ k.trigger \in Nat
        /\ \E b \in Nat : \A k \in checkpoints : k.version <= b
    BY DEF StoreInv, CaptureInv, CheckpointRows
  \* Versions have no gap, so that of the new checkpoint is the next one.
  <2>5. \A k \in checkpoints : k.task = t => k.version < v
    <3> SUFFICES ASSUME NEW k \in checkpoints, k.task = t, v < k.version PROVE FALSE
      BY <1>0, <1>4, <2>4
    <3>1. v \in 1..k.version
      BY <1>0, <2>4
    <3>2. \E o \in checkpoints : o.task = k.task /\ o.version = v
      BY <3>1 DEF StoreInv, CaptureInv
    <3> QED BY <1>4, <3>2
  <2>6. \E b \in Nat : \A k \in checkpoints' : k.version <= b
    <3>1. PICK b \in Nat : \A k \in checkpoints : k.version <= b
      BY <2>4
    <3>2. b + v \in Nat /\ v <= b + v
      BY <1>0
    <3>3. \A k \in checkpoints : k.version <= b + v
      BY <1>0, <2>4, <3>1
    <3> QED BY <1>4, <2>3, <3>2, <3>3
  <2>7. ASSUME NEW k \in checkpoints'
        PROVE  /\ k.trigger \in 1..Len(events) /\ events[k.trigger].task = k.task
               /\ k.sources # {} /\ \A j \in k.sources : j \in 1..k.trigger /\ events[j].task = k.task
               /\ \A n \in 1..k.version : \E o \in checkpoints' : o.task = k.task /\ o.version = n
    <3>1. CASE k = row
      <4>1. ASSUME NEW n \in 1..v PROVE \E o \in checkpoints' : o.task = t /\ o.version = n
        <5>1. CASE n = v
          BY <1>4, <2>3, <5>1
        <5>2. CASE n \in 1..(v - 1)
          BY <1>0, <1>4, <5>2
        <5> QED BY <1>0, <4>1, <5>1, <5>2
      <4> QED BY <1>0, <1>1, <2>3, <3>1, <4>1
    <3>2. CASE k \in checkpoints
      BY <1>4, <3>2 DEF StoreInv, CaptureInv
    <3> QED BY <1>4, <3>1, <3>2
  <2>8. ASSUME NEW k \in checkpoints', NEW o \in checkpoints', k.task = o.task
        PROVE  /\ k.version = o.version => k = o
               /\ k.version < o.version => \A j \in o.sources : k.trigger < j
    <3>1. CASE k \in checkpoints /\ o \in checkpoints
      BY <2>8, <3>1 DEF StoreInv, CaptureInv
    <3>2. CASE k = row /\ o = row
      BY <1>0, <2>3, <3>2
    <3>3. CASE k = row /\ o \in checkpoints
      <4>1. o.version < v /\ o.version \in Nat
        BY <2>3, <2>4, <2>5, <2>8, <3>3
      <4> QED BY <1>0, <2>3, <3>3, <4>1
    <3>4. CASE k \in checkpoints /\ o = row
      <4>1. k.version < v /\ k.version \in Nat
        BY <2>3, <2>4, <2>5, <2>8, <3>4
      <4> QED BY <1>0, <2>3, <2>8, <3>4, <4>1
    <3> QED BY <1>4, <3>1, <3>2, <3>3, <3>4
  <2>9. CaptureInv'
    <3>1. checkpoints' \subseteq CheckpointRows /\ events' = events
      BY <1>2, <1>4, <2>2, <2>4
    <3> QED BY <1>1, <2>6, <2>7, <2>8, <3>1 DEF CaptureInv
  <2>10. TreeInv'
    BY <1>2, <1>4, TreeStill DEF StoreInv
  <2>11. CallMoves
    <3>1. CallOK(next, tasks', proposals', bootstraps', events', checkpoints', generation)
      BY <1>1, ObservedOK
    <3> HIDE DEF next
    <3> QED BY <1>2, <1>4, <3>1 DEF CallMoves
  <2>12. \A k \in checkpoints' \ checkpoints :
           /\ k.version \in Nat \ {0} /\ ~Dead(k.project)
           /\ \A o \in checkpoints : o.task = k.task => o.version # k.version
    BY <1>0, <1>4, <2>1, <2>3
  <2> QED BY <1>2, <1>4, <2>9, <2>10, <2>11, <2>12, CaptureStepped
<1> QED BY <1>3, <1>4 DEF InsertCheckpoint

-----------------------------------------------------------------------------
(* All steps *)

\* What a scenario names exists.
LEMMA ScenarioTypes ==
  ASSUME scenario \in Scenarios
  PROVE  /\ scenario.callers \subseteq Callers /\ scenario.projects \subseteq Projects
         /\ scenario.tasks \subseteq Tasks /\ scenario.ids \subseteq Projects /\ scenario.titles \subseteq Titles
         /\ scenario.claims \subseteq Claims /\ \A ops \in scenario.requests : ops \in SUBSET Operations
         /\ scenario.lifecycle \subseteq Actions \X Projects \X (Projects \cup {None})
BY StoreAssumption

\* The store starts so.
LEMMA InitLawful ==
  ASSUME Init PROVE StoreInv
<1>0. /\ scenario \in Scenarios /\ scenario.projects \subseteq Projects /\ scenario.tasks \subseteq Tasks
      /\ MaxVersion \in Nat \ {0} /\ 0 \in Versions /\ 1 \in Versions
  BY ScenarioTypes, CanonAssumption DEF Init, Versions
<1>1. TreeInv
  <2>1. TreeTypeOK
    BY <1>0, TreeAssumption DEF Init, TreeTypeOK, Active
  <2>2. \A p \in Projects : life[p].state # "merged"
    BY DEF Init, Active
  <2>3. Links(life) /\ UnownedActive
    BY <2>2 DEF Init, Links, UnownedActive
  <2>4. \A p \in Projects : Canonical(p) = p
    <3> SUFFICES ASSUME NEW p \in Projects PROVE Canonical(p) = p
      OBVIOUS
    <3>1. 0 \in 0..MaxDepth /\ MaxDepth \in 0..MaxDepth
      BY TreeAssumption
    <3>2. Reach[0][p] = p
      BY <2>3, ReachFollows, Chains
    <3>3. life[Reach[0][p]].state # "merged"
      BY <2>2, <3>2
    <3>4. \A m \in 0..MaxDepth : Reach[m][p] = Reach[0][p]
      BY <2>3, <3>1, <3>3, ReachFollows, Chains
    <3> QED BY <3>1, <3>2, <3>4 DEF Canonical
  <2>5. Resolvable
    <3> SUFFICES ASSUME NEW p \in Projects, Owned(p)
                 PROVE  Resolves(p) /\ Owned(Canonical(p)) /\ Cardinality(Members(Canonical(p))) - 1 <= MaxMembers
      BY DEF Resolvable
    <3>1. Members(p) = {p}
      BY <2>4 DEF Members
    <3>2. Cardinality({p}) = 1
      BY FS_Singleton
    <3> QED BY <2>2, <2>4, <3>1, <3>2, TreeAssumption DEF Resolves
  <2> QED BY <2>1, <2>3, <2>5 DEF TreeInv
<1>2. /\ \A t \in scenario.tasks : /\ t \in Tasks /\ tasks[t].version = 1 /\ tasks[t].content \in Contents
                                   /\ tasks[t] \in [version : Versions, content : Shown]
      /\ \A t \in Tasks \ scenario.tasks : /\ tasks[t].version = 0 /\ tasks[t].content = NoContent
                                          /\ tasks[t] \in [version : Versions, content : Shown]
  <2>1. \A t \in Tasks : t[1] \in Projects /\ t[2] \in Titles
    BY DEF Tasks
  <2> DEFINE content(t) == [project |-> t[1], title |-> t[2], note |-> "out"]
  <2>2. \A t \in Tasks : content(t) \in Contents
    BY <2>1 DEF Contents
  <2>3. \A t \in scenario.tasks : tasks[t] = [version |-> 1, content |-> content(t)]
    BY <1>0 DEF Init
  <2> HIDE DEF content
  <2>4. \A t \in Tasks \ scenario.tasks : tasks[t] = [version |-> 0, content |-> NoContent]
    BY <1>0 DEF Init
  <2>5. \A t \in scenario.tasks : /\ t \in Tasks /\ tasks[t].version = 1 /\ tasks[t].content \in Contents
                                  /\ tasks[t] \in [version : Versions, content : Shown]
    <3> SUFFICES ASSUME NEW t \in scenario.tasks
                 PROVE  /\ t \in Tasks /\ tasks[t].version = 1 /\ tasks[t].content \in Contents
                        /\ tasks[t] \in [version : Versions, content : Shown]
      OBVIOUS
    <3>1. t \in Tasks /\ content(t) \in Contents /\ content(t) \in Shown
      BY <1>0, <2>2 DEF Shown
    <3>2. tasks[t] = [version |-> 1, content |-> content(t)]
      BY <2>3
    <3> QED BY <1>0, <3>1, <3>2
  <2>6. \A t \in Tasks \ scenario.tasks : /\ tasks[t].version = 0 /\ tasks[t].content = NoContent
                                         /\ tasks[t] \in [version : Versions, content : Shown]
    BY <1>0, <2>4 DEF Shown
  <2> QED BY <2>5, <2>6
<1> DEFINE Row(t) == [task |-> t, from |-> 0, to |-> 1, before |-> NoContent, after |-> tasks[t].content,
                      by |-> [source |-> "upsert", id |-> 0], saw |-> NoContent]
<1>3. /\ revisions = {Row(t) : t \in scenario.tasks}
      /\ \A t \in scenario.tasks :
           /\ Row(t) \in RevisionRows /\ Row(t).task = t /\ Row(t).from = 0 /\ Row(t).to = 1
           /\ Row(t).before = NoContent /\ Row(t).after = tasks[t].content /\ Row(t).saw = NoContent
           /\ Row(t).by.source = "upsert"
  <2>1. [source |-> "upsert", id |-> 0] \in Authors
    BY DEF Authors, Sources
  <2>2. \A t \in scenario.tasks : Row(t) \in RevisionRows
    BY <1>0, <1>2, <2>1 DEF RevisionRows, Shown
  <2>3. revisions = {Row(t) : t \in scenario.tasks}
    BY DEF Init
  <2> QED BY <2>2, <2>3
<1> HIDE DEF Row
<1>5. RowTypes
  <2>1. tasks \in [Tasks -> [version : Versions, content : Shown]]
    <3>1. tasks = [t \in Tasks |-> tasks[t]]
      BY DEF Init
    <3>2. \A t \in Tasks : tasks[t] \in [version : Versions, content : Shown]
      BY <1>2
    <3> QED BY <3>1, <3>2
  <2>2. ASSUME NEW t \in Tasks PROVE tasks[t].version = 0 <=> tasks[t].content = NoContent
    BY <1>2, NoContentApart
  <2>3. proposals \in Seq(ProposalRows) /\ bootstraps \in Seq(BootstrapRows) /\ DOMAIN proposals = {}
    BY DEF Init
  <2> QED BY <1>3, <2>1, <2>2, <2>3 DEF RowTypes
<1>6. History
  <2>1. ASSUME NEW t \in Tasks, NEW v \in 1..tasks[t].version
        PROVE  \E r \in revisions : r.task = t /\ r.to = v
    <3>1. t \in scenario.tasks /\ v = 1
      BY <1>2, <2>1
    <3> QED BY <1>3, <3>1
  <2>2. \A r \in revisions : /\ r.from = r.to - 1 /\ r.to <= tasks[r.task].version /\ r.saw = r.before
                             /\ r.to = tasks[r.task].version => r.after = tasks[r.task].content
    BY <1>2, <1>3
  <2>3. \A r, q \in revisions : r.task = q.task => r = q
    BY <1>3
  <2>4. \A r \in revisions : r.to # r.from
    BY <1>3
  <2> QED BY <2>1, <2>2, <2>3, <2>4 DEF History
<1>7. DOMAIN proposals = {} /\ DOMAIN bootstraps = {}
  BY DEF Init
<1>8. Decided
  BY <1>3, <1>7 DEF Decided
<1>9. BasedAll
  BY <1>7 DEF BasedAll
<1>10. CaptureInv
  <2>1. events \in Seq(EventRows) /\ checkpoints = {}
    BY DEF Init
  <2> QED BY <2>1 DEF CaptureInv
<1>11. CallsInv
  BY IdleOK DEF Init, CallsInv
<1> QED BY <1>0, <1>1, <1>5, <1>6, <1>8, <1>9, <1>10, <1>11 DEF StoreInv, RowsInv

\* Every call that is made is lawful in its first step.
LEMMA NewCallLawful ==
  ASSUME StoreInv, scenario' = scenario, NewCall
  PROVE  Lawful
<1>0. /\ scenario.callers \subseteq Callers /\ scenario.ids \subseteq Projects /\ scenario.titles \subseteq Titles
      /\ scenario.claims \subseteq Claims /\ \A ops \in scenario.requests : ops \in SUBSET Operations
  BY ScenarioTypes DEF StoreInv
<1>1. CASE Upsert
  <2>1. CASE UNCHANGED bootstraps /\ UNCHANGED canonVars /\ \E p, name \in scenario.ids : UpsertProject(p, name)
    BY <1>0, <2>1, UpsertProjectStep
  <2>2. CASE /\ UNCHANGED bootstraps
             /\ \E t \in scenario.ids \X scenario.titles, p \in scenario.ids, title \in scenario.titles :
                  UpsertTask(t, p, title, "out")
    <3>1. PICK t \in scenario.ids \X scenario.titles, p \in scenario.ids, title \in scenario.titles :
            UpsertTask(t, p, title, "out")
      BY <2>2
    <3>2. t \in Tasks /\ p \in Projects /\ title \in Titles /\ "out" \in {"in", "out"}
      BY <1>0 DEF Tasks
    <3> QED BY <2>2, <3>1, <3>2, UpsertTaskStep
  <2> QED BY <1>1, <2>1, <2>2 DEF Upsert
<1>2. ASSUME NEW c \in scenario.callers, NEW t \in Tasks, OpenTask(c, t), UNCHANGED bootstraps
      PROVE  Lawful
  BY <1>0, <1>2, OpenTaskStep
<1>3. ASSUME NEW c \in scenario.callers, ReconcileStart(c, scenario.requests), UNCHANGED bootstraps
      PROVE  Lawful
  <2>1. CASE \E t \in {u \in Tasks : Exists(u)}, ops \in scenario.requests,
              sources \in {Latest} \cup {{k.trigger} : k \in checkpoints}, derive, auto \in {"yes", "no"} :
                Reconcile(c, t, ops, sources, derive, auto)
    <3>1. PICK t \in {u \in Tasks : Exists(u)}, ops \in scenario.requests,
               sources \in {Latest} \cup {{k.trigger} : k \in checkpoints}, derive \in {"yes", "no"}, auto \in {"yes", "no"} :
                 Reconcile(c, t, ops, sources, derive, auto)
      BY <2>1
    <3>2. sources \in SUBSET Nat
      BY DEF StoreInv, CaptureInv, CheckpointRows, Latest
    <3> QED BY <1>0, <1>3, <3>1, <3>2, ReconcileOpens
  <2>2. CASE \E id \in DOMAIN proposals, decision \in {"confirm", "reject"} : ResolveProposal(c, id, decision)
    BY <1>0, <1>3, <2>2, ResolveProposalStep
  <2> QED BY <1>3, <2>1, <2>2 DEF ReconcileStart
<1>4. ASSUME NEW c \in scenario.callers, BootstrapStart(c, scenario.ids \X scenario.titles)
      PROVE  Lawful
  <2>1. CASE \E kind \in {"project", "task"}, t \in scenario.ids \X scenario.titles : StartBootstrap(c, kind, t[1], t[2])
    <3>1. PICK kind \in {"project", "task"}, t \in scenario.ids \X scenario.titles : StartBootstrap(c, kind, t[1], t[2])
      BY <2>1
    <3>2. t[1] \in Projects /\ t[2] \in Titles
      BY <1>0
    <3> QED BY <1>0, <3>1, <3>2, StartBootstrapStep
  <2>2. CASE \E i \in DOMAIN bootstraps, confirmed \in {"yes", "no"} : DecideBootstrap(c, i, confirmed)
    BY <1>0, <2>2, DecideBootstrapStep
  <2> QED BY <1>4, <2>1, <2>2 DEF BootstrapStart
<1>5. ASSUME NEW c \in scenario.callers, CaptureStart(c, scenario.claims), UNCHANGED bootstraps
      PROVE  Lawful
  <2>1. CASE \E t \in {u \in Tasks : Exists(u)}, p \in {q \in Projects : Owned(q)}, claim \in scenario.claims,
              trigger \in {"yes", "no"} : AppendEvent(c, t, p, claim, trigger)
    BY <1>0, <1>5, <2>1, AppendEventStep DEF Flags
  <2>2. CASE \E i \in DOMAIN events : RepeatTrigger(c, i)
    BY <1>0, <1>5, <2>2, RepeatTriggerStep
  <2> QED BY <1>5, <2>1, <2>2 DEF CaptureStart
<1> QED BY <1>1, <1>2, <1>3, <1>4, <1>5 DEF NewCall

\* Every further step of a call is lawful.
LEMMA CallStepLawful ==
  ASSUME StoreInv, scenario' = scenario, NEW c \in scenario.callers, CallStep(c)
  PROVE  Lawful
<1>0. c \in Callers /\ scenario.titles \subseteq Titles
  BY ScenarioTypes DEF StoreInv
<1>1. CASE (\E title \in scenario.titles : UpdateTask(c, title)) /\ UNCHANGED bootstraps
  BY <1>0, <1>1, UpdateTaskStep
<1>2. CASE ReconcileStep(c) /\ UNCHANGED bootstraps
  <2>1. CASE Generate(c)
    BY <1>0, <1>2, <2>1, GenerateStep
  <2>2. CASE InsertProposal(c)
    BY <1>0, <1>2, <2>2, InsertProposalStep
  <2>3. CASE SupersedeOthers(c)
    BY <1>0, <1>2, <2>3, SupersedeOthersStep
  <2>4. CASE ApplyAutomatically(c)
    <3>1. call[c].id \in DOMAIN proposals /\ ApplyProposal(c, call[c].id)
      BY <1>0, <2>4, CallFacts DEF ApplyAutomatically, CallOK
    <3> QED BY <1>0, <1>2, <3>1, ApplyProposalStep
  <2>5. CASE CommitProposal(c)
    BY <1>0, <1>2, <2>5, CommitProposalStep
  <2> QED BY <1>2, <2>1, <2>2, <2>3, <2>4, <2>5 DEF ReconcileStep
<1>3. CASE CaptureStep(c) /\ UNCHANGED bootstraps
  BY <1>0, <1>3, ReadWindowStep, InsertCheckpointStep DEF CaptureStep
<1>4. CASE BootstrapStep(c)
  BY <1>0, <1>4, ReadBootstrapStep, InsertBootstrapStep, ConfirmBootstrapStep DEF BootstrapStep
<1>5. CASE Crash(c)
  BY <1>0, <1>5, CrashStep
<1> QED BY <1>1, <1>2, <1>3, <1>4, <1>5 DEF CallStep

\* Every step of the store is lawful.
LEMMA NextLawful ==
  ASSUME StoreInv, [Next]_vars
  PROVE  Lawful
<1>1. CASE Next
  <2>0. scenario' = scenario
    BY <1>1 DEF Next
  <2>1. CASE NewCall
    BY <2>0, <2>1, NewCallLawful
  <2>2. CASE LifecycleNext(scenario.lifecycle, scenario.previews, scenario.changes) /\ UNCHANGED <<canonVars, bootstraps>>
    <3>1. CASE \E a \in scenario.lifecycle : Preview(a[1], a[2], a[3])
      <4>1. PICK a \in scenario.lifecycle : Preview(a[1], a[2], a[3])
        BY <3>1
      <4>2. a[1] \in Actions /\ a[2] \in Projects /\ a[3] \in Projects \cup {None}
        BY ScenarioTypes DEF StoreInv
      <4> QED BY <2>0, <2>2, <4>1, <4>2, PreviewStep
    <3>2. CASE \E v \in lifePreviews : Confirm(v) \/ Expired(v)
      BY <2>0, <2>2, <3>2, ConfirmStep, ExpiredStep
    <3> QED BY <2>2, <3>1, <3>2 DEF LifecycleNext
  <2>3. CASE \E c \in scenario.callers : CallStep(c)
    BY <2>0, <2>3, CallStepLawful
  <2>4. CASE \E i \in DOMAIN bootstraps : BootstrapLate(i)
    BY <2>0, <2>4, BootstrapLateStep
  <2> QED BY <1>1, <2>1, <2>2, <2>3, <2>4 DEF Next, Step
<1>2. CASE UNCHANGED vars
  <2>1. /\ scenario' = scenario /\ UNCHANGED <<tasks, revisions, proposals, events, checkpoints, call>>
        /\ UNCHANGED <<names, life, generation, lifePreviews, bootstraps>>
    BY <1>2 DEF vars, bootstrapVars, canonVars, treeVars
  <2>2. ProposalsKept /\ BootstrapsKept
    BY <2>1, RowsSame DEF StoreInv, RowsInv
  <2> QED BY <2>1, <2>2, ProposalStep DEF CallMoves
<1> QED BY <1>1, <1>2

\* Everything the store keeps, at all times.
THEOREM Invariant == Spec => []StoreInv
<1>1. Init => StoreInv
  BY InitLawful
<1>2. StoreInv /\ [Next]_vars => StoreInv'
  BY NextLawful DEF Lawful
<1> QED BY <1>1, <1>2, PTL DEF Spec

\* Every row of the store and every project has the declared shape.
THEOREM TypeCorrect == Spec => []TypeOK
<1>1. StoreInv => TypeOK
  <2> SUFFICES ASSUME StoreInv PROVE TypeOK
    OBVIOUS
  <2>0. RowsInv /\ CaptureInv /\ generation \in Nat
    BY GenerationType DEF StoreInv
  <2>1. TreeTypeOK
    BY DEF StoreInv, TreeInv
  <2>2. CanonTypeOK
    <3>1. \A t \in Tasks : /\ tasks[t].version \in Versions
                           /\ tasks[t].content \in IF tasks[t].version = 0 THEN {NoContent} ELSE Contents
      <4>1. \A t \in Tasks : ~Exists(t) <=> tasks[t].version = 0
        BY <2>0, RowsTyped DEF Exists
      <4> QED BY <2>0, <4>1, RowsTyped
    <3>2. \A r \in revisions : /\ r.task \in Tasks /\ r.from \in Versions /\ r.to \in Versions
                               /\ r.by.source \in Sources /\ r.after \in Contents
                               /\ r.before \in Contents \cup {NoContent}
      BY <2>0 DEF RowsInv, RowTypes, RevisionRows, Authors, Shown
    <3>3. \A i \in DOMAIN proposals :
            /\ proposals[i].task \in Tasks /\ proposals[i].base \in Versions /\ proposals[i].ops \subseteq Operations
            /\ proposals[i].status \in {"awaiting", "no_effect", "superseded", "stale", "rejected", "applied"}
            /\ proposals[i].bound \in 0..generation
            /\ proposals[i].ops = {} => proposals[i].status = "no_effect"
      <4> SUFFICES ASSUME NEW i \in DOMAIN proposals
                   PROVE  /\ proposals[i].task \in Tasks /\ proposals[i].base \in Versions
                          /\ proposals[i].ops \subseteq Operations
                          /\ proposals[i].status \in {"awaiting", "no_effect", "superseded", "stale", "rejected", "applied"}
                          /\ proposals[i].bound \in 0..generation
                          /\ proposals[i].ops = {} => proposals[i].status = "no_effect"
        OBVIOUS
      <4>1. proposals[i] \in ProposalRows
        BY <2>0, RowsTyped
      <4>2. proposals[i].bound <= proposals[i].read /\ proposals[i].read <= generation
        BY <2>0 DEF RowsInv, BasedAll, Based
      <4>3. proposals[i].bound \in 0..generation
        BY <2>0, <4>1, <4>2 DEF ProposalRows
      <4> QED BY <2>0, <4>1, <4>3 DEF RowsInv, RowTypes, ProposalRows
    <3> QED BY <3>1, <3>2, <3>3 DEF CanonTypeOK
  <2>3. BootstrapTypeOK
    <3> SUFFICES ASSUME NEW i \in DOMAIN bootstraps
                 PROVE  /\ bootstraps[i].kind \in {"project", "task"} /\ bootstraps[i].project \in Projects
                        /\ bootstraps[i].title \in Titles /\ bootstraps[i].name \in Projects
                        /\ bootstraps[i].status \in {"pending", "confirmed", "cancelled", "expired"}
                        /\ bootstraps[i].bound \in 0..generation /\ bootstraps[i].late \in {"yes", "no"}
      BY DEF BootstrapTypeOK
    <3>1. bootstraps[i] \in BootstrapRows
      BY <2>0, RowsTyped
    <3>2. bootstraps[i].bound <= bootstraps[i].read /\ bootstraps[i].read <= generation
      BY <2>0 DEF RowsInv, BasedAll
    <3>3. bootstraps[i].bound \in 0..generation
      BY <2>0, <3>1, <3>2 DEF BootstrapRows
    <3> QED BY <3>1, <3>3 DEF BootstrapRows, Flags
  <2>4. CaptureTypeOK
    <3>1. DOMAIN events = 1..Len(events) /\ Len(events) \in Nat /\ \A i \in DOMAIN events : events[i] \in EventRows
      BY <2>0, ElementOfSeq DEF CaptureInv
    <3>2. \A k \in checkpoints : k \in CheckpointRows /\ k.trigger \in 1..Len(events) /\ k.sources \subseteq DOMAIN events
      BY <2>0, <3>1 DEF CaptureInv
    <3> QED BY <3>1, <3>2 DEF CaptureTypeOK, EventRows, CheckpointRows, Flags
  <2> QED BY <2>1, <2>2, <2>3, <2>4 DEF TypeOK
<1> QED BY <1>1, Invariant, PTL

\* The revisions of a task are its complete history.
THEOREM LedgerAlways == Spec => []Ledger
<1>1. StoreInv => Ledger
  <2> SUFFICES ASSUME StoreInv, NEW t \in Tasks
               PROVE  /\ \A v \in 1..tasks[t].version : Cardinality({r \in {q \in revisions : q.task = t} : r.to = v}) = 1
                      /\ \A r \in {q \in revisions : q.task = t} :
                           /\ r.from = r.to - 1 /\ r.to <= tasks[t].version
                           /\ r.to = tasks[t].version => r.after = tasks[t].content
                           /\ \A q \in {o \in revisions : o.task = t} : q.to = r.from => q.after = r.before
    BY DEF Ledger
  <2>0. History
    BY DEF StoreInv, RowsInv
  <2>1. ASSUME NEW v \in 1..tasks[t].version
        PROVE  Cardinality({r \in {q \in revisions : q.task = t} : r.to = v}) = 1
    <3>1. PICK r \in revisions : r.task = t /\ r.to = v
      BY <2>0, <2>1 DEF History
    <3>2. {o \in {q \in revisions : q.task = t} : o.to = v} = {r}
      BY <2>0, <3>1 DEF History
    <3> QED BY <3>2, FS_Singleton
  <2> QED BY <2>0, <2>1 DEF History
<1> QED BY <1>1, Invariant, PTL

\* What was reviewed is made once, to what the reviewer saw.
THEOREM AsReviewedAlways == Spec => []AsReviewed
<1>1. StoreInv => AsReviewed
  <2> SUFFICES ASSUME StoreInv PROVE AsReviewed
    OBVIOUS
  <2>0. History /\ Decided
    BY DEF StoreInv, RowsInv
  <2>1. ASSUME NEW i \in DOMAIN proposals
        PROVE  Cardinality({r \in revisions : r.by = [source |-> "proposal", id |-> i]})
                 = IF proposals[i].status = "applied" THEN 1 ELSE 0
    <3>1. CASE proposals[i].status = "applied"
      <4>1. PICK r \in revisions : r.by = [source |-> "proposal", id |-> i]
        BY <2>0, <3>1 DEF Decided
      <4>2. {o \in revisions : o.by = [source |-> "proposal", id |-> i]} = {r}
        BY <2>0, <4>1 DEF Decided
      <4> QED BY <3>1, <4>2, FS_Singleton
    <3>2. CASE proposals[i].status # "applied"
      <4>1. {o \in revisions : o.by = [source |-> "proposal", id |-> i]} = {}
        BY <2>0, <3>2 DEF Decided
      <4> QED BY <3>2, <4>1, FS_EmptySet
    <3> QED BY <3>1, <3>2
  <2>2. ASSUME NEW i \in DOMAIN bootstraps
        PROVE  Cardinality({r \in revisions : r.by = [source |-> "bootstrap", id |-> i]})
                 = IF bootstraps[i].status = "confirmed" THEN 1 ELSE 0
    <3>1. CASE bootstraps[i].status = "confirmed"
      <4>1. PICK r \in revisions : r.by = [source |-> "bootstrap", id |-> i]
        BY <2>0, <3>1 DEF Decided
      <4>2. {o \in revisions : o.by = [source |-> "bootstrap", id |-> i]} = {r}
        BY <2>0, <4>1 DEF Decided
      <4> QED BY <3>1, <4>2, FS_Singleton
    <3>2. CASE bootstraps[i].status # "confirmed"
      <4>1. {o \in revisions : o.by = [source |-> "bootstrap", id |-> i]} = {}
        BY <2>0, <3>2 DEF Decided
      <4> QED BY <3>2, <4>1, FS_EmptySet
    <3> QED BY <3>1, <3>2
  <2> QED BY <2>0, <2>1, <2>2 DEF AsReviewed, History
<1> QED BY <1>1, Invariant, PTL

\* However projects are merged, deleted and restored, each of them resolves.
THEOREM ResolvableAlways == Spec => []Resolvable
<1>1. StoreInv => Resolvable
  BY DEF StoreInv, TreeInv
<1> QED BY <1>1, Invariant, PTL

\* An event is part of at most one checkpoint, and a trigger makes at most one.
THEOREM EventOnceAlways == Spec => []EventOnce
<1>1. StoreInv => EventOnce
  <2> SUFFICES ASSUME StoreInv, NEW k \in checkpoints, NEW o \in checkpoints, k # o
               PROVE  k.sources \cap o.sources = {} /\ k.trigger # o.trigger
    BY DEF EventOnce
  <2>0. /\ CaptureInv /\ Len(events) \in Nat
        /\ \A x \in checkpoints : x.version \in Nat /\ x.trigger \in Nat
    BY DEF StoreInv, CaptureInv, CheckpointRows
  <2>1. \A x \in checkpoints : /\ events[x.trigger].task = x.task /\ x.sources # {}
                               /\ \A j \in x.sources : j \in 1..x.trigger /\ events[j].task = x.task
    BY <2>0 DEF CaptureInv
  <2>2. CASE k.task # o.task
    BY <2>1, <2>2
  <2>3. ASSUME NEW x \in checkpoints, NEW y \in checkpoints, x.task = y.task, x.version < y.version
        PROVE  x.sources \cap y.sources = {} /\ x.trigger # y.trigger
    <3>1. \A j \in y.sources : x.trigger < j /\ j \in 1..y.trigger
      BY <2>0, <2>1, <2>3 DEF CaptureInv
    <3> QED BY <2>0, <2>1, <3>1
  <2>4. CASE k.task = o.task
    <3>1. k.version < o.version \/ o.version < k.version
      <4>1. k.version # o.version
        BY <2>0, <2>4 DEF CaptureInv
      <4> QED BY <2>0, <4>1
    <3> QED BY <2>3, <2>4, <3>1
  <2> QED BY <2>2, <2>4
<1> QED BY <1>1, Invariant, PTL

\* No proposal or bootstrap takes effect across a lifecycle change.
THEOREM AuthorityFresh == Spec => FreshAuthority
<1>1. StoreInv /\ [Next]_vars =>
        [/\ \A i \in DOMAIN proposals :
              proposals[i].status # "applied" /\ proposals'[i].status = "applied" => proposals[i].read = generation
         /\ \A i \in DOMAIN bootstraps :
              bootstraps[i].status # "confirmed" /\ bootstraps'[i].status = "confirmed" => bootstraps[i].read = generation
        ]_vars
  BY NextLawful DEF Lawful, Fresh
<1> QED BY <1>1, Invariant, PTL DEF Spec, FreshAuthority

\* The name, tasks, events and checkpoints of a deleted project stay as they were.
THEOREM DeletedFrozen == Spec => FrozenWhileDeleted
<1>1. StoreInv /\ [Next]_vars =>
        [\A p \in Projects : Dead(p) /\ Dead(p)' => Holds(p)' = Holds(p)]_vars
  BY NextLawful DEF Lawful, Frozen
<1> QED BY <1>1, Invariant, PTL DEF Spec, FrozenWhileDeleted
====
