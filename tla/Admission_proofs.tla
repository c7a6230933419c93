---------------------------- MODULE Admission_proofs ----------------------------
(***************************************************************************)
(* What stands before the kernel, for every value of the constants: what a *)
(* call is permitted, and how long a revocation may go unnoticed.          *)
(*                                                                         *)
(* Authority, for every document, every offer and any number of calls and  *)
(* delegations: the store of delegations is well formed; no delegation     *)
(* permits what its parent does not; a call is permitted only by a chain   *)
(* of which every link permits it; no budget above a call is overspent;    *)
(* and a call begins one leg at most once nothing covers it.  A chain is a *)
(* recursive function.  Its equations are proved to have a solution, and   *)
(* what holds along it is proved, by the least number for which it would   *)
(* not: AllNumbers is that induction.                                      *)
(*                                                                         *)
(* Identity, for any number of threads, credentials and keys, any bound,   *)
(* interval and timeout.  The argument follows one revocation from the     *)
(* source to the lookup.  What was revoked is listed in the source or was  *)
(* consumed (Listed).  A thread that has read the source carries, or the   *)
(* feed holds, all that was revoked before its first reading of the clock  *)
(* (Collected), so what _read_at dates was consumed (Dated); a feed that   *)
(* was not stale when the thread asked is therefore no older than the      *)
(* bound (Seen), and nothing is ever taken out of it again.  For who is    *)
(* turned away it follows a mark instead: from the moment a fetch or a     *)
(* poll was marked, what it was for is there, or the source was down       *)
(* since, or a thread is still at it (KeyMarked, PollMarked, FileMarked).  *)
(***************************************************************************)
EXTENDS Authority, Identity, FiniteSetTheorems, WellFoundedInduction, TLAPS

-----------------------------------------------------------------------------
(* What a call is permitted *)

(* The offers and the documents hold grants. *)
LEMMA OffersAreGrants ==
    /\ Offers \subseteq Grants
    /\ \A e \in Documents : DOMAIN e.grants \subseteq GrantIds
    /\ GrantIds \cap Nat = {} /\ EnvelopeIds \cap Nat = {}
    /\ \A e \in Documents : DOMAIN e.envelopes \subseteq EnvelopeIds
    /\ MaxTime \in Nat /\ MaxDelegations \in Nat
BY AuthorityConstants DEF AuthorityConstants, Wellformed

(* A record of the store keeps its kind when it is revoked. *)
LEMMA RevokedIsRecord ==
    ASSUME NEW r \in Records
    PROVE [r EXCEPT !.revoked = TRUE] \in Records
BY DEF Records, Delegated, Opened

(* The store is well formed at every moment (put_delegation, revoke_delegation): *)
(* each record is of one of two kinds and stands beneath an earlier one.         *)
LEMMA StoreTypeStep == StoreTypeOK /\ [Next]_vars => StoreTypeOK'
<1> SUFFICES ASSUME StoreTypeOK, [Next]_vars PROVE StoreTypeOK'
    OBVIOUS
<1> USE OffersAreGrants
<1> now \in Times /\ now + 0 = now
    BY DEF StoreTypeOK, Times
<1>1. ASSUME NEW p \in Ids, NEW g \in Offers, NEW by \in Agents, PlanDelegation(p, g, by)
      PROVE StoreTypeOK'
  <2>1. p \in GrantIds \cup DelegationIds /\ (p \in Nat => p \in Existing)
        BY <1>1 DEF PlanDelegation, ParentForCreation, StoreTypeOK, Existing, DelegationIds, Declared
  <2>2. Record(p, g, by, "api") \in Delegated
        BY <2>1 DEF Record, Delegated, StoreTypeOK
  <2> QED
        BY <1>1, <2>1, <2>2 DEF PlanDelegation, Record, Records, StoreTypeOK, Existing, Above
<1>2. ASSUME NEW e \in EnvelopeIds, NEW g \in Offers, NEW by \in Openers,
             PlanBreakGlass(e, g, by)
      PROVE StoreTypeOK'
  <2>1. Record(e, g, by, "break-glass") \in Opened
        BY DEF Record, Opened, StoreTypeOK
  <2> QED
        BY <1>2, <2>1 DEF PlanBreakGlass, Record, Records, StoreTypeOK, Existing, Above
<1>3. ASSUME PutDelegation PROVE StoreTypeOK'
  <2>1. plan \in Records /\ delegations \in Seq(Records)
        BY <1>3 DEF PutDelegation, StoreTypeOK
  <2>2. /\ delegations' = Append(delegations, plan) /\ delegations' \in Seq(Records)
        /\ Len(delegations') = Len(delegations) + 1
        BY <1>3, <2>1 DEF PutDelegation
  <2>3. Len(delegations') <= MaxDelegations
        BY <1>3, <2>1, <2>2 DEF PutDelegation, StoreTypeOK
  <2>4. ASSUME NEW d \in 1..Len(delegations'), delegations'[d].parent \in Nat
        PROVE delegations'[d].parent < d
        BY <1>3, <2>1, <2>2, <2>4 DEF PutDelegation, StoreTypeOK, Existing, Above
  <2> QED
        BY <1>3, <2>2, <2>3, <2>4 DEF PutDelegation, StoreTypeOK, Existing, Above
<1>4. ASSUME PlanIsLost PROVE StoreTypeOK'
      BY <1>4 DEF PlanIsLost, StoreTypeOK, Existing, Above
<1>5. ASSUME NEW d \in DelegationIds, Revoke(d) PROVE StoreTypeOK'
  <2>1. d \in 1..Len(delegations) /\ delegations[d] \in Records
        BY <1>5 DEF Revoke, Existing, StoreTypeOK
  <2>2. delegations' = [delegations EXCEPT ![d] = [delegations[d] EXCEPT !.revoked = TRUE]]
        BY <1>5 DEF Revoke
  <2>3. delegations' \in Seq(Records) /\ Len(delegations') = Len(delegations)
        BY <2>1, <2>2, RevokedIsRecord DEF StoreTypeOK
  <2>4. \A n \in 1..Len(delegations) : delegations'[n].parent = delegations[n].parent
        BY <2>1, <2>2 DEF StoreTypeOK, Records, Delegated, Opened
  <2> QED
        BY <1>5, <2>3, <2>4 DEF Revoke, StoreTypeOK, Existing, Above
<1>6. ASSUME NEW c \in Calls, \/ \E r \in Asks : Decide(c, r)
                              \/ Reserve(c) \/ Suspend(c) \/ Resume(c)
      PROVE StoreTypeOK'
      BY <1>6 DEF Decide, Reserve, Suspend, Resume, StoreTypeOK, Existing, Above
<1>7. ASSUME NEW d \in Documents, Deploy(d) PROVE StoreTypeOK'
      BY <1>7 DEF Deploy, StoreTypeOK, Existing, Above
<1>8. ASSUME Tick PROVE StoreTypeOK'
      BY <1>8 DEF Tick, StoreTypeOK, Existing, Above, Times
<1>9. CASE UNCHANGED vars
      BY <1>9 DEF vars, StoreTypeOK, Existing, Above
<1> QED
      BY <1>1, <1>2, <1>3, <1>4, <1>5, <1>6, <1>7, <1>8, <1>9 DEF Next

(* StoreTypeOK: every record of the store is of one of its two kinds. *)
THEOREM StoreIsTyped == Spec => []StoreTypeOK
<1>1. Init => StoreTypeOK
      BY OffersAreGrants DEF Init, StoreTypeOK, Existing, Times
<1> QED
      BY <1>1, StoreTypeStep, PTL DEF Spec

-----------------------------------------------------------------------------
(* Attenuation *)

(* A longer window over no more spends is no less strict, whatever moments are met. *)
LEMMA BudgetsBind ==
    ASSUME NEW parent \in SUBSET Budgets, NEW child \in SUBSET Budgets,
           BudgetsContained(parent, child),
           NEW moments \in SUBSET Times, Fits(child, moments)
    PROVE Fits(parent, moments)
<1> SUFFICES ASSUME NEW outer \in parent, NEW t \in Times
             PROVE Cardinality({s \in moments : t - outer.window <= s /\ s <= t}) <= outer.limit
    BY DEF Fits
<1>1. PICK inner \in child : inner.limit <= outer.limit /\ inner.window >= outer.window
      BY DEF BudgetsContained
<1> DEFINE short == {s \in moments : t - outer.window <= s /\ s <= t}
           long == {s \in moments : t - inner.window <= s /\ s <= t}
<1>0. /\ inner.window \in Nat /\ outer.window \in Nat
      /\ t \in Int /\ moments \subseteq Int
      BY OffersAreGrants DEF Budgets, Times
<1>2. short \subseteq long
  <2> SUFFICES ASSUME NEW s \in moments, t - outer.window <= s, s <= t
               PROVE t - inner.window <= s
      OBVIOUS
  <2> QED
      BY <1>0, <1>1
<1>3. IsFiniteSet(long)
  <2>1. IsFiniteSet(Times)
    <3>1. MaxTime \in Int
          BY OffersAreGrants
    <3> QED
          BY <3>1, FS_Interval DEF Times
  <2>2. long \subseteq Times
        OBVIOUS
  <2> QED
        BY <2>1, <2>2, FS_Subset
<1>4. /\ Cardinality(short) \in Nat /\ Cardinality(long) \in Nat
      /\ Cardinality(short) <= Cardinality(long)
      BY <1>2, <1>3, FS_Subset, FS_CardinalityType
<1>5. Cardinality(long) <= inner.limit
      BY DEF Fits
<1>6. inner.limit \in Nat /\ outer.limit \in Nat
      BY DEF Budgets
<1> QED
      BY <1>1, <1>4, <1>5, <1>6

(* What the records say of themselves: a plan is checked against a parent whose  *)
(* grant never changes again, so the check still holds when the plan is put.     *)
Narrows(p, g) == GrantOf(p).delegable /\ Contained(GrantOf(p), g)
PlanNarrows ==
    \A p \in Existing : plan # Nothing /\ plan.parent = p => Narrows(p, plan.grant)
StoreNarrows ==
    \A d \in Existing, p \in Existing : Above(d) = p => Narrows(p, GrantOf(d))
Narrowing == StoreTypeOK /\ PlanNarrows /\ StoreNarrows

(* A step that keeps the grants and the parents of the records keeps what they say. *)
LEMMA SameGrants ==
    ASSUME Narrowing, delegations' \in Seq(Records), Len(delegations') = Len(delegations),
           \A n \in 1..Len(delegations) : /\ delegations'[n].parent = delegations[n].parent
                                          /\ delegations'[n].grant = delegations[n].grant
    PROVE StoreNarrows' /\ (plan' = plan \/ plan' = Nothing => PlanNarrows')
<1>1. Existing' = Existing
      BY DEF Existing
<1>2. \A n \in Existing : GrantOf(n)' = GrantOf(n) /\ Above(n)' = Above(n)
      BY <1>1 DEF Existing, GrantOf, Above
<1>3. \A n \in Existing : \A g :
        Narrows(n, g) => GrantOf(n)'.delegable /\ Contained(GrantOf(n)', g)
      BY <1>2 DEF Narrows
<1> QED
      BY <1>1, <1>2, <1>3 DEF Narrowing, StoreNarrows, PlanNarrows, Narrows

LEMMA NarrowingStep == Narrowing /\ [Next]_vars => Narrowing'
<1> SUFFICES ASSUME Narrowing, [Next]_vars PROVE Narrowing'
    OBVIOUS
<1>t. StoreTypeOK /\ StoreTypeOK'
      BY StoreTypeStep DEF Narrowing
<1>1. ASSUME NEW p \in Ids, NEW g \in Offers, NEW by \in Agents, PlanDelegation(p, g, by)
      PROVE Narrowing'
  <2>1. StoreNarrows' /\ Existing' = Existing
        BY <1>1, <1>t, SameGrants DEF PlanDelegation, StoreTypeOK, Existing
  <2>2. plan'.parent = p /\ plan'.grant = g
        BY <1>1 DEF PlanDelegation, Record
  <2>3. GrantOf(p).delegable /\ Contained(GrantOf(p), g)
        BY <1>1 DEF PlanDelegation, ParentForCreation
  <2>4. GrantOf(p)' = GrantOf(p)
        BY <1>1 DEF PlanDelegation, GrantOf, Existing, Declared
  <2>5. PlanNarrows'
        BY <2>2, <2>3, <2>4 DEF PlanNarrows, Narrows
  <2> QED
        BY <1>t, <2>1, <2>5 DEF Narrowing
<1>2. ASSUME NEW e \in EnvelopeIds, NEW g \in Offers, NEW by \in Openers,
             PlanBreakGlass(e, g, by)
      PROVE Narrowing'
  <2>1. StoreNarrows'
        BY <1>2, <1>t, SameGrants DEF PlanBreakGlass, StoreTypeOK
  <2>2. plan'.parent = e /\ e \notin Nat
        BY <1>2, OffersAreGrants DEF PlanBreakGlass, Record
  <2>3. PlanNarrows'
        BY <2>2, <1>t DEF PlanNarrows, Existing, StoreTypeOK
  <2> QED
        BY <1>t, <2>1, <2>3 DEF Narrowing
<1>3. ASSUME PutDelegation PROVE Narrowing'
  <2>1. /\ plan \in Records /\ delegations \in Seq(Records) /\ plan # Nothing
        /\ delegations' = Append(delegations, plan) /\ plan' = Nothing
        BY <1>3, <1>t DEF PutDelegation, StoreTypeOK
  <2>0. PICK n \in Nat : n = Len(delegations)
        BY <2>1
  <2>2. Existing' = Existing \cup {n + 1} /\ Existing = 1..n
        BY <2>0, <2>1 DEF Existing
  <2>3. \A d \in Existing : delegations'[d] = delegations[d]
        BY <2>0, <2>1, <2>2
  <2>4. \A d \in Existing : GrantOf(d)' = GrantOf(d) /\ Above(d)' = Above(d)
        BY <2>2, <2>3 DEF GrantOf, Above
  <2>5. GrantOf(n + 1)' = plan.grant /\ Above(n + 1)' = plan.parent
        BY <2>0, <2>1, <2>2 DEF GrantOf, Above
  <2>6. \A d \in Existing' : Above(d)' \in Existing' => Above(d)' \in Existing
    <3>1. \A d \in Existing' : Above(d)' \in Nat => Above(d)' < d
          BY <1>t DEF StoreTypeOK
    <3> QED
          BY <3>1, <2>2
  <2>7. \A d \in Existing : \A g : Narrows(d, g) => GrantOf(d)'.delegable /\ Contained(GrantOf(d)', g)
        BY <2>4 DEF Narrows
  <2>8. ASSUME NEW d \in Existing', NEW p \in Existing', Above(d)' = p
        PROVE GrantOf(p)'.delegable /\ Contained(GrantOf(p)', GrantOf(d)')
    <3>0. p \in Existing
          BY <2>6, <2>8
    <3>1. CASE d \in Existing
      <4>1. Above(d) = p /\ GrantOf(d)' = GrantOf(d)
            BY <3>1, <2>4, <2>8
      <4>2. Narrows(p, GrantOf(d))
            BY <3>0, <3>1, <4>1 DEF Narrowing, StoreNarrows
      <4> QED
            BY <3>0, <4>1, <4>2, <2>7
    <3>2. CASE d = n + 1
      <4>1. plan.parent = p /\ GrantOf(d)' = plan.grant
            BY <3>2, <2>5, <2>8
      <4>2. Narrows(p, plan.grant)
            BY <3>0, <4>1, <2>1 DEF Narrowing, PlanNarrows
      <4> QED
            BY <3>0, <4>1, <4>2, <2>7
    <3> QED
          BY <3>1, <3>2, <2>2, <2>8
  <2>9. StoreNarrows'
        BY <2>8 DEF StoreNarrows, Narrows
  <2> QED
        BY <1>t, <2>1, <2>9 DEF Narrowing, PlanNarrows
<1>4. ASSUME NEW d \in DelegationIds, Revoke(d) PROVE Narrowing'
  <2>1. /\ delegations' \in Seq(Records) /\ delegations \in Seq(Records)
        /\ d \in 1..Len(delegations)
        /\ delegations' = [delegations EXCEPT ![d] = [delegations[d] EXCEPT !.revoked = TRUE]]
        BY <1>4, <1>t DEF Revoke, StoreTypeOK, Existing
  <2>2. /\ Len(delegations') = Len(delegations)
        /\ \A n \in 1..Len(delegations) : /\ delegations'[n].parent = delegations[n].parent
                                          /\ delegations'[n].grant = delegations[n].grant
        BY <2>1 DEF Records, Delegated, Opened
  <2> QED
        BY <1>4, <1>t, <2>1, <2>2, SameGrants DEF Revoke, Narrowing
<1>5. ASSUME UNCHANGED delegations, plan' = plan \/ plan' = Nothing PROVE Narrowing'
      BY <1>5, <1>t, SameGrants DEF Narrowing, StoreTypeOK
<1>6. CASE PlanIsLost
      BY <1>5, <1>6 DEF PlanIsLost
<1>7. ASSUME NEW c \in Calls, \/ \E r \in Asks : Decide(c, r)
                              \/ Reserve(c) \/ Suspend(c) \/ Resume(c)
      PROVE Narrowing'
      BY <1>5, <1>7 DEF Decide, Reserve, Suspend, Resume
<1>8. CASE Tick \/ UNCHANGED vars \/ \E e \in Documents : Deploy(e)
      BY <1>5, <1>8 DEF Tick, vars, Deploy
<1> QED
      BY <1>1, <1>2, <1>3, <1>4, <1>6, <1>7, <1>8 DEF Next

(* Attenuated: the moments, acts, tasks and series of spends a delegation permits *)
(* are its parent's, for every offer and however the store was filled.            *)
THEOREM DelegationsAttenuate == Spec => []Attenuated
<1>1. Init => Narrowing
      BY OffersAreGrants
      DEF Init, Narrowing, StoreTypeOK, PlanNarrows, StoreNarrows, Existing, Times
<1>2. Narrowing => Attenuated
  <2> SUFFICES ASSUME Narrowing, NEW d \in Existing, Above(d) \in Existing,
                      NEW child, child = GrantOf(d), NEW parent, parent = GrantOf(Above(d))
               PROVE /\ parent.delegable
                     /\ child.reach \subseteq parent.reach /\ child.tasks \subseteq parent.tasks
                     /\ \A t \in Times : Expired(parent, t) => Expired(child, t)
                     /\ \A moments \in SUBSET Times :
                           Fits(child.budgets, moments) => Fits(parent.budgets, moments)
      BY DEF Attenuated
  <2>1. parent.delegable /\ Contained(parent, child)
        BY DEF Narrowing, StoreNarrows, Narrows
  <2>2. child \in Grants /\ parent \in Grants
        BY DEF Narrowing, StoreTypeOK, Existing, GrantOf, Records, Delegated, Opened
  <2>3. \A t \in Times : Expired(parent, t) => Expired(child, t)
        BY <2>1, <2>2, OffersAreGrants DEF Contained, Expired, Grants, Times, Never
  <2>4. child.budgets \in SUBSET Budgets /\ parent.budgets \in SUBSET Budgets
        BY <2>2 DEF Grants
  <2>5. \A moments \in SUBSET Times :
            Fits(child.budgets, moments) => Fits(parent.budgets, moments)
        BY <2>1, <2>4, BudgetsBind DEF Contained
  <2> QED
        BY <2>1, <2>3, <2>5 DEF Contained
<1> QED
      BY <1>1, <1>2, NarrowingStep, PTL DEF Spec
-----------------------------------------------------------------------------
(* The chain of a delegation.  Climb and Upward are recursive functions: that  *)
(* their equations have a solution is shown by the least number without one.   *)

(* Induction, for a set of numbers. *)
LEMMA AllNumbers ==
    ASSUME NEW S, 0 \in S, \A n \in Nat : n \in S => n + 1 \in S
    PROVE  Nat \subseteq S
<1> SUFFICES ASSUME Nat \ S # {} PROVE FALSE
  OBVIOUS
<1> DEFINE T == Nat \ S
<1>1. PICK m \in T : \A e \in T : ~(<<e, m>> \in OpToRel(<, Nat))
  <2>1. T \subseteq Nat /\ T # {}
    OBVIOUS
  <2> HIDE DEF T
  <2> QED
    BY <2>1, NatLessThanWellFounded, WFMin
<1>2. \A e \in T : ~(e < m)
  BY <1>1 DEF OpToRel
<1>3. m # 0 /\ m - 1 \in Nat /\ m - 1 < m /\ (m - 1) + 1 = m
  OBVIOUS
<1>4. m - 1 \in S
  BY <1>2, <1>3
<1> QED
  BY <1>1, <1>3, <1>4

Rung(x) == IF Above(x) \in Existing THEN Above(x) ELSE x

LEMMA LadderExists ==
    ASSUME NEW N \in Nat, NEW d
    PROVE  \E f : f = [n \in 0..N |-> IF n = 0 THEN d ELSE Rung(f[n - 1])]
<1> DEFINE L(M, f) == f = [n \in 0..M |-> IF n = 0 THEN d ELSE Rung(f[n - 1])]
           S == {M \in Nat : \E f : L(M, f)}
<1>1. 0 \in S
  <2> DEFINE f == [n \in 0..0 |-> d]
  <2>1. f = [n \in 0..0 |-> IF n = 0 THEN d ELSE Rung(f[n - 1])]
    OBVIOUS
  <2> QED
    BY <2>1
<1>2. ASSUME NEW M \in Nat, M \in S PROVE M + 1 \in S
  <2>1. PICK g : L(M, g)
    BY <1>2
  <2> DEFINE f == [n \in 0..(M + 1) |-> IF n = M + 1 THEN Rung(g[M]) ELSE g[n]]
  <2>2. ASSUME NEW n \in 0..(M + 1) PROVE f[n] = IF n = 0 THEN d ELSE Rung(f[n - 1])
    <3>1. CASE n = 0
      BY <2>1, <3>1
    <3>2. CASE n = M + 1
      BY <3>2
    <3>3. CASE n \in 1..M
      <4>1. f[n] = g[n] /\ f[n - 1] = g[n - 1] /\ n # 0 /\ n \in 0..M
        BY <3>3
      <4>2. g[n] = IF n = 0 THEN d ELSE Rung(g[n - 1])
        BY <2>1, <4>1
      <4> QED
        BY <4>1, <4>2
    <3> QED
      BY <3>1, <3>2, <3>3
  <2>3. L(M + 1, f)
    <3>1. f = [n \in 0..(M + 1) |-> f[n]]
      OBVIOUS
    <3>2. [n \in 0..(M + 1) |-> f[n]] = [n \in 0..(M + 1) |-> IF n = 0 THEN d ELSE Rung(f[n - 1])]
      <4> HIDE DEF f
      <4> QED
        BY <2>2
    <3> QED
      BY <3>1, <3>2
  <2>4. \E h : L(M + 1, h)
    <3> HIDE DEF f, L
    <3> QED
      BY <2>3
  <2> QED
    BY <2>4
<1> HIDE DEF S
<1>3. N \in S
  BY <1>1, <1>2, AllNumbers
<1> QED
  BY <1>3 DEF S

LEMMA ClimbIs ==
    ASSUME doc.depth \in Nat, NEW d
    PROVE  Climb(d) = [n \in 0..doc.depth |-> IF n = 0 THEN d ELSE Rung(Climb(d)[n - 1])]
<1> DEFINE P(f) == f = [n \in 0..doc.depth |-> IF n = 0 THEN d ELSE Rung(f[n - 1])]
<1>1. \E f : P(f)
  <2>1. \E f : f = [n \in 0..doc.depth |-> IF n = 0 THEN d ELSE Rung(f[n - 1])]
    BY LadderExists, Zenon
  <2> QED
    BY <2>1, Zenon
<1>2. Climb(d) = CHOOSE f : P(f)
  BY DEF Climb, Rung
<1>3. P(CHOOSE f : P(f))
  <2> HIDE DEF P
  <2> QED BY <1>1
<1>4. P(Climb(d))
  <2> HIDE DEF P
  <2> QED BY <1>2, <1>3
<1> QED BY <1>4

LEMMA UpwardIs ==
    ASSUME NEW i
    PROVE  \E f : /\ f = [n \in 0..MaxDelegations |->
                         IF n = 0 THEN i
                         ELSE IF f[n - 1] \in Existing THEN Above(f[n - 1]) ELSE f[n - 1]]
                  /\ Upward(i) = {f[n] : n \in 0..MaxDelegations}
<1> DEFINE Step(x) == IF x \in Existing THEN Above(x) ELSE x
           P(M, f) == f = [n \in 0..M |-> IF n = 0 THEN i ELSE Step(f[n - 1])]
           S == {M \in Nat : \E f : P(M, f)}
           up == CHOOSE f : P(MaxDelegations, f)
<1>1. 0 \in S
  <2> DEFINE f == [n \in 0..0 |-> i]
  <2>1. f = [n \in 0..0 |-> IF n = 0 THEN i ELSE Step(f[n - 1])]
    OBVIOUS
  <2> QED
    BY <2>1
<1>2. ASSUME NEW M \in Nat, M \in S PROVE M + 1 \in S
  <2>1. PICK g : P(M, g)
    BY <1>2
  <2> DEFINE f == [n \in 0..(M + 1) |-> IF n = M + 1 THEN Step(g[M]) ELSE g[n]]
  <2>2. ASSUME NEW n \in 0..(M + 1) PROVE f[n] = IF n = 0 THEN i ELSE Step(f[n - 1])
    <3>1. CASE n = 0
      BY <2>1, <3>1
    <3>2. CASE n = M + 1
      BY <3>2
    <3>3. CASE n \in 1..M
      <4>1. f[n] = g[n] /\ f[n - 1] = g[n - 1] /\ n # 0 /\ n \in 0..M
        BY <3>3
      <4>2. g[n] = IF n = 0 THEN i ELSE Step(g[n - 1])
        BY <2>1, <4>1
      <4> QED
        BY <4>1, <4>2
    <3> QED
      BY <3>1, <3>2, <3>3
  <2>3. P(M + 1, f)
    <3>1. f = [n \in 0..(M + 1) |-> f[n]]
      OBVIOUS
    <3>2. [n \in 0..(M + 1) |-> f[n]] = [n \in 0..(M + 1) |-> IF n = 0 THEN i ELSE Step(f[n - 1])]
      <4> HIDE DEF f
      <4> QED
        BY <2>2
    <3> QED
      BY <3>1, <3>2
  <2>4. \E h : P(M + 1, h)
    <3> HIDE DEF f, P
    <3> QED
      BY <2>3
  <2> QED
    BY <2>4
<1>3. MaxDelegations \in S
  <2> HIDE DEF S
  <2> QED
    BY <1>1, <1>2, AllNumbers, OffersAreGrants
<1>4. P(MaxDelegations, up)
  <2>1. \E f : P(MaxDelegations, f)
    BY <1>3
  <2> HIDE DEF P
  <2> QED
    BY <2>1
<1>5. Upward(i) = {up[n] : n \in 0..MaxDelegations}
  BY DEF Upward
<1> HIDE DEF up
<1> QED
  BY <1>4, <1>5

(* Every rung is a delegation of the store, and no higher than the one it began at. *)
LEMMA ClimbStays ==
    ASSUME doc.depth \in Nat, NEW d \in Existing
    PROVE  \A n \in 0..doc.depth : Climb(d)[n] \in Existing
<1> DEFINE S == {n \in Nat : n <= doc.depth => Climb(d)[n] \in Existing}
<1>1. 0 \in S
  BY ClimbIs
<1>2. ASSUME NEW n \in Nat, n \in S PROVE n + 1 \in S
  <2> SUFFICES ASSUME n + 1 <= doc.depth PROVE Climb(d)[n + 1] \in Existing
    OBVIOUS
  <2>1. Climb(d)[n + 1] = Rung(Climb(d)[n])
    BY ClimbIs
  <2>2. Climb(d)[n] \in Existing
    BY <1>2
  <2> QED
    BY <2>1, <2>2 DEF Rung
<1>3. Nat \subseteq S
  <2> HIDE DEF S
  <2> QED
    BY <1>1, <1>2, AllNumbers
<1> QED
  BY <1>3

LEMMA HighestIs == ASSUME doc.depth \in Nat PROVE Highest \in 0..doc.depth
  BY DEF Highest

LEMMA NodesStay ==
    ASSUME doc.depth \in Nat, NEW d \in Existing
    PROVE  /\ Nodes(d) \subseteq Existing /\ d \in Nodes(d) /\ Top(d) \in Nodes(d)
           /\ IsFiniteSet(Nodes(d))
<1>1. Highest \in 0..doc.depth
  BY HighestIs
<1>2. Nodes(d) \subseteq Existing
  BY <1>1, ClimbStays DEF Nodes
<1>3. d \in Nodes(d)
  <2>1. Climb(d)[0] = d /\ 0 \in 0..Highest
    BY <1>1, ClimbIs
  <2> QED
    BY <2>1 DEF Nodes
<1>4. Top(d) \in Nodes(d)
  BY <1>1 DEF Nodes, Top
<1>5. IsFiniteSet(Nodes(d))
  <2>1. IsFiniteSet(0..Highest)
    BY <1>1, FS_Interval
  <2>2. [n \in 0..Highest |-> Climb(d)[n]] \in Surjection(0..Highest, Nodes(d))
    BY DEF Surjection, Nodes
  <2> QED
    BY <2>1, <2>2, FS_Surjection
<1> QED
  BY <1>2, <1>3, <1>4, <1>5

(* Once the climb meets a delegation whose parent is none, it has arrived. *)
LEMMA ClimbArrives ==
    ASSUME doc.depth \in Nat, NEW d \in Existing, NEW m \in 0..Highest,
           Above(Climb(d)[m]) \notin Existing
    PROVE  Top(d) = Climb(d)[m]
<1> DEFINE S == {k \in Nat : m + k <= Highest => Climb(d)[m + k] = Climb(d)[m]}
<1>0. Highest \in 0..doc.depth
  BY HighestIs
<1>1. 0 \in S
  BY <1>0
<1>2. ASSUME NEW k \in Nat, k \in S PROVE k + 1 \in S
  <2> SUFFICES ASSUME m + (k + 1) <= Highest PROVE Climb(d)[m + (k + 1)] = Climb(d)[m]
    OBVIOUS
  <2>1. m + (k + 1) \in 0..doc.depth /\ m + (k + 1) # 0 /\ (m + (k + 1)) - 1 = m + k /\ m + k <= Highest
    BY <1>0
  <2>2. Climb(d)[m + (k + 1)] = Rung(Climb(d)[m + k])
    BY <2>1, ClimbIs
  <2>3. Climb(d)[m + k] = Climb(d)[m]
    BY <1>2, <2>1
  <2> QED
    BY <2>2, <2>3 DEF Rung
<1>3. Nat \subseteq S
  <2> HIDE DEF S
  <2> QED
    BY <1>1, <1>2, AllNumbers
<1>4. Highest - m \in S /\ m + (Highest - m) = Highest
  BY <1>0, <1>3
<1> QED
  BY <1>0, <1>4 DEF Top

(* What stands above a node of a rooted chain is in the chain. *)
LEMMA ChainCloses ==
    ASSUME doc.depth \in Nat, NEW d \in Existing, RootId(d) \notin Existing, NEW x \in Nodes(d)
    PROVE  /\ Above(x) \in Chain(d)
           /\ Above(x) \notin Existing => x = Top(d)
<1>1. PICK m \in 0..Highest : x = Climb(d)[m]
  BY DEF Nodes
<1>2. Highest \in 0..doc.depth
  BY HighestIs
<1>3. CASE Above(x) \notin Existing
  BY <1>1, <1>3, ClimbArrives DEF Chain, RootId
<1>4. CASE Above(x) \in Existing
  <2>1. m # Highest
    BY <1>1, <1>4 DEF RootId, Top
  <2>2. m + 1 \in 0..Highest /\ m + 1 \in 0..doc.depth /\ m + 1 # 0 /\ (m + 1) - 1 = m
    BY <1>2, <2>1
  <2>3. Climb(d)[m + 1] = Above(x)
    BY <1>1, <1>4, <2>2, ClimbIs DEF Rung
  <2> QED
    BY <1>4, <2>2, <2>3 DEF Chain, Nodes
<1> QED
  BY <1>3, <1>4

(* From a delegation up to the document, the evaluation has seen every grant. *)
LEMMA UpwardInChain ==
    ASSUME StoreTypeOK, doc.depth \in Nat, NEW d \in Existing, RootId(d) \notin Nat
    PROVE  Upward(d) \subseteq Chain(d) /\ RootId(d) \in Upward(d)
<1>0. /\ Existing = 1..Len(delegations) /\ Len(delegations) \in Nat
      /\ Len(delegations) <= MaxDelegations /\ MaxDelegations \in Nat
      /\ RootId(d) \notin Existing
  BY OffersAreGrants DEF StoreTypeOK, Existing
<1>1. PICK f : /\ f = [n \in 0..MaxDelegations |->
                          IF n = 0 THEN d
                          ELSE IF f[n - 1] \in Existing THEN Above(f[n - 1]) ELSE f[n - 1]]
               /\ Upward(d) = {f[n] : n \in 0..MaxDelegations}
  BY UpwardIs
<1> DEFINE Sinks(n) == f[n] \in Chain(d) /\ (f[n] # RootId(d) => f[n] \in Existing /\ f[n] <= d - n)
           S == {n \in Nat : n <= MaxDelegations => Sinks(n)}
<1>2. 0 \in S
  <2>1. f[0] = d
    BY <1>0, <1>1
  <2> QED
    BY <1>0, <2>1, NodesStay DEF Chain
<1>3. ASSUME NEW n \in Nat, n \in S PROVE n + 1 \in S
  <2> SUFFICES ASSUME n + 1 <= MaxDelegations PROVE Sinks(n + 1)
    OBVIOUS
  <2>1. f[n + 1] = IF f[n] \in Existing THEN Above(f[n]) ELSE f[n]
    BY <1>0, <1>1
  <2>2. Sinks(n)
    BY <1>0, <1>3
  <2>3. CASE f[n] = RootId(d)
    BY <1>0, <2>1, <2>2, <2>3
  <2>4. CASE f[n] # RootId(d)
    <3>1. f[n] \in Nodes(d) /\ f[n] \in Existing /\ f[n] <= d - n
      BY <2>2, <2>4 DEF Chain
    <3>2. f[n + 1] = Above(f[n]) /\ Above(f[n]) \in Chain(d)
      BY <1>0, <2>1, <3>1, ChainCloses
    <3>3. Above(f[n]) # RootId(d) => Above(f[n]) \in Existing
      BY <1>0, <3>2, NodesStay DEF Chain
    <3>4. Above(f[n]) \in Nat => Above(f[n]) < f[n]
      BY <3>1 DEF StoreTypeOK
    <3> QED
      BY <1>0, <3>1, <3>2, <3>3, <3>4
  <2> QED
    BY <2>3, <2>4
<1>4. Nat \subseteq S
  <2> HIDE DEF S
  <2> QED
    BY <1>2, <1>3, AllNumbers
<1>5. \A n \in 0..MaxDelegations : Sinks(n)
  BY <1>0, <1>4
<1>6. f[MaxDelegations] = RootId(d)
  <2>1. Sinks(MaxDelegations) /\ d <= MaxDelegations
    BY <1>0, <1>5
  <2> QED
    BY <1>0, <2>1
<1> QED
  BY <1>0, <1>1, <1>5, <1>6

(* Each step of the chain is contained in the one above, so what the leaf reaches *)
(* every grant above it reaches.                                                  *)
LEMMA ReachesUp ==
    ASSUME doc.depth \in Nat, NEW d \in Existing, StepsContained(d), NEW a \in Chain(d)
    PROVE  GrantOf(d).reach \subseteq GrantOf(a).reach /\ GrantOf(d).tasks \subseteq GrantOf(a).tasks
<1> DEFINE Within(x) == /\ GrantOf(d).reach \subseteq GrantOf(x).reach
                        /\ GrantOf(d).tasks \subseteq GrantOf(x).tasks
           S == {n \in Nat : n <= Highest => Within(Climb(d)[n])}
<1>0. Highest \in 0..doc.depth
  BY HighestIs
<1>1. ASSUME NEW x \in Nodes(d), Within(x) PROVE Within(Above(x))
  BY <1>1 DEF StepsContained, Contained
<1>2. 0 \in S
  <2>1. Climb(d)[0] = d
    BY ClimbIs
  <2> QED
    BY <2>1
<1>3. ASSUME NEW n \in Nat, n \in S PROVE n + 1 \in S
  <2> SUFFICES ASSUME n + 1 <= Highest PROVE Within(Climb(d)[n + 1])
    OBVIOUS
  <2>1. n \in 0..Highest /\ n + 1 \in 0..doc.depth /\ n + 1 # 0 /\ (n + 1) - 1 = n
    BY <1>0
  <2>2. Within(Climb(d)[n]) /\ Climb(d)[n] \in Nodes(d)
    BY <1>3, <2>1 DEF Nodes
  <2>3. Within(Above(Climb(d)[n]))
    <3> HIDE DEF Within
    <3> QED
      BY <1>1, <2>2
  <2>4. Climb(d)[n + 1] = Rung(Climb(d)[n])
    BY <2>1, ClimbIs
  <2> HIDE DEF Within
  <2> QED
    BY <2>2, <2>3, <2>4 DEF Rung
<1>4. Nat \subseteq S
  <2> HIDE DEF S
  <2> QED
    BY <1>2, <1>3, AllNumbers
<1>5. \A x \in Nodes(d) : Within(x)
  BY <1>0, <1>4 DEF Nodes
<1>6. Within(RootId(d))
  <2>1. Top(d) \in Nodes(d)
    BY NodesStay
  <2> HIDE DEF Within
  <2> QED
    BY <1>1, <1>5, <2>1 DEF RootId
<1> QED
  BY <1>5, <1>6 DEF Chain

-----------------------------------------------------------------------------
(* What is decided, along the whole chain *)

(* What a grant or a delegation that covers a request says of everything above it. *)
LinksPermit(i, r) ==
    /\ \E root \in Upward(i) : root \in Declared \cup Enveloped
    /\ Cardinality(Upward(i)) <= doc.depth + 1
    /\ \A a \in Upward(i) \ {i} : a \in Enveloped \/ GrantOf(a).delegable
    /\ \A a \in Upward(i) :
          /\ r.act \in GrantOf(a).reach /\ r.task \in GrantOf(a).tasks
          /\ ~Expired(GrantOf(a), now)
          /\ a \in Existing => ~delegations[a].revoked
    /\ \A d \in Upward(i) \cap Existing : Above(d) \in Enveloped =>
          /\ delegations[d].by \in Openers
          /\ now <= delegations[d].created + doc.envelopes[Above(d)].ttl

LEMMA DocumentIs ==
    ASSUME StoreTypeOK
    PROVE  /\ doc.depth \in Nat
           /\ Declared \subseteq GrantIds /\ Enveloped \subseteq EnvelopeIds
           /\ \A i \in Declared : doc.grants[i] \in Grants
           /\ \A i \in Enveloped : doc.envelopes[i].grant \in Grants /\ doc.envelopes[i].ttl \in Nat
           /\ \A i \in Existing : i \in Nat /\ delegations[i] \in Records /\ delegations[i].grant \in Grants
           /\ (GrantIds \cup EnvelopeIds) \cap Nat = {} /\ GrantIds \cap EnvelopeIds = {}
<1>1. doc \in Documents /\ delegations \in Seq(Records)
  BY DEF StoreTypeOK
<1>2. /\ doc.depth \in Nat
      /\ \A i \in DOMAIN doc.grants : i \in GrantIds /\ Wellformed(doc.grants[i])
      /\ \A i \in DOMAIN doc.envelopes : /\ i \in EnvelopeIds /\ doc.envelopes[i].ttl \in Nat
                                         /\ Wellformed(doc.envelopes[i].grant)
      /\ (GrantIds \cup EnvelopeIds) \cap Nat = {} /\ GrantIds \cap EnvelopeIds = {}
  BY <1>1, AuthorityConstants DEF AuthorityConstants
<1>3. \A i \in Existing : i \in Nat /\ delegations[i] \in Records
  BY <1>1 DEF Existing
<1>4. \A r \in Records : r.grant \in Grants
  BY DEF Records, Delegated, Opened
<1> QED
  BY <1>2, <1>3, <1>4 DEF Declared, Enveloped, Wellformed

(* A grant of the document stands alone. *)
LEMMA DeclaredPermits ==
    ASSUME StoreTypeOK, NEW i \in Declared, NEW r, Reaches(GrantOf(i), r, TRUE),
           ~Expired(GrantOf(i), now)
    PROVE  LinksPermit(i, r)
<1>0. i \notin Existing /\ doc.depth \in Nat /\ MaxDelegations \in Nat
  BY DocumentIs, OffersAreGrants
<1>1. PICK f : /\ f = [n \in 0..MaxDelegations |->
                          IF n = 0 THEN i
                          ELSE IF f[n - 1] \in Existing THEN Above(f[n - 1]) ELSE f[n - 1]]
               /\ Upward(i) = {f[n] : n \in 0..MaxDelegations}
  BY UpwardIs
<1> DEFINE S == {n \in Nat : n <= MaxDelegations => f[n] = i}
<1>2. 0 \in S
  BY <1>0, <1>1
<1>3. ASSUME NEW n \in Nat, n \in S PROVE n + 1 \in S
  BY <1>0, <1>1, <1>3
<1>4. Nat \subseteq S
  <2> HIDE DEF S
  <2> QED
    BY <1>2, <1>3, AllNumbers
<1>5. Upward(i) = {i}
  <2>1. \A n \in 0..MaxDelegations : f[n] = i
    BY <1>0, <1>4
  <2>2. 0 \in 0..MaxDelegations
    BY <1>0
  <2> QED
    BY <1>1, <2>1, <2>2
<1>6. Cardinality(Upward(i)) <= doc.depth + 1
  BY <1>0, <1>5, FS_Singleton
<1> QED
  BY <1>0, <1>5, <1>6 DEF LinksPermit, Reaches

LEMMA DelegatedPermits ==
    ASSUME StoreTypeOK, NEW i \in Existing, NEW r, Covers(i, r, TRUE, now)
    PROVE  LinksPermit(i, r)
<1>0. ChainValid(i, now) /\ Reaches(GrantOf(i), r, TRUE) /\ ~Expired(GrantOf(i), now)
  BY DEF Covers
<1>1. /\ doc.depth \in Nat /\ RootId(i) \in Declared \cup Enveloped
      /\ RootId(i) \notin Nat /\ RootId(i) \notin Existing
  BY <1>0, DocumentIs DEF ChainValid, Rooted
<1>2. Upward(i) \subseteq Chain(i) /\ RootId(i) \in Upward(i)
  BY <1>1, UpwardInChain
<1>3. Nodes(i) \subseteq Existing /\ IsFiniteSet(Nodes(i)) /\ Cardinality(Nodes(i)) <= doc.depth
  BY <1>0, <1>1, NodesStay DEF ChainValid
<1>4. Cardinality(Upward(i)) <= doc.depth + 1
  <2>1. IsFiniteSet(Chain(i)) /\ Cardinality(Chain(i)) =
            IF RootId(i) \in Nodes(i) THEN Cardinality(Nodes(i)) ELSE Cardinality(Nodes(i)) + 1
    BY <1>3, FS_AddElement DEF Chain
  <2>2. Cardinality(Chain(i)) <= doc.depth + 1
    BY <1>1, <1>3, <2>1, FS_CardinalityType
  <2>3. Cardinality(Upward(i)) <= Cardinality(Chain(i))
    BY <1>2, <2>1, FS_Subset
  <2>4. Cardinality(Upward(i)) \in Nat /\ Cardinality(Chain(i)) \in Nat
    BY <1>2, <2>1, FS_Subset, FS_CardinalityType
  <2> QED
    BY <1>1, <2>2, <2>3, <2>4
<1>5. \A a \in Upward(i) \ {i} : a \in Enveloped \/ GrantOf(a).delegable
  BY <1>0, <1>2 DEF ChainValid, Ancestors, Delegable
<1>6. \A a \in Upward(i) : ~Expired(GrantOf(a), now)
  BY <1>0, <1>2 DEF ChainValid, Ancestors
<1>7. \A a \in Upward(i) : r.act \in GrantOf(a).reach /\ r.task \in GrantOf(a).tasks
  BY <1>0, <1>1, <1>2, ReachesUp DEF ChainValid, Reaches
<1>8. \A a \in Upward(i) : a \in Existing => ~delegations[a].revoked
  BY <1>0, <1>1, <1>2 DEF ChainValid, Chain
<1>9. ASSUME NEW d \in Upward(i) \cap Existing, Above(d) \in Enveloped
      PROVE  /\ delegations[d].by \in Openers
             /\ now <= delegations[d].created + doc.envelopes[Above(d)].ttl
  <2>1. d \in Nodes(i)
    BY <1>1, <1>2, <1>9 DEF Chain
  <2>2. Above(d) \notin Existing
    BY <1>9, DocumentIs
  <2>3. d = Top(i) /\ RootId(i) = Above(d)
    BY <1>1, <2>1, <2>2, ChainCloses DEF RootId
  <2>4. GrantOf(d).expires <= delegations[d].created + doc.envelopes[Above(d)].ttl
    BY <1>0, <1>9, <2>3 DEF ChainValid, WithinTtl
  <2>5. /\ GrantOf(d).expires \in Nat /\ now \in Nat /\ delegations[d].created \in Nat
        /\ doc.envelopes[Above(d)].ttl \in Nat
    <3>1. delegations[d] \in Records /\ delegations[d].grant \in Grants /\ now \in Times
      BY <1>9, DocumentIs DEF StoreTypeOK
    <3>2. Times \subseteq Nat /\ 0..Never \subseteq Nat
      BY OffersAreGrants DEF Times, Never
    <3> QED
      BY <1>9, <3>1, <3>2, DocumentIs DEF Records, Delegated, Opened, Grants, GrantOf
  <2>6. now <= GrantOf(d).expires
    BY <1>6, <1>9, <2>5 DEF Expired
  <2>7. delegations[d].by \in Openers
    <3>1. delegations[d] \in Records /\ delegations[d].parent \in EnvelopeIds
      BY <1>9, DocumentIs DEF Above
    <3>2. delegations[d].parent \notin GrantIds \cup DelegationIds
      BY <3>1, DocumentIs DEF DelegationIds
    <3> QED
      BY <3>1, <3>2 DEF Records, Delegated, Opened
  <2> QED
    BY <2>4, <2>5, <2>6, <2>7
<1> QED
  BY <1>1, <1>2, <1>4, <1>5, <1>6, <1>7, <1>8, <1>9 DEF LinksPermit

-----------------------------------------------------------------------------
(* What the calls carry *)

Names == GrantIds \cup EnvelopeIds \cup DelegationIds \cup {NoHop}
Charges == [grant : Names, limit : Nat, window : Nat]
CallOf == [pc : {"idle", "over", "decided", "running", "suspended", "finished"},
           request : Requests \cup {Nothing}, leaf : Names, chain : SUBSET Names,
           charges : SUBSET Charges, at : Times, strayed : {0, 1}]

(* A call is charged whatever is stated for the grants it stands beneath. *)
Priced(c) ==
    \A i \in calls[c].chain \cap (GrantIds \cup Existing) : \A b \in StatedBy(i) :
        [grant |-> i, limit |-> b.limit, window |-> b.window] \in calls[c].charges

Begun == {c \in Calls : ~At(c, "idle")}

CallOK(c) ==
    /\ calls[c].at <= now
    /\ calls[c].chain \subseteq GrantIds \cup EnvelopeIds \cup Existing
    /\ calls[c].pc \in {"idle", "decided", "suspended"} => calls[c].strayed = 0
    /\ Priced(c)

CallsOK ==
    /\ StoreTypeOK
    /\ calls \in [Calls -> CallOf]
    /\ IsFiniteSet(Begun)
    /\ \A c \in Calls : CallOK(c)

(* A record is never lost and never another grant; a document's grants are named *)
(* apart from the records: what is stated for a name is stated for good.         *)
LEMMA StatedForGood ==
    ASSUME StoreTypeOK, [Next]_vars
    PROVE  /\ Existing \subseteq Existing'
           /\ \A i \in GrantIds \cup Existing : StatedBy(i)' = StatedBy(i)
<1>1. delegations \in Seq(Records) /\ Len(delegations) \in Nat
  BY DEF StoreTypeOK
<1>2. \/ delegations' = delegations
      \/ plan \in Records /\ delegations' = Append(delegations, plan)
      \/ \E d \in Existing : delegations' = [delegations EXCEPT ![d].revoked = TRUE]
  BY DEF Next, vars, StoreTypeOK, PlanDelegation, PlanBreakGlass, PutDelegation, PlanIsLost,
         Revoke, Decide, Reserve, Suspend, Resume, Deploy, Tick
<1>3. /\ Len(delegations) <= Len(delegations') /\ Len(delegations') \in Nat
      /\ \A i \in 1..Len(delegations) : delegations'[i].grant = delegations[i].grant
  <2>1. CASE plan \in Records /\ delegations' = Append(delegations, plan)
    BY <1>1, <2>1
  <2>2. ASSUME NEW d \in Existing, delegations' = [delegations EXCEPT ![d].revoked = TRUE]
        PROVE  <1>3!1 /\ <1>3!2
    BY <1>1, <2>2 DEF Existing, Records, Delegated, Opened
  <2> QED
    BY <1>1, <1>2, <2>1, <2>2
<1>4. Existing \subseteq Existing'
  BY <1>1, <1>3 DEF Existing
<1>5. \A i \in Existing : GrantOf(i)' = GrantOf(i)
  BY <1>3, <1>4 DEF GrantOf, Existing
<1>6. \A i \in GrantIds : i \notin Existing /\ i \notin Existing'
  BY <1>1, <1>3, OffersAreGrants DEF Existing
<1> QED
  BY <1>4, <1>5, <1>6 DEF StatedBy

LEMMA StatedIsBudget ==
    ASSUME StoreTypeOK, NEW i \in GrantIds \cup Existing, NEW b \in StatedBy(i)
    PROVE  b.limit \in Nat /\ b.window \in Nat
<1>1. CASE i \in Existing
  BY <1>1, DocumentIs DEF StatedBy, GrantOf, Grants, Budgets
<1>2. CASE i \notin Existing
  <2>1. doc \in Documents /\ i \in Declared /\ b \in doc.grants[i].budgets
    BY <1>2 DEF StatedBy, StoreTypeOK, Declared
  <2> QED
    BY <2>1, DocumentIs DEF Grants, Budgets
<1> QED
  BY <1>1, <1>2

(* What a call that is permitted is given (_charges_for). *)
LEMMA PassingIs ==
    ASSUME StoreTypeOK, NEW r \in Requests, NEW i \in Passing(r, r.hop, TRUE)
    PROVE  /\ i \in Declared \cup Existing /\ (r.hop # NoHop => i = r.hop)
           /\ i \in Existing => ChainValid(i, now)
           /\ Reaches(GrantOf(i), r, TRUE) /\ ~Expired(GrantOf(i), now)
  BY DEF Passing, Candidates, Covers

LEMMA GivenIs ==
    ASSUME StoreTypeOK, NEW i \in Declared \cup Existing, i \in Existing => ChainValid(i, now),
           NEW chain, chain = IF i \in Existing THEN Chain(i) ELSE {i}
    PROVE  /\ chain \subseteq GrantIds \cup EnvelopeIds \cup Existing
           /\ \A a \in chain : GrantOf(a) \in Grants
           /\ ChargesFor(i) \subseteq Charges
           /\ \A a \in chain \cap (GrantIds \cup Existing) : \A b \in StatedBy(a) :
                 [grant |-> a, limit |-> b.limit, window |-> b.window] \in ChargesFor(i)
<1>1. chain \subseteq Declared \cup Enveloped \cup Existing
  <2>1. CASE i \in Existing
    BY <2>1, DocumentIs, NodesStay DEF ChainValid, Rooted, Chain
  <2>2. CASE i \notin Existing
    BY <2>2
  <2> QED
    BY <2>1, <2>2
<1>2. \A a \in chain : GrantOf(a) \in Grants
  BY <1>1, DocumentIs DEF GrantOf
<1>3. ChargesFor(i) = UNION {{[grant |-> a, limit |-> b.limit, window |-> b.window]
                                : b \in GrantOf(a).budgets} : a \in chain}
  BY DEF ChargesFor
<1>4. chain \subseteq Names
  <2>1. Existing \subseteq DelegationIds
    BY OffersAreGrants DEF Existing, DelegationIds, StoreTypeOK
  <2> QED
    BY <1>1, <2>1, DocumentIs DEF Names
<1>5. ASSUME NEW ch \in ChargesFor(i) PROVE ch \in Charges
  <2>1. PICK a \in chain : ch \in {[grant |-> a, limit |-> b.limit, window |-> b.window]
                                    : b \in GrantOf(a).budgets}
    BY <1>3
  <2>2. PICK b \in GrantOf(a).budgets : ch = [grant |-> a, limit |-> b.limit, window |-> b.window]
    BY <2>1
  <2>3. b \in Budgets
    BY <1>2 DEF Grants
  <2> QED
    BY <1>4, <2>2, <2>3 DEF Charges, Budgets
<1>6. ASSUME NEW a \in chain \cap (GrantIds \cup Existing), NEW b \in StatedBy(a)
      PROVE  [grant |-> a, limit |-> b.limit, window |-> b.window] \in ChargesFor(i)
  <2>1. b \in GrantOf(a).budgets
    <3>1. CASE a \in Existing
      BY <3>1 DEF StatedBy
    <3>2. CASE a \notin Existing
      BY <3>2 DEF StatedBy, StoreTypeOK, GrantOf, Declared
    <3> QED
      BY <3>1, <3>2
  <2> QED
    BY <1>3, <2>1
<1> QED
  BY <1>1, <1>2, <1>5, <1>6, DocumentIs

(* A step that moves one call keeps what the others carry. *)
LEMMA OneCallMoves ==
    ASSUME CallsOK, StoreTypeOK', NEW c \in Calls, NEW x \in CallOf,
           calls' = [calls EXCEPT ![c] = x], UNCHANGED <<doc, delegations, now>>,
           x.at <= now, x.chain \subseteq GrantIds \cup EnvelopeIds \cup Existing,
           x.pc \in {"idle", "decided", "suspended"} => x.strayed = 0,
           \A i \in x.chain \cap (GrantIds \cup Existing) : \A b \in StatedBy(i) :
              [grant |-> i, limit |-> b.limit, window |-> b.window] \in x.charges
    PROVE  CallsOK'
<1>1. calls' \in [Calls -> CallOf] /\ calls'[c] = x
      /\ \A k \in Calls : k # c => calls'[k] = calls[k]
  BY DEF CallsOK
<1>2. IsFiniteSet(Begun')
  <2>1. IsFiniteSet(Begun \cup {c})
    BY FS_AddElement DEF CallsOK
  <2>2. Begun' \subseteq Begun \cup {c}
    BY <1>1 DEF Begun, At
  <2> QED
    BY <2>1, <2>2, FS_Subset
<1>3. Existing' = Existing /\ \A i : StatedBy(i)' = StatedBy(i)
  BY DEF Existing, StatedBy, GrantOf, Declared
<1>4. CallOK(c)'
  BY <1>1, <1>3 DEF CallOK, Priced
<1>5. ASSUME NEW k \in Calls, k # c PROVE CallOK(k)'
  <2>1. CallOK(k) /\ calls'[k] = calls[k]
    BY <1>1, <1>5 DEF CallsOK
  <2> QED
    BY <1>3, <2>1 DEF CallOK, Priced
<1> QED
  BY <1>1, <1>2, <1>4, <1>5 DEF CallsOK

LEMMA CallsStep == CallsOK /\ [Next]_vars => CallsOK'
<1> SUFFICES ASSUME CallsOK, [Next]_vars PROVE CallsOK'
  OBVIOUS
<1>t. /\ StoreTypeOK /\ StoreTypeOK' /\ calls \in [Calls -> CallOf]
      /\ now \in Nat /\ now' \in Nat /\ now \in Times
  BY StoreTypeStep, OffersAreGrants DEF CallsOK, StoreTypeOK, Times
<1>1. ASSUME UNCHANGED calls, now <= now' PROVE CallsOK'
  <2>1. Begun' = Begun
    BY <1>1 DEF Begun, At
  <2>2. ASSUME NEW c \in Calls PROVE CallOK(c)'
    <3>1. CallOK(c) /\ calls'[c] = calls[c] /\ calls[c].at \in Nat
      BY <1>1, <1>t, OffersAreGrants DEF CallsOK, CallOf, Times
    <3>2. calls'[c].at <= now'
      BY <1>1, <1>t, <3>1 DEF CallOK
    <3>3. \A i \in calls[c].chain \cap (GrantIds \cup Existing)' :
              i \in GrantIds \cup Existing /\ StatedBy(i)' = StatedBy(i)
      <4>1. EnvelopeIds \cap Existing' = {} /\ EnvelopeIds \cap GrantIds = {}
        BY <1>t, DocumentIs, OffersAreGrants DEF Existing, StoreTypeOK
      <4> QED
        BY <1>t, <3>1, <4>1, StatedForGood DEF CallOK
    <3>4. Priced(c)'
      BY <3>1, <3>3 DEF Priced, CallOK
    <3> QED
      BY <1>t, <3>1, <3>2, <3>4, StatedForGood DEF CallOK
  <2> QED
    BY <1>1, <1>t, <2>1, <2>2 DEF CallsOK
<1>2. ASSUME NEW c \in Calls, NEW r \in Asks, Decide(c, r) PROVE CallsOK'
  <2>0. calls[c] \in CallOf /\ CallOK(c) /\ r \in Requests
    BY <1>t, AuthorityConstants DEF CallsOK, AuthorityConstants
  <2>1. CASE calls' = [calls EXCEPT ![c].pc = "over"]
    <3> DEFINE x == [calls[c] EXCEPT !.pc = "over"]
    <3>1. x \in CallOf /\ calls' = [calls EXCEPT ![c] = x]
      BY <2>0, <2>1 DEF CallOf
    <3>2. /\ x.at = calls[c].at /\ x.chain = calls[c].chain /\ x.charges = calls[c].charges
          /\ x.pc = "over"
      BY <2>0 DEF CallOf
    <3> HIDE DEF x
    <3> QED
      BY <1>2, <1>t, <2>0, <3>1, <3>2, OneCallMoves DEF Decide, CallOK, Priced
  <2>2. ASSUME NEW i \in Passing(r, r.hop, TRUE),
               calls' = [calls EXCEPT ![c] =
                 [pc |-> "decided", request |-> r, leaf |-> i, charges |-> ChargesFor(i),
                  chain |-> IF i \in Existing THEN Chain(i) ELSE {i},
                  at |-> now, strayed |-> 0]]
        PROVE  CallsOK'
    <3>1. PICK chain : chain = IF i \in Existing THEN Chain(i) ELSE {i}
      OBVIOUS
    <3>2. i \in Declared \cup Existing /\ (i \in Existing => ChainValid(i, now))
      BY <1>t, <2>0, PassingIs
    <3>3. /\ chain \subseteq GrantIds \cup EnvelopeIds \cup Existing
          /\ ChargesFor(i) \subseteq Charges
          /\ \A a \in chain \cap (GrantIds \cup Existing) : \A b \in StatedBy(a) :
                [grant |-> a, limit |-> b.limit, window |-> b.window] \in ChargesFor(i)
      BY <1>t, <3>1, <3>2, GivenIs
    <3>4. PICK charges : charges = ChargesFor(i)
      OBVIOUS
    <3> DEFINE x == [pc |-> "decided", request |-> r, leaf |-> i, charges |-> charges,
                     chain |-> chain, at |-> now, strayed |-> 0]
    <3>5. x \in CallOf
      <4>1. Existing \subseteq DelegationIds /\ Declared \subseteq GrantIds
        BY <1>t, OffersAreGrants, DocumentIs DEF Existing, DelegationIds, StoreTypeOK
      <4>2. i \in Names /\ chain \in SUBSET Names /\ charges \in SUBSET Charges
        BY <3>2, <3>3, <3>4, <4>1 DEF Names
      <4> QED
        BY <1>t, <2>0, <4>2 DEF CallOf
    <3>6. calls' = [calls EXCEPT ![c] = x]
      BY <2>2, <3>1, <3>4
    <3>7. x.at = now /\ x.chain = chain /\ x.charges = charges /\ x.strayed = 0
      OBVIOUS
    <3>8. UNCHANGED <<doc, delegations, now>> /\ now <= now
      BY <1>2, <1>t DEF Decide
    <3>9. x.at <= now /\ x.chain \subseteq GrantIds \cup EnvelopeIds \cup Existing
      BY <3>3, <3>7, <3>8
    <3>10. \A a \in x.chain \cap (GrantIds \cup Existing) : \A b \in StatedBy(a) :
              [grant |-> a, limit |-> b.limit, window |-> b.window] \in x.charges
      BY <3>3, <3>4, <3>7
    <3> HIDE DEF x
    <3> QED
      BY <1>t, <3>5, <3>6, <3>7, <3>8, <3>9, <3>10, OneCallMoves
  <2> QED
    BY <1>2, <2>1, <2>2 DEF Decide
<1>3. ASSUME NEW c \in Calls, Reserve(c) PROVE CallsOK'
  <2>0. calls[c] \in CallOf /\ CallOK(c) /\ calls[c].pc = "decided" /\ calls[c].strayed = 0
    BY <1>3, <1>t DEF CallsOK, CallOK, Reserve, At
  <2>k. UNCHANGED <<doc, delegations, now>> /\ 0 <= now /\ now <= now
    BY <1>3, <1>t DEF Reserve
  <2>1. CASE Affordable(c)
    <3> DEFINE x == [calls[c] EXCEPT !.pc = "running", !.at = now, !.strayed = Strays(c)]
    <3>1. Strays(c) \in {0, 1}
      BY <2>0 DEF Strays
    <3>2. x \in CallOf /\ calls' = [calls EXCEPT ![c] = x]
      BY <1>3, <1>t, <2>0, <2>1, <3>1 DEF CallOf, Reserve
    <3>3. x.at = now /\ x.chain = calls[c].chain /\ x.charges = calls[c].charges /\ x.pc = "running"
      BY <2>0 DEF CallOf
    <3> HIDE DEF x
    <3> QED
      BY <1>t, <2>0, <2>k, <3>2, <3>3, OneCallMoves DEF CallOK, Priced
  <2>2. CASE ~Affordable(c)
    <3> DEFINE x == [IdleCall EXCEPT !.pc = "over"]
    <3>1. x \in CallOf
      BY OffersAreGrants DEF CallOf, IdleCall, Names, Times
    <3>2. calls' = [calls EXCEPT ![c] = x]
      BY <1>3, <2>2 DEF Reserve
    <3>3. x.at = 0 /\ x.chain = {} /\ x.pc = "over"
      BY DEF IdleCall
    <3>4. x.at <= now /\ x.pc \notin {"idle", "decided", "suspended"}
      BY <2>k, <3>3
    <3> HIDE DEF x
    <3> QED
      BY <1>t, <2>k, <3>1, <3>2, <3>3, <3>4, OneCallMoves
  <2> QED
    BY <2>1, <2>2
<1>4. ASSUME NEW c \in Calls, Suspend(c) PROVE CallsOK'
  <2>0. calls[c] \in CallOf /\ CallOK(c)
    BY <1>4, <1>t DEF CallsOK
  <2>1. CASE /\ MayHold(c)
             /\ calls' = [calls EXCEPT ![c].pc = "suspended",
                                       ![c].strayed = IF Covered(c) THEN 0 ELSE calls[c].strayed]
    <3> DEFINE x == [calls[c] EXCEPT !.pc = "suspended", !.strayed = 0]
    <3>1. Covered(c)
      BY <2>1 DEF MayHold, Covered
    <3>2. x \in CallOf /\ calls' = [calls EXCEPT ![c] = x]
      BY <1>t, <2>0, <2>1, <3>1 DEF CallOf
    <3>3. x.at = calls[c].at /\ x.chain = calls[c].chain /\ x.charges = calls[c].charges
          /\ x.strayed = 0
      BY <2>0 DEF CallOf
    <3> HIDE DEF x
    <3> QED
      BY <1>4, <1>t, <2>0, <3>2, <3>3, OneCallMoves DEF Suspend, CallOK, Priced
  <2>2. CASE calls' = [calls EXCEPT ![c].pc = "finished"]
    <3> DEFINE x == [calls[c] EXCEPT !.pc = "finished"]
    <3>1. x \in CallOf /\ calls' = [calls EXCEPT ![c] = x]
      BY <2>0, <2>2 DEF CallOf
    <3>2. /\ x.at = calls[c].at /\ x.chain = calls[c].chain /\ x.charges = calls[c].charges
          /\ x.pc = "finished"
      BY <2>0 DEF CallOf
    <3> HIDE DEF x
    <3> QED
      BY <1>4, <1>t, <2>0, <3>1, <3>2, OneCallMoves DEF Suspend, CallOK, Priced
  <2> QED
    BY <1>4, <2>1, <2>2 DEF Suspend
<1>5. ASSUME NEW c \in Calls, Resume(c) PROVE CallsOK'
  <2>0. calls[c] \in CallOf /\ CallOK(c) /\ calls[c].strayed = 0
    BY <1>5, <1>t DEF CallsOK, CallOK, Resume, At
  <2> DEFINE x == [calls[c] EXCEPT !.pc = "running", !.strayed = Strays(c)]
  <2>1. Strays(c) \in {0, 1}
    BY <2>0 DEF Strays
  <2>2. x \in CallOf /\ calls' = [calls EXCEPT ![c] = x]
    BY <1>5, <1>t, <2>0, <2>1 DEF CallOf, Resume
  <2>3. x.at = calls[c].at /\ x.chain = calls[c].chain /\ x.charges = calls[c].charges /\ x.pc = "running"
    BY <2>0 DEF CallOf
  <2> HIDE DEF x
  <2> QED
    BY <1>5, <1>t, <2>0, <2>2, <2>3, OneCallMoves DEF Resume, CallOK, Priced
<1>6. ASSUME \/ \E p \in Ids, g \in Offers, by \in Agents : PlanDelegation(p, g, by)
             \/ \E e \in EnvelopeIds, g \in Offers, by \in Openers : PlanBreakGlass(e, g, by)
             \/ PutDelegation \/ PlanIsLost \/ Tick \/ UNCHANGED vars
             \/ \E d \in DelegationIds : Revoke(d)
             \/ \E d \in Documents : Deploy(d)
      PROVE  CallsOK'
  <2>1. UNCHANGED calls
    BY <1>6 DEF PlanDelegation, PlanBreakGlass, PutDelegation, PlanIsLost, Tick, vars, Revoke, Deploy
  <2>2. now' = now \/ now' = now + 1
    BY <1>6 DEF PlanDelegation, PlanBreakGlass, PutDelegation, PlanIsLost, Tick, vars, Revoke, Deploy
  <2> QED
    BY <1>1, <1>t, <2>1, <2>2
<1> QED
  BY <1>2, <1>3, <1>4, <1>5, <1>6 DEF Next

LEMMA CallsInit == Init => CallsOK
<1> SUFFICES ASSUME Init PROVE CallsOK
  OBVIOUS
<1>1. StoreTypeOK
  BY OffersAreGrants DEF Init, StoreTypeOK, Existing, Times
<1>2. calls = [c \in Calls |-> IdleCall] /\ IdleCall \in CallOf
  BY OffersAreGrants DEF Init, CallOf, IdleCall, Names, Times
<1>3. Begun = {}
  BY <1>2 DEF Begun, At, IdleCall
<1>4. \A c \in Calls : CallOK(c)
  BY <1>2 DEF CallOK, Priced, IdleCall, Init
<1> QED
  BY <1>1, <1>2, <1>3, <1>4, FS_EmptySet DEF CallsOK

LEMMA CallsHold == Spec => []CallsOK
  BY CallsInit, CallsStep, PTL DEF Spec

-----------------------------------------------------------------------------
(* Only deciding permits a call, and it names a grant that passes. *)
LEMMA DecidedByPassing ==
    ASSUME CallsOK, [Next]_vars, NEW c \in Calls, Permits(c)
    PROVE  \E r \in Requests : /\ calls'[c].leaf \in Passing(r, r.hop, TRUE)
                              /\ calls'[c].request = r
<1>0. calls \in [Calls -> CallOf] /\ calls[c].pc = "idle" /\ calls'[c].pc = "decided"
  BY DEF CallsOK, Permits, At
<1>1. ASSUME NEW k \in Calls, NEW r \in Asks, Decide(k, r)
      PROVE  \E q \in Requests : /\ calls'[c].leaf \in Passing(q, q.hop, TRUE)
                                /\ calls'[c].request = q
  <2>1. r \in Requests
    BY AuthorityConstants DEF AuthorityConstants
  <2>2. calls' # [calls EXCEPT ![k].pc = "over"]
    BY <1>0 DEF CallOf
  <2>3. PICK i \in Passing(r, r.hop, TRUE) :
            calls' = [calls EXCEPT ![k] =
                 [pc |-> "decided", request |-> r, leaf |-> i, charges |-> ChargesFor(i),
                  chain |-> IF i \in Existing THEN Chain(i) ELSE {i},
                  at |-> now, strayed |-> 0]]
    BY <1>1, <2>2 DEF Decide
  <2>4. k = c
    BY <1>0, <2>3
  <2>5. calls'[c].leaf = i /\ calls'[c].request = r
    BY <1>0, <2>3, <2>4
  <2> QED
    BY <2>1, <2>5
<1>2. ASSUME NEW k \in Calls, Reserve(k) \/ Suspend(k) \/ Resume(k) PROVE FALSE
  <2>1. CASE Reserve(k)
    <3>1. calls'[k].pc # "decided" /\ \A j \in Calls : j # k => calls'[j] = calls[j]
      BY <1>0, <2>1 DEF Reserve, CallOf, IdleCall
    <3> QED
      BY <1>0, <3>1
  <2>2. CASE Suspend(k)
    <3>1. calls'[k].pc # "decided" /\ \A j \in Calls : j # k => calls'[j] = calls[j]
      BY <1>0, <2>2 DEF Suspend, CallOf
    <3> QED
      BY <1>0, <3>1
  <2>3. CASE Resume(k)
    <3>1. calls'[k].pc # "decided" /\ \A j \in Calls : j # k => calls'[j] = calls[j]
      BY <1>0, <2>3 DEF Resume, CallOf
    <3> QED
      BY <1>0, <3>1
  <2> QED
    BY <1>2, <2>1, <2>2, <2>3
<1>3. ASSUME UNCHANGED calls PROVE FALSE
  BY <1>0, <1>3
<1> QED
  BY <1>1, <1>2, <1>3 DEF Next, vars, PlanDelegation, PlanBreakGlass, PutDelegation, PlanIsLost,
                          Revoke, Deploy, Tick

(* WholeChainPermits: a call is permitted only by a chain of which every link, up *)
(* to the document in force, permits it and stands (_check_chain, _walk), however *)
(* deep the chain and whatever happened since its links were put.                 *)
THEOREM EveryLinkIsAsked == Spec => WholeChainPermits
<1>1. CallsOK /\ [Next]_vars =>
        [\A c \in Calls : Permits(c) =>
            LET i == calls'[c].leaf
                r == calls'[c].request
            IN (r.hop # NoHop => i = r.hop) /\ LinksPermit(i, r)]_vars
  <2> SUFFICES ASSUME CallsOK, [Next]_vars, NEW c \in Calls, Permits(c)
               PROVE  LET i == calls'[c].leaf
                          r == calls'[c].request
                      IN (r.hop # NoHop => i = r.hop) /\ LinksPermit(i, r)
    OBVIOUS
  <2>1. PICK r \in Requests : calls'[c].leaf \in Passing(r, r.hop, TRUE) /\ calls'[c].request = r
    BY DecidedByPassing
  <2>2. PICK i : i = calls'[c].leaf
    OBVIOUS
  <2>3. /\ i \in Declared \cup Existing /\ (r.hop # NoHop => i = r.hop)
        /\ Reaches(GrantOf(i), r, TRUE) /\ ~Expired(GrantOf(i), now)
        /\ Covers(i, r, TRUE, now)
    BY <2>1, <2>2, PassingIs DEF Passing, CallsOK
  <2>4. LinksPermit(i, r)
    BY <2>3, DeclaredPermits, DelegatedPermits DEF CallsOK
  <2> QED
    BY <2>1, <2>2, <2>3, <2>4
<1>2. CallsOK /\ [Next]_vars =>
        [\A c \in Calls : Permits(c) =>
          LET i == calls'[c].leaf
              r == calls'[c].request
          IN /\ r.hop # NoHop => i = r.hop
             /\ \E root \in Upward(i) : root \in Declared \cup Enveloped
             /\ Cardinality(Upward(i)) <= doc.depth + 1
             /\ \A a \in Upward(i) \ {i} : a \in Enveloped \/ GrantOf(a).delegable
             /\ \A a \in Upward(i) :
                   /\ r.act \in GrantOf(a).reach /\ r.task \in GrantOf(a).tasks
                   /\ ~Expired(GrantOf(a), now)
                   /\ a \in Existing => ~delegations[a].revoked
             /\ \A d \in Upward(i) \cap Existing : Above(d) \in Enveloped =>
                   /\ delegations[d].by \in Openers
                   /\ now <= delegations[d].created + doc.envelopes[Above(d)].ttl]_vars
  BY <1>1 DEF LinksPermit
<1> QED
  BY <1>2, CallsHold, PTL DEF Spec, WholeChainPermits

(* OneLegAfterTheCut: once nothing covers a call any more it begins at most one *)
(* leg (_suspend, resume), for any number of calls, grants and documents.       *)
THEOREM OneLegAtMost == Spec => []OneLegAfterTheCut
<1>1. CallsOK => OneLegAfterTheCut
  BY DEF CallsOK, CallOf, OneLegAfterTheCut
<1> QED
  BY <1>1, CallsHold, PTL

-----------------------------------------------------------------------------
(* Budgets.  At a moment, no window of a stated budget holds more spenders than *)
(* it may: that is the property, and it is inductive once a call is known to be *)
(* charged for whatever it stands beneath, and never later than now.            *)

Spent(c) == calls[c].pc \in {"running", "suspended", "finished"}
Beneath(i, b, t) ==
    {c \in Calls : /\ calls[c].pc \in {"running", "suspended", "finished"}
                   /\ i \in calls[c].chain
                   /\ t - b.window <= calls[c].at /\ calls[c].at <= t}

LEMMA SpendersAreFew ==
    ASSUME CallsOK, NEW S, S \subseteq {c \in Calls : Spent(c)}
    PROVE  IsFiniteSet(S) /\ Cardinality(S) \in Nat
<1>1. S \subseteq Begun
  BY DEF Begun, At, Spent
<1> QED
  BY <1>1, FS_Subset, FS_CardinalityType DEF CallsOK

(* Whoever is spent and stood beneath the grant then is spent and beneath it now. *)
LEMMA NobodyJoins ==
    ASSUME CallsOK, CallsOK', NobodyOverspends, [Next]_vars,
           NEW i \in GrantIds \cup Existing, NEW b \in StatedBy(i), NEW t \in Times,
           \A c \in Calls : c \in Beneath(i, b, t)' => c \in Beneath(i, b, t)
    PROVE  Cardinality(Beneath(i, b, t)') <= b.limit
<1>1. Beneath(i, b, t)' \subseteq Beneath(i, b, t)
  BY DEF Beneath
<1>2. IsFiniteSet(Beneath(i, b, t)) /\ Cardinality(Beneath(i, b, t)) \in Nat
  BY SpendersAreFew DEF Beneath, Spent
<1>3. /\ Cardinality(Beneath(i, b, t)') <= Cardinality(Beneath(i, b, t))
      /\ Cardinality(Beneath(i, b, t)') \in Nat
  BY <1>1, <1>2, FS_Subset, FS_CardinalityType
<1>4. Cardinality(Beneath(i, b, t)) <= b.limit
  BY DEF NobodyOverspends, Beneath
<1>5. b.limit \in Nat
  BY StatedIsBudget DEF CallsOK
<1> QED
  BY <1>2, <1>3, <1>4, <1>5

(* A reservation is made within every budget above it (_secure, _charges_for). *)
LEMMA ReservedWithin ==
    ASSUME CallsOK, CallsOK', NobodyOverspends, [Next]_vars, NEW c \in Calls, Reserve(c),
           NEW i \in GrantIds \cup Existing, NEW b \in StatedBy(i), NEW t \in Times
    PROVE  Cardinality(Beneath(i, b, t)') <= b.limit
<1>0. /\ calls \in [Calls -> CallOf] /\ now \in Nat /\ t \in Nat
      /\ calls[c].pc = "decided" /\ CallOK(c)
      /\ \A k \in Calls : calls[k].at \in Nat
      /\ b.limit \in Nat /\ b.window \in Nat
  <2>1. Times \subseteq Nat
    BY OffersAreGrants DEF Times
  <2> QED
    BY <2>1, StatedIsBudget DEF CallsOK, Reserve, At, CallOf, StoreTypeOK
<1>1. \A k \in Calls : k # c => calls'[k] = calls[k]
  BY <1>0 DEF Reserve
<1>2. CASE c \notin Beneath(i, b, t)'
  <2>1. \A k \in Calls : k \in Beneath(i, b, t)' => k \in Beneath(i, b, t)
    BY <1>1, <1>2 DEF Beneath
  <2> QED
    BY <2>1, NobodyJoins
<1>3. CASE c \in Beneath(i, b, t)'
  <2>1. calls'[c].pc \in {"running", "suspended", "finished"}
    BY <1>3 DEF Beneath
  <2>2. Affordable(c)
    BY <1>0, <2>1 DEF Reserve, IdleCall
  <2>3. calls'[c].at = now /\ calls'[c].chain = calls[c].chain
    BY <1>0, <2>2 DEF Reserve, CallOf
  <2>4. now <= t /\ i \in calls[c].chain
    BY <1>3, <2>3 DEF Beneath
  <2>5. Cardinality(Spenders(i, b.window)) + 1 <= b.limit
    <3>1. PICK ch \in calls[c].charges : ch = [grant |-> i, limit |-> b.limit, window |-> b.window]
      BY <1>0, <2>4 DEF CallOK, Priced
    <3>2. Cardinality(Spenders(ch.grant, ch.window)) + 1 <= ch.limit
      BY <2>2 DEF Affordable
    <3> QED
      BY <3>1, <3>2
  <2>6. ASSUME NEW k \in Beneath(i, b, t)', k # c PROVE k \in Spenders(i, b.window)
    <3>1. /\ k \in Calls /\ calls[k].pc \in {"running", "suspended", "finished"}
          /\ i \in calls[k].chain /\ t - b.window <= calls[k].at
      BY <1>1, <2>6 DEF Beneath
    <3>2. now - calls[k].at <= b.window
      BY <1>0, <2>4, <3>1
    <3>3. \E ch \in calls[k].charges : ch.grant = i
      <4>1. Priced(k)
        BY <3>1 DEF CallsOK, CallOK
      <4>2. [grant |-> i, limit |-> b.limit, window |-> b.window] \in calls[k].charges
        BY <3>1, <4>1 DEF Priced
      <4> QED
        BY <4>2
    <3> QED
      BY <3>1, <3>2, <3>3 DEF Spenders
  <2>7. IsFiniteSet(Spenders(i, b.window)) /\ Cardinality(Spenders(i, b.window)) \in Nat
    BY SpendersAreFew DEF Spenders, Spent
  <2>8. Beneath(i, b, t)' \subseteq Spenders(i, b.window) \cup {c}
    BY <2>6
  <2>9. /\ IsFiniteSet(Spenders(i, b.window) \cup {c})
        /\ Cardinality(Spenders(i, b.window) \cup {c}) <= Cardinality(Spenders(i, b.window)) + 1
        /\ Cardinality(Spenders(i, b.window) \cup {c}) \in Nat
    <3>1. PICK S : S = Spenders(i, b.window)
      OBVIOUS
    <3>2. IsFiniteSet(S) /\ Cardinality(S) \in Nat
      BY <2>7, <3>1
    <3>3. /\ IsFiniteSet(S \cup {c})
          /\ Cardinality(S \cup {c}) = IF c \in S THEN Cardinality(S) ELSE Cardinality(S) + 1
      BY <3>2, FS_AddElement
    <3>4. Cardinality(S \cup {c}) <= Cardinality(S) + 1 /\ Cardinality(S \cup {c}) \in Nat
      BY <3>2, <3>3
    <3> QED
      BY <3>1, <3>3, <3>4
  <2>10. /\ Cardinality(Beneath(i, b, t)') <= Cardinality(Spenders(i, b.window) \cup {c})
         /\ Cardinality(Beneath(i, b, t)') \in Nat
    BY <2>8, <2>9, FS_Subset, FS_CardinalityType
  <2> QED
    BY <1>0, <2>5, <2>7, <2>9, <2>10
<1> QED
  BY <1>2, <1>3

(* Only a reservation adds a spender; a new delegation has none beneath it yet. *)
LEMMA OverspendStep ==
    CallsOK /\ NobodyOverspends /\ [Next]_vars => NobodyOverspends'
<1> SUFFICES ASSUME CallsOK, NobodyOverspends, [Next]_vars PROVE NobodyOverspends'
  OBVIOUS
<1>0. CallsOK' /\ StoreTypeOK /\ calls \in [Calls -> CallOf]
  BY CallsStep DEF CallsOK
<1>1. ASSUME NEW i \in GrantIds \cup Existing, NEW b \in StatedBy(i), NEW t \in Times
      PROVE  Cardinality(Beneath(i, b, t)') <= b.limit
  <2>1. CASE \E c \in Calls : Reserve(c)
    BY <1>0, <2>1, ReservedWithin
  <2>2. ASSUME NEW c \in Calls, NEW x, x.pc \notin {"running", "suspended", "finished"},
               calls' = [calls EXCEPT ![c] = x]
        PROVE  Cardinality(Beneath(i, b, t)') <= b.limit
    <3>1. \A k \in Calls : k \in Beneath(i, b, t)' => k \in Beneath(i, b, t)
      BY <1>0, <2>2 DEF Beneath
    <3> QED
      BY <1>0, <3>1, NobodyJoins
  <2>3. ASSUME \A k \in Calls : /\ calls'[k].chain = calls[k].chain /\ calls'[k].at = calls[k].at
                                /\ Spent(k)' => Spent(k)
        PROVE  Cardinality(Beneath(i, b, t)') <= b.limit
    <3>1. \A k \in Calls : k \in Beneath(i, b, t)' => k \in Beneath(i, b, t)
      BY <2>3 DEF Beneath, Spent
    <3> QED
      BY <1>0, <3>1, NobodyJoins
  <2>4. ASSUME NEW c \in Calls, NEW r \in Asks, Decide(c, r)
        PROVE  Cardinality(Beneath(i, b, t)') <= b.limit
    <3>1. CASE calls' = [calls EXCEPT ![c].pc = "over"]
      <4>1. \A k \in Calls : /\ calls'[k].chain = calls[k].chain /\ calls'[k].at = calls[k].at
                             /\ Spent(k)' => Spent(k)
        BY <1>0, <3>1 DEF CallOf, Spent
      <4> QED
        BY <2>3, <4>1
    <3>2. CASE \E d \in Passing(r, r.hop, TRUE) :
                 calls' = [calls EXCEPT ![c] =
                 [pc |-> "decided", request |-> r, leaf |-> d, charges |-> ChargesFor(d),
                  chain |-> IF d \in Existing THEN Chain(d) ELSE {d},
                  at |-> now, strayed |-> 0]]
      BY <2>2, <3>2
    <3> QED
      BY <2>4, <3>1, <3>2 DEF Decide
  <2>5. ASSUME NEW c \in Calls, Suspend(c) \/ Resume(c)
        PROVE  Cardinality(Beneath(i, b, t)') <= b.limit
    <3>1. CASE Suspend(c)
      <4>1. \A k \in Calls : /\ calls'[k].chain = calls[k].chain /\ calls'[k].at = calls[k].at
                             /\ Spent(k)' => Spent(k)
        BY <1>0, <3>1 DEF CallOf, Spent, Suspend, At
      <4> QED
        BY <2>3, <4>1
    <3>2. CASE Resume(c)
      <4>1. \A k \in Calls : /\ calls'[k].chain = calls[k].chain /\ calls'[k].at = calls[k].at
                             /\ Spent(k)' => Spent(k)
        BY <1>0, <3>2 DEF CallOf, Spent, Resume, At
      <4> QED
        BY <2>3, <4>1
    <3> QED
      BY <2>5, <3>1, <3>2
  <2>6. CASE UNCHANGED calls
    BY <2>3, <2>6 DEF Spent
  <2> QED
    BY <2>1, <2>4, <2>5, <2>6
       DEF Next, vars, PlanDelegation, PlanBreakGlass, PutDelegation, PlanIsLost, Revoke, Deploy, Tick
<1>2. ASSUME NEW i \in (GrantIds \cup Existing)', NEW b \in StatedBy(i)', NEW t \in Times
      PROVE  Cardinality(Beneath(i, b, t)') <= b.limit
  <2>1. CASE i \in GrantIds \cup Existing
    BY <1>0, <1>1, <2>1, StatedForGood
  <2>2. CASE i \notin GrantIds \cup Existing
    <3>1. calls' = calls
      <4>1. Existing' # Existing
        BY <2>2
      <4> QED
        BY <4>1 DEF Next, vars, Existing, PlanDelegation, PlanBreakGlass, PutDelegation, PlanIsLost,
                    Revoke, Deploy, Tick, Decide, Reserve, Suspend, Resume
    <3>2. i \notin EnvelopeIds
      BY <1>0, <2>2, DocumentIs, OffersAreGrants DEF CallsOK, StoreTypeOK, Existing
    <3>3. Beneath(i, b, t)' = {}
      BY <2>2, <3>1, <3>2 DEF Beneath, CallsOK, CallOK
    <3>4. b.limit \in Nat
      <4>1. delegations' \in Seq(Records) /\ i \in 1..Len(delegations')
        BY <1>0, <2>2 DEF CallsOK, StoreTypeOK, Existing
      <4>2. delegations'[i].grant \in Grants
        BY <4>1 DEF Records, Delegated, Opened
      <4>3. b \in delegations'[i].grant.budgets
        BY <4>1 DEF StatedBy, GrantOf, Existing
      <4> QED
        BY <4>2, <4>3 DEF Grants, Budgets
    <3> QED
      BY <3>3, <3>4, FS_EmptySet
  <2> QED
    BY <2>1, <2>2
<1> QED
  BY <1>2 DEF NobodyOverspends, Beneath

(* NobodyOverspends: however a budget was split among delegations, its spenders *)
(* in any window are no more than it allows (_charges_for, _secure).            *)
THEOREM BudgetsAboveHold == Spec => []NobodyOverspends
<1>1. Init => NobodyOverspends
  <2> SUFFICES ASSUME Init, NEW i \in GrantIds \cup Existing, NEW b \in StatedBy(i), NEW t \in Times
               PROVE  Cardinality(Beneath(i, b, t)) <= b.limit
    BY DEF NobodyOverspends, Beneath
  <2>1. Beneath(i, b, t) = {}
    BY DEF Init, IdleCall, Beneath
  <2>2. b.limit \in Nat
    BY CallsInit, StatedIsBudget DEF CallsOK
  <2> QED
    BY <2>1, <2>2, FS_EmptySet
<1> QED
  BY <1>1, OverspendStep, CallsHold, PTL DEF Spec

-----------------------------------------------------------------------------
(* Who is turned away *)

Pcs == Resolved \cup {"key", "due", "mark", "fetch", "install", "again", "look", "polled",
                      "ask", "moved", "consume", "stale", "lookup"}

ThreadState == [pc : Pcs, cred : Credentials \cup {NoCredential}, since : Int, at : Int,
                stat : Int, doc : SUBSET (Credentials \cup Kids), then : {"stale", "lookup"}]

(* The shared fields have their shape. *)
Shared ==
    /\ setup \in Setups
    /\ issuer \in [Kids -> Int]
    /\ source \in [revoked : [Credentials -> Int], listed : SUBSET Credentials,
                   mtime : Int, up : BOOLEAN, downAt : Int]
    /\ cache \in [keys : SUBSET (Credentials \cup Kids), fetchedAt : Int]
    /\ feed \in [revoked : SUBSET Credentials, readAt : Int, mtime : Int, polledAt : Int]
    /\ clock \in Nat

(* A call that is being resolved has a credential. *)
Local(x) == x \in ThreadState /\ (x.pc \in Resolved \/ x.cred \in Credentials)

IdentityTypeOK ==
    Shared /\ threads \in [Threads -> ThreadState] /\ \A t \in Threads : Local(threads[t])

-----------------------------------------------------------------------------
(* The inductive invariant: `revoked` is the source's, `got` the feed's, x a thread *)

(* Everything revoked before the moment was read by the thread, or consumed. *)
AllBefore(moment, revoked, known) ==
    \A c \in Credentials : revoked[c] # NoTime /\ revoked[c] < moment => c \in known

(* A revocation is no younger than now, and is listed until it was consumed. *)
Listed ==
    \A c \in Credentials : source.revoked[c] # NoTime =>
        source.revoked[c] \in 0..clock /\ c \in source.listed \cup feed.revoked

(* A look at a source is no older than the timeout. *)
Prompt(x, today) ==
    /\ x.at = NoTime \/ (x.at \in 0..today /\ today - x.at <= Slowness)
    /\ x.pc \in {"polled", "ask", "moved", "consume"} => x.at # NoTime

(* What was revoked before the look began was read, or had been consumed. *)
Collected(x, revoked, got) ==
    x.pc \in {"moved", "consume"} => AllBefore(x.at, revoked, x.doc \cup got)

(* What was revoked before the date of the feed was consumed. *)
Dated ==
    /\ feed.readAt <= clock
    /\ feed.readAt # NoTime => AllBefore(feed.readAt - Slack, source.revoked, feed.revoked)

(* And so was, where the feed was found not to be stale, all but the youngest. *)
Seen(x, revoked, got, slack, today) ==
    /\ x.pc = "lookup" => x.then = "lookup"
    /\ x.then = "lookup" =>
           x.since <= today /\ AllBefore(x.since - MaxStaleness - slack, revoked, got)

Sound(x, revoked, got, slack, today) ==
    Local(x) /\ Prompt(x, today) /\ Collected(x, revoked, got)
             /\ Seen(x, revoked, got, slack, today)

IdentityInv ==
    /\ Shared /\ Listed /\ Dated /\ threads \in [Threads -> ThreadState]
    /\ \A t \in Threads : Sound(threads[t], source.revoked, feed.revoked, Slack, clock)

-----------------------------------------------------------------------------
LEMMA NoTimeType == NoTime \in Int
  BY DEF NoTime

LEMMA SlackType == Slack \in Nat
  BY IdentityConstants DEF Slack

(* A call that begins, and one that has ended, claim nothing. *)
LEMMA IdleIsSound ==
    ASSUME NEW x \in ThreadState, x.pc \in Resolved \cup {"key"},
           x.pc = "key" => x.cred \in Credentials, x.at = NoTime, x.then = "stale",
           NEW revoked, NEW got, NEW slack, NEW today
    PROVE  Sound(x, revoked, got, slack, today)
<1>1. x.pc \notin {"polled", "ask", "moved", "consume", "lookup"}
  BY DEF Resolved, Rejections
<1> QED
  BY <1>1 DEF Sound, Local, Prompt, Collected, Seen

LEMMA NewIsTyped == NewThread \in ThreadState
  BY DEF NewThread, ThreadState, Pcs, Resolved, NoTime

LEMMA EndedIsSound ==
    ASSUME NEW pc \in Resolved, NEW revoked, NEW got, NEW slack, NEW today
    PROVE  Sound([NewThread EXCEPT !.pc = pc], revoked, got, slack, today)
<1> DEFINE x == [NewThread EXCEPT !.pc = pc]
<1>1. x \in ThreadState
  BY NewIsTyped DEF ThreadState, Pcs
<1>2. x.pc = pc /\ x.at = NoTime /\ x.then = "stale"
  BY DEF NewThread, NoTime
<1>3. x.pc # "key"
  BY <1>2 DEF Resolved, Rejections
<1> QED
  BY <1>1, <1>2, <1>3, IdleIsSound

(* What a thread knows stays true as the feed learns more and as others are revoked. *)
LEMMA KnowledgeGrows ==
    ASSUME NEW x, NEW revoked, NEW more, NEW got, NEW later, NEW slack \in Nat,
           NEW today \in Nat, Sound(x, revoked, got, slack, today),
           revoked \in [Credentials -> Int], more \in [Credentials -> Int],
           \A c \in Credentials : more[c] = revoked[c] \/ more[c] = today,
           got \subseteq later
    PROVE  Sound(x, more, later, slack, today)
  BY IdentityConstants
  DEF Sound, Local, Prompt, Collected, Seen, ThreadState, AllBefore, NoTime

(* One thread moves on, whatever it wrote, and the others stay sound. *)
LEMMA ThreadMoves ==
    ASSUME IdentityInv, NEW t \in Threads,
           Sound(threads'[t], source.revoked, feed'.revoked, Slack, clock),
           \E x : threads' = [threads EXCEPT ![t] = x],
           Shared', Listed', Dated', feed.revoked \subseteq feed'.revoked,
           UNCHANGED <<setup, source, clock>>
    PROVE  IdentityInv'
<1>1. PICK x : threads' = [threads EXCEPT ![t] = x]
  OBVIOUS
<1>2. threads'[t] = x /\ x \in ThreadState
  BY <1>1 DEF IdentityInv, Sound, Local
<1>3. threads' \in [Threads -> ThreadState]
  BY <1>1, <1>2 DEF IdentityInv
<1>4. \A u \in Threads \ {t} : threads'[u] = threads[u]
  BY <1>1 DEF IdentityInv
<1>5. source.revoked \in [Credentials -> Int] /\ clock \in Nat
  BY DEF IdentityInv, Shared
<1>6. ASSUME NEW u \in Threads
      PROVE  Sound(threads'[u], source.revoked, feed'.revoked, Slack, clock)
  <2>1. PICK y : y = threads[u] /\ Sound(y, source.revoked, feed.revoked, Slack, clock)
    BY DEF IdentityInv
  <2>2. Sound(y, source.revoked, feed'.revoked, Slack, clock)
    BY <1>5, <2>1, SlackType, KnowledgeGrows
  <2> QED
    BY <1>4, <2>1, <2>2
<1>7. Slack' = Slack
  BY DEF Slack
<1> QED
  BY <1>3, <1>6, <1>7 DEF IdentityInv

LEMMA OnlyThreadMoves ==
    ASSUME IdentityInv, NEW t \in Threads,
           Sound(threads'[t], source.revoked, feed.revoked, Slack, clock),
           \E x : threads' = [threads EXCEPT ![t] = x],
           cache' \in [keys : SUBSET (Credentials \cup Kids), fetchedAt : Int],
           UNCHANGED <<setup, issuer, source, feed, clock>>
    PROVE  IdentityInv'
<1>1. Shared' /\ Listed' /\ Dated'
  BY DEF IdentityInv, Shared, Listed, Dated, Slack
<1> QED
  BY <1>1, ThreadMoves

(* The turn of a thread, with and without the look at a source behind it. *)
LEMMA TurnIsSound ==
    ASSUME IdentityInv, NEW t \in Threads, NEW pc \in Pcs, Turn(t, pc),
           pc \notin Resolved =>
               Sound([threads[t] EXCEPT !.pc = pc], source.revoked, feed.revoked, Slack, clock)
    PROVE  /\ Sound(threads'[t], source.revoked, feed.revoked, Slack, clock)
           /\ \E x : threads' = [threads EXCEPT ![t] = x]
<1>1. threads' = [threads EXCEPT ![t] = After(t, pc)] /\ threads'[t] = After(t, pc)
  BY DEF Turn, IdentityInv
<1>2. \E x : threads' = [threads EXCEPT ![t] = x]
  BY <1>1
<1>3. CASE pc \in Resolved
  <2>1. Sound([NewThread EXCEPT !.pc = pc], source.revoked, feed.revoked, Slack, clock)
    BY <1>3, EndedIsSound
  <2> QED
    BY <1>1, <1>2, <1>3, <2>1 DEF After
<1>4. CASE pc \notin Resolved
  BY <1>1, <1>2, <1>4 DEF After
<1> QED
  BY <1>3, <1>4

LEMMA LeaveIsSound ==
    ASSUME IdentityInv, NEW t \in Threads, NEW pc \in Resolved \cup {"stale", "lookup", "look"},
           Leave(t, pc), pc \notin Resolved => threads[t].cred \in Credentials,
           pc = "lookup" => threads[t].then = "lookup"
    PROVE  /\ Sound(threads'[t], source.revoked, feed.revoked, Slack, clock)
           /\ \E x : threads' = [threads EXCEPT ![t] = x]
<1>1. PICK x : /\ x = [After(t, pc) EXCEPT !.at = NoTime, !.stat = NoTime, !.doc = {}]
               /\ threads' = [threads EXCEPT ![t] = x] /\ threads'[t] = x
  BY DEF Leave, IdentityInv
<1>2. pc \in Pcs
  BY DEF Pcs
<1>3. CASE pc \in Resolved
  <2>1. PICK n : n = [NewThread EXCEPT !.pc = pc]
    OBVIOUS
  <2>2. n \in ThreadState /\ n.pc = pc /\ n.then = "stale"
    BY <1>2, <2>1, NewIsTyped DEF ThreadState, NewThread, NoTime
  <2>3. x = [n EXCEPT !.at = NoTime, !.stat = NoTime, !.doc = {}]
    BY <1>1, <1>3, <2>1 DEF After
  <2>4. x \in ThreadState /\ x.pc = pc /\ x.at = NoTime /\ x.then = "stale"
    BY <2>2, <2>3, NoTimeType DEF ThreadState
  <2>5. x.pc # "key"
    BY <1>3, <2>4 DEF Resolved, Rejections
  <2> QED
    BY <1>1, <1>3, <2>4, <2>5, IdleIsSound
<1>4. CASE pc \notin Resolved
  <2>1. /\ threads[t] \in ThreadState
        /\ Seen(threads[t], source.revoked, feed.revoked, Slack, clock)
    BY DEF IdentityInv, Sound, Local
  <2>2. PICK n : n = [threads[t] EXCEPT !.pc = pc]
    OBVIOUS
  <2>3. /\ n \in ThreadState /\ n.pc = pc /\ n.then = threads[t].then
        /\ n.since = threads[t].since /\ n.cred = threads[t].cred
    BY <1>2, <2>1, <2>2 DEF ThreadState
  <2>4. x = [n EXCEPT !.at = NoTime, !.stat = NoTime, !.doc = {}]
    BY <1>1, <1>4, <2>2 DEF After
  <2>5. /\ x \in ThreadState /\ x.pc = pc /\ x.at = NoTime /\ x.then = threads[t].then
        /\ x.since = threads[t].since /\ x.cred \in Credentials
    BY <1>4, <2>3, <2>4, NoTimeType DEF ThreadState
  <2>6. Local(x) /\ Prompt(x, clock) /\ Collected(x, source.revoked, feed.revoked)
        /\ Seen(x, source.revoked, feed.revoked, Slack, clock)
    BY <1>4, <2>1, <2>5 DEF Local, Prompt, Collected, Seen
  <2> QED
    BY <1>1, <2>6 DEF Sound
<1> QED
  BY <1>3, <1>4

(* A thread that goes on remembers when it asked, and why. *)
LEMMA OnwardIsSound ==
    ASSUME NEW x, NEW y \in ThreadState, NEW revoked, NEW got, NEW slack, NEW today,
           Sound(x, revoked, got, slack, today), Prompt(y, today), Collected(y, revoked, got),
           y.cred \in Credentials, y.then = x.then, y.since = x.since,
           y.pc = "lookup" => x.then = "lookup"
    PROVE  Sound(y, revoked, got, slack, today)
  BY DEF Sound, Local, Seen

LEMMA TurnBetween ==
    ASSUME NEW x, NEW revoked, NEW got, NEW slack, NEW today, Sound(x, revoked, got, slack, today),
           x.cred \in Credentials,
           NEW pc \in {"due", "mark", "fetch", "install", "again", "look", "stale"}
    PROVE  Sound([x EXCEPT !.pc = pc], revoked, got, slack, today)
<1>1. pc \in Pcs
  BY DEF Pcs
<1>2. PICK y : y = [x EXCEPT !.pc = pc]
  OBVIOUS
<1>3. /\ y \in ThreadState /\ y.pc = pc /\ y.cred = x.cred /\ y.at = x.at /\ y.then = x.then
      /\ y.since = x.since
  BY <1>1, <1>2 DEF Sound, Local, ThreadState
<1>4. Prompt(y, today) /\ Collected(y, revoked, got) /\ y.pc # "lookup"
  BY <1>3 DEF Sound, Prompt, Collected
<1> QED
  BY <1>2, <1>3, <1>4, OnwardIsSound

(* What the invariant says of a thread that is on its way. *)
LEMMA OnItsWay ==
    ASSUME IdentityInv, NEW t \in Threads, threads[t].pc \notin Resolved
    PROVE  /\ threads[t] \in ThreadState /\ threads[t].cred \in Credentials
           /\ Sound(threads[t], source.revoked, feed.revoked, Slack, clock)
           /\ cache \in [keys : SUBSET (Credentials \cup Kids), fetchedAt : Int]
           /\ clock \in Nat
  BY DEF IdentityInv, Shared, Sound, Local

LEMMA Now ==
    ASSUME IdentityInv
    PROVE  clock \in Int /\ clock \in 0..clock /\ clock - clock <= Slowness /\ clock # NoTime
  BY IdentityConstants DEF IdentityInv, Shared, NoTime

-----------------------------------------------------------------------------
(* One lemma per step of resolve *)

LEMMA PresentKeeps ==
    ASSUME IdentityInv, NEW t \in Threads, NEW c \in Credentials, Present(t, c)
    PROVE  IdentityInv'
<1>1. PICK y : /\ y = [NewThread EXCEPT !.pc = "key", !.cred = c, !.since = clock]
               /\ threads' = [threads EXCEPT ![t] = y] /\ threads'[t] = y
  BY DEF Present, IdentityInv
<1>2. "key" \in Pcs
  BY DEF Pcs
<1>3. y \in ThreadState
  BY <1>1, <1>2, NewIsTyped, Now DEF ThreadState
<1>4. y.pc = "key" /\ y.cred = c /\ y.at = NoTime /\ y.then = "stale"
  BY <1>1 DEF NewThread, NoTime
<1>5. Sound(y, source.revoked, feed.revoked, Slack, clock)
  BY <1>3, <1>4, IdleIsSound
<1> QED
  BY <1>1, <1>5, OnlyThreadMoves DEF Present, IdentityInv, Shared

LEMMA FindKeyKeeps == ASSUME IdentityInv, NEW t \in Threads, FindKey(t) PROVE IdentityInv'
<1>1. threads[t].pc \notin Resolved
  BY DEF FindKey, In, Resolved, Rejections
<1>2. PICK pc \in {"admitted", "look", "due"} : Turn(t, pc)
  BY DEF FindKey, Verified
<1>3. pc \in Pcs /\ (pc \notin Resolved => pc \in {"look", "due"})
  BY DEF Pcs, Resolved
<1>4. pc \notin Resolved =>
          Sound([threads[t] EXCEPT !.pc = pc], source.revoked, feed.revoked, Slack, clock)
  BY <1>1, <1>3, OnItsWay, TurnBetween
<1> QED
  BY <1>1, <1>2, <1>3, <1>4, TurnIsSound, OnItsWay, OnlyThreadMoves DEF FindKey

LEMMA DueFetchKeeps == ASSUME IdentityInv, NEW t \in Threads, DueFetch(t) PROVE IdentityInv'
<1>1. threads[t].pc \notin Resolved
  BY DEF DueFetch, In, Resolved, Rejections
<1>2. PICK pc \in {"again", "mark"} : threads' = [threads EXCEPT ![t].pc = pc, ![t].at = clock]
  BY DEF DueFetch
<1>3. \E x : threads' = [threads EXCEPT ![t] = x]
  BY DEF IdentityInv, DueFetch
<1>4. PICK x : /\ x = threads[t] /\ x \in ThreadState /\ x.cred \in Credentials
               /\ Sound(x, source.revoked, feed.revoked, Slack, clock)
  BY <1>1, OnItsWay
<1>5. PICK y : y = threads'[t] /\ y = [x EXCEPT !.pc = pc, !.at = clock]
  BY <1>2, <1>4 DEF IdentityInv
<1>6. /\ y \in ThreadState /\ y.pc = pc /\ y.cred = x.cred /\ y.at = clock
      /\ y.then = x.then /\ y.since = x.since
  <2>1. pc \in Pcs
    BY DEF Pcs
  <2> QED
    BY <1>4, <1>5, <2>1, Now DEF ThreadState
<1>7. Prompt(y, clock) /\ Collected(y, source.revoked, feed.revoked) /\ y.pc # "lookup"
  BY <1>6, Now DEF Prompt, Collected
<1>8. Sound(y, source.revoked, feed.revoked, Slack, clock)
  BY <1>4, <1>6, <1>7, OnwardIsSound
<1> QED
  BY <1>1, <1>3, <1>5, <1>8, OnItsWay, OnlyThreadMoves DEF DueFetch

LEMMA MarkFetchedKeeps ==
    ASSUME IdentityInv, NEW t \in Threads, MarkFetched(t) PROVE IdentityInv'
<1>1. threads[t].pc \notin Resolved
  BY DEF MarkFetched, In, Resolved, Rejections
<1>2. Sound([threads[t] EXCEPT !.pc = "fetch"], source.revoked, feed.revoked, Slack, clock)
  BY <1>1, OnItsWay, TurnBetween
<1>3. cache' \in [keys : SUBSET (Credentials \cup Kids), fetchedAt : Int]
  BY <1>1, OnItsWay DEF MarkFetched, ThreadState
<1>4. "fetch" \in Pcs
  BY DEF Pcs
<1> QED
  BY <1>2, <1>3, <1>4, TurnIsSound, OnlyThreadMoves DEF MarkFetched

LEMMA FetchKeeps == ASSUME IdentityInv, NEW t \in Threads, Fetch(t) PROVE IdentityInv'
<1>1. threads[t].pc \notin Resolved
  BY DEF Fetch, In, Resolved, Rejections
<1>2. CASE Leave(t, "unknown")
  <2>1. "unknown" \in Resolved
    BY DEF Resolved, Rejections
  <2> QED
    BY <1>1, <1>2, <2>1, LeaveIsSound, OnItsWay, OnlyThreadMoves DEF Fetch
<1>3. CASE ~Leave(t, "unknown")
  <2>1. PICK d \in SUBSET Kids :
            threads' = [threads EXCEPT ![t].pc = "install", ![t].doc = d]
    BY <1>3 DEF Fetch
  <2>2. \E x : threads' = [threads EXCEPT ![t] = x]
    BY <2>1 DEF IdentityInv
  <2>3. PICK x : /\ x = threads[t] /\ x \in ThreadState /\ x.cred \in Credentials
                 /\ Sound(x, source.revoked, feed.revoked, Slack, clock)
    BY <1>1, OnItsWay
  <2>4. PICK y : y = threads'[t] /\ y = [x EXCEPT !.pc = "install", !.doc = d]
    BY <2>1, <2>3 DEF IdentityInv
  <2>5. /\ y \in ThreadState /\ y.pc = "install" /\ y.cred = x.cred /\ y.at = x.at
        /\ y.then = x.then /\ y.since = x.since
    <3>1. "install" \in Pcs
      BY DEF Pcs
    <3> QED
      BY <2>1, <2>3, <2>4, <3>1 DEF ThreadState
  <2>6. Prompt(y, clock) /\ Collected(y, source.revoked, feed.revoked)
    BY <2>3, <2>5 DEF Prompt, Collected, Sound
  <2>7. Sound(y, source.revoked, feed.revoked, Slack, clock)
    BY <2>3, <2>5, <2>6, OnwardIsSound
  <2> QED
    BY <1>1, <2>2, <2>4, <2>7, OnItsWay, OnlyThreadMoves DEF Fetch
<1> QED
  BY <1>2, <1>3

LEMMA InstallKeeps == ASSUME IdentityInv, NEW t \in Threads, Install(t) PROVE IdentityInv'
<1>1. threads[t].pc \notin Resolved
  BY DEF Install, In, Resolved, Rejections
<1>2. Sound([threads[t] EXCEPT !.pc = "again"], source.revoked, feed.revoked, Slack, clock)
  BY <1>1, OnItsWay, TurnBetween
<1>3. cache' \in [keys : SUBSET (Credentials \cup Kids), fetchedAt : Int]
  BY <1>1, OnItsWay DEF Install, ThreadState
<1>4. "again" \in Pcs
  BY DEF Pcs
<1> QED
  BY <1>2, <1>3, <1>4, TurnIsSound, OnlyThreadMoves DEF Install

LEMMA FindAgainKeeps == ASSUME IdentityInv, NEW t \in Threads, FindAgain(t) PROVE IdentityInv'
<1>1. threads[t].pc \notin Resolved
  BY DEF FindAgain, In, Resolved, Rejections
<1>2. PICK pc \in {"admitted", "look", "unknown"} : Leave(t, pc)
  BY DEF FindAgain, Verified
<1>3. pc \in Resolved \cup {"look"}
  BY DEF Resolved, Rejections
<1> QED
  BY <1>1, <1>2, <1>3, LeaveIsSound, OnItsWay, OnlyThreadMoves DEF FindAgain

(* A refresh that is over goes on with what it was called for. *)
LEMMA LeaveForThen ==
    ASSUME IdentityInv, NEW t \in Threads, threads[t].pc \notin Resolved,
           Leave(t, threads[t].then), UNCHANGED <<setup, issuer, source, cache, feed, clock>>
    PROVE  IdentityInv'
<1>1. threads[t].then \in {"stale", "lookup"}
  BY OnItsWay DEF ThreadState
<1>2. threads[t].then \in Resolved \cup {"stale", "lookup", "look"}
  BY <1>1
<1> QED
  BY <1>2, LeaveIsSound, OnItsWay, OnlyThreadMoves

(* A look that begins is dated by the clock. *)
LEMMA LookBegins ==
    ASSUME IdentityInv, NEW t \in Threads, threads[t].pc \notin Resolved,
           NEW y \in ThreadState, y.pc \in {"polled", "ask"}, y.at = clock,
           y.cred = threads[t].cred, y.then = threads[t].then, y.since = threads[t].since,
           y = threads'[t], \E x : threads' = [threads EXCEPT ![t] = x],
           UNCHANGED <<setup, issuer, source, cache, feed, clock>>
    PROVE  IdentityInv'
<1>1. PICK x : /\ x = threads[t] /\ x \in ThreadState /\ x.cred \in Credentials
               /\ Sound(x, source.revoked, feed.revoked, Slack, clock)
  BY OnItsWay
<1>2. Prompt(y, clock) /\ Collected(y, source.revoked, feed.revoked) /\ y.pc # "lookup"
  BY Now DEF Prompt, Collected
<1>3. Sound(y, source.revoked, feed.revoked, Slack, clock)
  BY <1>1, <1>2, OnwardIsSound
<1> QED
  BY <1>3, OnItsWay, OnlyThreadMoves

LEMMA LookAtIntervalKeeps ==
    ASSUME IdentityInv, NEW t \in Threads, LookAtInterval(t) PROVE IdentityInv'
<1>1. threads[t].pc \notin Resolved
  BY DEF LookAtInterval, In, Resolved, Rejections
<1>2. CASE Leave(t, threads[t].then)
  BY <1>1, <1>2, LeaveForThen DEF LookAtInterval
<1>3. CASE threads' = [threads EXCEPT ![t].pc = "polled", ![t].at = clock]
  <2>1. \E x : threads' = [threads EXCEPT ![t] = x]
    BY <1>3 DEF IdentityInv
  <2>2. PICK x : x = threads[t] /\ x \in ThreadState
    BY <1>1, OnItsWay
  <2>3. PICK y : y = threads'[t] /\ y = [x EXCEPT !.pc = "polled", !.at = clock]
    BY <1>3, <2>2 DEF IdentityInv
  <2>4. "polled" \in Pcs
    BY DEF Pcs
  <2>5. /\ y \in ThreadState /\ y.pc = "polled" /\ y.at = clock /\ y.cred = x.cred
        /\ y.then = x.then /\ y.since = x.since
    BY <2>2, <2>3, <2>4, Now DEF ThreadState
  <2> QED
    BY <1>1, <2>1, <2>2, <2>3, <2>5, LookBegins DEF LookAtInterval
<1> QED
  BY <1>2, <1>3 DEF LookAtInterval

LEMMA LookAtFileKeeps ==
    ASSUME IdentityInv, NEW t \in Threads, LookAtFile(t) PROVE IdentityInv'
<1>1. threads[t].pc \notin Resolved
  BY DEF LookAtFile, In, Resolved, Rejections
<1>2. CASE Leave(t, threads[t].then)
  BY <1>1, <1>2, LeaveForThen DEF LookAtFile
<1>3. CASE threads' = [threads EXCEPT ![t].pc = "ask", ![t].at = clock, ![t].stat = source.mtime]
  <2>1. \E x : threads' = [threads EXCEPT ![t] = x]
    BY <1>3 DEF IdentityInv
  <2>2. PICK x : x = threads[t] /\ x \in ThreadState
    BY <1>1, OnItsWay
  <2>3. PICK y : y = threads'[t] /\ y = [x EXCEPT !.pc = "ask", !.at = clock, !.stat = source.mtime]
    BY <1>3, <2>2 DEF IdentityInv
  <2>4. "ask" \in Pcs /\ source.mtime \in Int
    BY DEF Pcs, IdentityInv, Shared
  <2>5. /\ y \in ThreadState /\ y.pc = "ask" /\ y.at = clock /\ y.cred = x.cred
        /\ y.then = x.then /\ y.since = x.since
    BY <2>2, <2>3, <2>4, Now DEF ThreadState
  <2> QED
    BY <1>1, <2>1, <2>2, <2>3, <2>5, LookBegins DEF LookAtFile
<1> QED
  BY <1>2, <1>3 DEF LookAtFile

(* Writing _polled_at or _mtime leaves what the feed knows, and its date. *)
LEMMA FeedMarked ==
    ASSUME IdentityInv, feed' \in [revoked : SUBSET Credentials, readAt : Int, mtime : Int,
                                   polledAt : Int],
           feed'.revoked = feed.revoked, feed'.readAt = feed.readAt,
           UNCHANGED <<setup, issuer, source, cache, clock>>
    PROVE  Shared' /\ Listed' /\ Dated' /\ feed.revoked \subseteq feed'.revoked
  BY DEF IdentityInv, Shared, Listed, Dated, Slack

LEMMA MarkPolledKeeps ==
    ASSUME IdentityInv, NEW t \in Threads, MarkPolled(t) PROVE IdentityInv'
<1>1. threads[t].pc = "polled" /\ threads[t].pc \notin Resolved
  BY DEF MarkPolled, In, Resolved, Rejections
<1>2. PICK x : /\ x = threads[t] /\ x \in ThreadState /\ x.cred \in Credentials
               /\ Sound(x, source.revoked, feed.revoked, Slack, clock)
  BY <1>1, OnItsWay
<1>3. PICK y : y = [x EXCEPT !.pc = "ask"]
  OBVIOUS
<1>4. "ask" \in Pcs /\ "ask" \notin Resolved
  BY DEF Pcs, Resolved, Rejections
<1>5. /\ y \in ThreadState /\ y.pc = "ask" /\ y.cred = x.cred /\ y.at = x.at
      /\ y.then = x.then /\ y.since = x.since
  BY <1>2, <1>3, <1>4 DEF ThreadState
<1>6. Prompt(y, clock) /\ Collected(y, source.revoked, feed.revoked)
  BY <1>1, <1>2, <1>5 DEF Prompt, Collected, Sound
<1>7. Sound(y, source.revoked, feed.revoked, Slack, clock)
  BY <1>2, <1>5, <1>6, OnwardIsSound
<1>8. /\ Sound(threads'[t], source.revoked, feed.revoked, Slack, clock)
      /\ \E z : threads' = [threads EXCEPT ![t] = z]
  BY <1>2, <1>3, <1>4, <1>7, TurnIsSound DEF MarkPolled
<1>9. /\ feed' \in [revoked : SUBSET Credentials, readAt : Int, mtime : Int, polledAt : Int]
      /\ feed'.revoked = feed.revoked /\ feed'.readAt = feed.readAt
  BY <1>2 DEF MarkPolled, IdentityInv, Shared, ThreadState
<1>10. Shared' /\ Listed' /\ Dated' /\ feed.revoked \subseteq feed'.revoked
  BY <1>9, FeedMarked DEF MarkPolled
<1> QED
  BY <1>8, <1>9, <1>10, ThreadMoves DEF MarkPolled

LEMMA MarkMovedKeeps ==
    ASSUME IdentityInv, NEW t \in Threads, MarkMoved(t) PROVE IdentityInv'
<1>1. threads[t].pc = "moved" /\ threads[t].pc \notin Resolved
  BY DEF MarkMoved, In, Resolved, Rejections
<1>2. PICK x : /\ x = threads[t] /\ x \in ThreadState /\ x.cred \in Credentials
               /\ Sound(x, source.revoked, feed.revoked, Slack, clock)
  BY <1>1, OnItsWay
<1>3. PICK y : y = [x EXCEPT !.pc = "consume"]
  OBVIOUS
<1>4. "consume" \in Pcs /\ "consume" \notin Resolved
  BY DEF Pcs, Resolved, Rejections
<1>5. /\ y \in ThreadState /\ y.pc = "consume" /\ y.cred = x.cred /\ y.at = x.at
      /\ y.then = x.then /\ y.since = x.since /\ y.doc = x.doc
  BY <1>2, <1>3, <1>4 DEF ThreadState
<1>6. Prompt(y, clock) /\ Collected(y, source.revoked, feed.revoked)
  BY <1>1, <1>2, <1>5 DEF Prompt, Collected, Sound
<1>7. Sound(y, source.revoked, feed.revoked, Slack, clock)
  BY <1>2, <1>5, <1>6, OnwardIsSound
<1>8. /\ Sound(threads'[t], source.revoked, feed.revoked, Slack, clock)
      /\ \E z : threads' = [threads EXCEPT ![t] = z]
  BY <1>2, <1>3, <1>4, <1>7, TurnIsSound DEF MarkMoved
<1>9. /\ feed' \in [revoked : SUBSET Credentials, readAt : Int, mtime : Int, polledAt : Int]
      /\ feed'.revoked = feed.revoked /\ feed'.readAt = feed.readAt
  BY <1>2 DEF MarkMoved, IdentityInv, Shared, ThreadState
<1>10. Shared' /\ Listed' /\ Dated' /\ feed.revoked \subseteq feed'.revoked
  BY <1>9, FeedMarked DEF MarkMoved
<1> QED
  BY <1>8, <1>9, <1>10, ThreadMoves DEF MarkMoved

LEMMA AskKeeps == ASSUME IdentityInv, NEW t \in Threads, Ask(t) PROVE IdentityInv'
<1>1. threads[t].pc = "ask" /\ threads[t].pc \notin Resolved
  BY DEF Ask, In, Resolved, Rejections
<1>2. CASE Leave(t, threads[t].then)
  BY <1>1, <1>2, LeaveForThen DEF Ask
<1>3. CASE ~Leave(t, threads[t].then)
  <2>1. PICK pc \in {"moved", "consume"} :
            threads' = [threads EXCEPT ![t].pc = pc, ![t].doc = source.listed]
    BY <1>3 DEF Ask
  <2>2. \E x : threads' = [threads EXCEPT ![t] = x]
    BY <2>1 DEF IdentityInv
  <2>3. PICK x : /\ x = threads[t] /\ x \in ThreadState /\ x.cred \in Credentials
                 /\ Sound(x, source.revoked, feed.revoked, Slack, clock)
    BY <1>1, OnItsWay
  <2>4. PICK y : y = threads'[t] /\ y = [x EXCEPT !.pc = pc, !.doc = source.listed]
    BY <2>1, <2>3 DEF IdentityInv
  <2>5. pc \in Pcs /\ source.listed \in SUBSET Credentials
    BY DEF Pcs, IdentityInv, Shared
  <2>6. /\ y \in ThreadState /\ y.pc = pc /\ y.cred = x.cred /\ y.at = x.at
        /\ y.then = x.then /\ y.since = x.since /\ y.doc = source.listed
    BY <2>3, <2>4, <2>5 DEF ThreadState
  <2>7. AllBefore(x.at, source.revoked, source.listed \cup feed.revoked)
    BY DEF AllBefore, IdentityInv, Listed
  <2>8. Prompt(y, clock) /\ Collected(y, source.revoked, feed.revoked)
    BY <1>1, <2>3, <2>6, <2>7 DEF Prompt, Collected, Sound
  <2>9. Sound(y, source.revoked, feed.revoked, Slack, clock)
    BY <2>3, <2>6, <2>8, OnwardIsSound
  <2> QED
    BY <1>1, <2>2, <2>4, <2>9, OnItsWay, OnlyThreadMoves DEF Ask
<1> QED
  BY <1>2, <1>3

(* An event moves from what the thread carries to what the feed holds. *)
LEMMA ConsumeKeeps ==
    ASSUME IdentityInv, NEW t \in Threads, NEW c \in Credentials, Consume(t, c)
    PROVE  IdentityInv'
<1>1. threads[t].pc = "consume" /\ threads[t].pc \notin Resolved
  BY DEF Consume, In, Resolved, Rejections
<1>2. PICK x : /\ x = threads[t] /\ x \in ThreadState /\ x.cred \in Credentials
               /\ Sound(x, source.revoked, feed.revoked, Slack, clock)
  BY <1>1, OnItsWay
<1>3. \E z : threads' = [threads EXCEPT ![t] = z]
  BY DEF Consume, IdentityInv
<1>4. PICK y : y = threads'[t] /\ y = [x EXCEPT !.doc = x.doc \ {c}]
  BY <1>2 DEF Consume, IdentityInv
<1>5. /\ y \in ThreadState /\ y.pc = x.pc /\ y.cred = x.cred /\ y.at = x.at
      /\ y.then = x.then /\ y.since = x.since /\ y.doc = x.doc \ {c}
  BY <1>2, <1>4 DEF ThreadState
<1>6. /\ feed' \in [revoked : SUBSET Credentials, readAt : Int, mtime : Int, polledAt : Int]
      /\ feed'.revoked = feed.revoked \cup {c} /\ feed'.readAt = feed.readAt
  BY DEF Consume, IdentityInv, Shared
<1>7. Shared' /\ Listed' /\ Dated'
  BY <1>6 DEF Consume, IdentityInv, Shared, Listed, Dated, Slack, AllBefore
<1>8. Sound(x, source.revoked, feed'.revoked, Slack, clock)
  <2>1. source.revoked \in [Credentials -> Int] /\ clock \in Nat
    BY DEF IdentityInv, Shared
  <2>2. feed.revoked \subseteq feed'.revoked
    BY <1>6
  <2> QED
    BY <1>2, <2>1, <2>2, SlackType, KnowledgeGrows
<1>9. Prompt(y, clock) /\ Collected(y, source.revoked, feed'.revoked)
  BY <1>1, <1>2, <1>5, <1>6 DEF Prompt, Collected, Sound, AllBefore
<1>10. Sound(y, source.revoked, feed'.revoked, Slack, clock)
  BY <1>1, <1>2, <1>5, <1>8, <1>9, OnwardIsSound
<1> QED
  BY <1>3, <1>4, <1>6, <1>7, <1>10, ThreadMoves DEF Consume

(* The date of the feed: everything before it was consumed. *)
LEMMA StampKeeps == ASSUME IdentityInv, NEW t \in Threads, Stamp(t) PROVE IdentityInv'
<1>1. threads[t].pc = "consume" /\ threads[t].pc \notin Resolved
  BY DEF Stamp, In, Resolved, Rejections
<1>2. PICK x : /\ x = threads[t] /\ x \in ThreadState /\ x.cred \in Credentials
               /\ Sound(x, source.revoked, feed.revoked, Slack, clock)
  BY <1>1, OnItsWay
<1>3. x.at \in 0..clock /\ clock - x.at <= Slowness /\ clock \in Nat
  BY <1>1, <1>2, OnItsWay DEF Sound, Prompt
<1>4. AllBefore(x.at, source.revoked, feed.revoked)
  BY <1>1, <1>2 DEF Sound, Collected, Stamp, AllBefore
<1>5. /\ feed' \in [revoked : SUBSET Credentials, readAt : Int, mtime : Int, polledAt : Int]
      /\ feed'.revoked = feed.revoked
      /\ feed'.readAt = IF setup.feed = "file" THEN clock ELSE x.at
  BY <1>2, <1>3 DEF Stamp, IdentityInv, Shared
<1>6. feed'.readAt \in Int /\ feed'.readAt <= clock /\ feed'.readAt - Slack <= x.at
  BY <1>3, <1>5, IdentityConstants DEF Slack
<1>7. AllBefore(feed'.readAt - Slack, source.revoked, feed.revoked)
  <2>1. source.revoked \in [Credentials -> Int] /\ x.at \in Int
    BY <1>3 DEF IdentityInv, Shared
  <2> QED
    BY <1>4, <1>6, <2>1, SlackType DEF AllBefore
<1>8. Shared' /\ Listed'
  BY <1>5 DEF Stamp, IdentityInv, Shared, Listed
<1>9. Dated'
  BY <1>5, <1>6, <1>7 DEF Stamp, Dated, Slack
<1>10. threads[t].then \in {"stale", "lookup"}
  BY <1>2 DEF ThreadState
<1>11. /\ Sound(threads'[t], source.revoked, feed.revoked, Slack, clock)
       /\ \E z : threads' = [threads EXCEPT ![t] = z]
  BY <1>1, <1>10, LeaveIsSound, OnItsWay DEF Stamp
<1> QED
  BY <1>5, <1>8, <1>9, <1>11, ThreadMoves DEF Stamp

(* Where the feed is not stale it holds all that is older than the bound. *)
LEMMA CheckStaleKeeps ==
    ASSUME IdentityInv, NEW t \in Threads, CheckStale(t) PROVE IdentityInv'
<1>1. threads[t].pc = "stale" /\ threads[t].pc \notin Resolved
  BY DEF CheckStale, In, Resolved, Rejections
<1>2. CASE Turn(t, "outdated")
  <2>1. "outdated" \in Resolved /\ "outdated" \in Pcs
    BY DEF Resolved, Rejections, Pcs
  <2> QED
    BY <1>1, <1>2, <2>1, TurnIsSound, OnItsWay, OnlyThreadMoves DEF CheckStale
<1>3. CASE /\ ~Stale
           /\ threads' = [threads EXCEPT ![t].pc = "look", ![t].then = "lookup",
                                         ![t].since = clock]
  <2>1. \E x : threads' = [threads EXCEPT ![t] = x]
    BY <1>3 DEF IdentityInv
  <2>2. PICK x : /\ x = threads[t] /\ x \in ThreadState /\ x.cred \in Credentials
                 /\ Sound(x, source.revoked, feed.revoked, Slack, clock)
    BY <1>1, OnItsWay
  <2>3. PICK y : y = threads'[t] /\ y = [x EXCEPT !.pc = "look", !.then = "lookup", !.since = clock]
    BY <1>3, <2>2 DEF IdentityInv
  <2>4. "look" \in Pcs
    BY DEF Pcs
  <2>5. /\ y \in ThreadState /\ y.pc = "look" /\ y.cred = x.cred /\ y.at = x.at
        /\ y.since = clock
    BY <2>2, <2>3, <2>4, Now DEF ThreadState
  <2>6. AllBefore(clock - MaxStaleness - Slack, source.revoked, feed.revoked)
    <3>1. /\ feed.readAt \in Int /\ feed.readAt # NoTime /\ clock - feed.readAt <= MaxStaleness
          /\ clock \in Nat /\ MaxStaleness \in Nat
      BY <1>3, IdentityConstants DEF Stale, IdentityInv, Shared
    <3>2. AllBefore(feed.readAt - Slack, source.revoked, feed.revoked)
      BY <3>1 DEF IdentityInv, Dated
    <3>3. source.revoked \in [Credentials -> Int]
      BY DEF IdentityInv, Shared
    <3> QED
      BY <3>1, <3>2, <3>3, SlackType DEF AllBefore
  <2>7. Local(y) /\ Prompt(y, clock) /\ Collected(y, source.revoked, feed.revoked)
    BY <2>2, <2>5 DEF Local, Prompt, Collected, Sound
  <2>8. Seen(y, source.revoked, feed.revoked, Slack, clock)
    BY <2>5, <2>6, Now DEF Seen
  <2> QED
    BY <1>1, <2>1, <2>3, <2>7, <2>8, OnItsWay, OnlyThreadMoves DEF CheckStale, Sound
<1> QED
  BY <1>2, <1>3 DEF CheckStale

LEMMA LookUpKeeps == ASSUME IdentityInv, NEW t \in Threads, LookUp(t) PROVE IdentityInv'
<1>1. threads[t].pc \notin Resolved
  BY DEF LookUp, In, Resolved, Rejections
<1>2. PICK pc \in {"revoked", "admitted"} : Turn(t, pc)
  BY DEF LookUp
<1>3. pc \in Resolved /\ pc \in Pcs
  BY DEF Resolved, Rejections, Pcs
<1> QED
  BY <1>1, <1>2, <1>3, TurnIsSound, OnItsWay, OnlyThreadMoves DEF LookUp

-----------------------------------------------------------------------------
(* The issuer, its transmitter, and time *)

(* What happens around the threads leaves each of them sound. *)
LEMMA AroundThem ==
    ASSUME IdentityInv, NEW more, more \in [Credentials -> Int],
           \A c \in Credentials : more[c] = source.revoked[c] \/ more[c] = clock
    PROVE  \A t \in Threads : Sound(threads[t], more, feed.revoked, Slack, clock)
<1>1. source.revoked \in [Credentials -> Int] /\ clock \in Nat
  BY DEF IdentityInv, Shared
<1> SUFFICES ASSUME NEW t \in Threads
             PROVE  Sound(threads[t], more, feed.revoked, Slack, clock)
  OBVIOUS
<1>2. PICK x : x = threads[t] /\ Sound(x, source.revoked, feed.revoked, Slack, clock)
  BY DEF IdentityInv
<1>3. Sound(x, more, feed.revoked, Slack, clock)
  BY <1>1, <1>2, SlackType, KnowledgeGrows
<1> QED
  BY <1>2, <1>3

LEMMA RevokesKeeps ==
    ASSUME IdentityInv, NEW c \in Credentials, RevokesCredential(c)
    PROVE  IdentityInv'
<1>1. /\ Shared /\ Listed /\ Dated /\ clock \in Nat /\ Written \in Int
      /\ threads \in [Threads -> ThreadState]
  BY DEF IdentityInv, Shared, Written
<1>2. /\ source'.revoked = [source.revoked EXCEPT ![c] = clock]
      /\ source'.listed = source.listed \cup {c}
      /\ source' \in [revoked : [Credentials -> Int], listed : SUBSET Credentials,
                      mtime : Int, up : BOOLEAN, downAt : Int]
  <2>0. [source.revoked EXCEPT ![c] = clock] \in [Credentials -> Int]
    BY <1>1 DEF Shared
  <2>1. PICK r \in [Credentials -> Int] : r = [source.revoked EXCEPT ![c] = clock]
    BY <2>0
  <2>2. source' = [source EXCEPT !.revoked = r, !.listed = source.listed \cup {c},
                                 !.mtime = Written]
    BY <2>1 DEF RevokesCredential
  <2> QED
    BY <1>1, <2>1, <2>2 DEF Shared
<1>3. /\ source'.revoked \in [Credentials -> Int]
      /\ \A d \in Credentials : source'.revoked[d] = IF d = c THEN clock ELSE source.revoked[d]
  BY <1>1, <1>2 DEF Shared
<1>4. Shared' /\ Listed'
  BY <1>1, <1>2, <1>3 DEF RevokesCredential, Shared, Listed
<1>5. Dated'
  BY <1>1, <1>2, <1>3, SlackType DEF RevokesCredential, Dated, Shared, AllBefore, Slack
<1>6. \A t \in Threads : Sound(threads[t], source'.revoked, feed.revoked, Slack, clock)
  BY <1>3, AroundThem
<1>7. Slack' = Slack
  BY DEF Slack, RevokesCredential
<1> QED
  BY <1>1, <1>4, <1>5, <1>6, <1>7 DEF IdentityInv, RevokesCredential

(* Whatever else the source does, it forgets no event that was not delivered. *)
LEMMA SourceMoves ==
    ASSUME IdentityInv, source' \in [revoked : [Credentials -> Int], listed : SUBSET Credentials,
                                     mtime : Int, up : BOOLEAN, downAt : Int],
           source'.revoked = source.revoked,
           source.listed \subseteq source'.listed \cup feed.revoked,
           issuer' \in [Kids -> Int], UNCHANGED <<setup, cache, feed, threads, clock>>
    PROVE  IdentityInv'
<1>1. Shared' /\ Listed' /\ Dated'
  BY DEF IdentityInv, Shared, Listed, Dated, Slack
<1>2. Slack' = Slack
  BY DEF Slack
<1> QED
  BY <1>1, <1>2 DEF IdentityInv

LEMMA ClockTicksKeeps == ASSUME IdentityInv, ClockTicks PROVE IdentityInv'
<1>1. clock \in Nat /\ clock' = clock + 1 /\ UNCHANGED <<setup, issuer, source, cache, feed, threads>>
  BY DEF IdentityInv, Shared, ClockTicks
<1>2. Shared' /\ Listed' /\ Dated'
  BY <1>1 DEF IdentityInv, Shared, Listed, Dated, Slack
<1>3. ASSUME NEW t \in Threads
      PROVE  Sound(threads[t], source.revoked, feed.revoked, Slack, clock')
  <2>1. PICK x : /\ x = threads[t] /\ Sound(x, source.revoked, feed.revoked, Slack, clock)
                 /\ x.at # NoTime => clock - x.at < Slowness
    BY DEF IdentityInv, ClockTicks
  <2>2. x.since \in Int /\ Slowness \in Nat
    BY <2>1, IdentityConstants DEF Sound, Local, ThreadState
  <2>3. Prompt(x, clock')
    BY <1>1, <2>1, <2>2 DEF Sound, Prompt
  <2>4. Seen(x, source.revoked, feed.revoked, Slack, clock')
    BY <1>1, <2>1, <2>2 DEF Sound, Seen
  <2> QED
    BY <2>1, <2>3, <2>4 DEF Sound
<1>4. Slack' = Slack
  BY <1>1 DEF Slack
<1> QED
  BY <1>1, <1>2, <1>3, <1>4 DEF IdentityInv

-----------------------------------------------------------------------------
(* The theorems *)

LEMMA InitInv == IdentityInit => IdentityInv
<1> SUFFICES ASSUME IdentityInit PROVE IdentityInv
  OBVIOUS
<1>1. /\ setup \in Setups /\ cache = [keys |-> {}, fetchedAt |-> NoTime] /\ clock = 0
      /\ issuer \in [Kids -> Int] /\ threads = [t \in Threads |-> NewThread]
  BY NoTimeType DEF IdentityInit
<1>2. PICK up \in BOOLEAN :
          source = [revoked |-> [c \in Credentials |-> NoTime], listed |-> {},
                    mtime |-> 0, up |-> up, downAt |-> IF up THEN NoTime ELSE 0]
  BY DEF IdentityInit
<1>3. PICK read \in {0, NoTime} :
          feed = [revoked |-> {}, readAt |-> read, mtime |-> read, polledAt |-> NoTime]
  BY DEF IdentityInit
<1>4. /\ source \in [revoked : [Credentials -> Int], listed : SUBSET Credentials,
                     mtime : Int, up : BOOLEAN, downAt : Int]
      /\ \A c \in Credentials : source.revoked[c] = NoTime
  BY <1>2, NoTimeType
<1>5. /\ feed \in [revoked : SUBSET Credentials, readAt : Int, mtime : Int, polledAt : Int]
      /\ feed.readAt \in {0, NoTime}
  BY <1>3, NoTimeType
<1>6. Shared
  BY <1>1, <1>4, <1>5, NoTimeType DEF Shared
<1>7. Listed
  BY <1>4 DEF Listed
<1>8. Dated
  BY <1>1, <1>4, <1>5 DEF Dated, AllBefore, NoTime
<1>9. ASSUME NEW t \in Threads
      PROVE  Sound(threads[t], source.revoked, feed.revoked, Slack, clock)
  <2>1. PICK x : x = threads[t] /\ x = NewThread
    BY <1>1
  <2>2. x.pc = "new" /\ x.at = NoTime /\ x.then = "stale" /\ x \in ThreadState
    BY <2>1, NewIsTyped DEF NewThread, NoTime
  <2> QED
    BY <2>1, <2>2, IdleIsSound DEF Resolved
<1> QED
  BY <1>1, <1>6, <1>7, <1>8, <1>9, NewIsTyped DEF IdentityInv

LEMMA StepInv == IdentityInv /\ [IdentityNext]_identityVars => IdentityInv'
<1> SUFFICES ASSUME IdentityInv, [IdentityNext]_identityVars PROVE IdentityInv'
  OBVIOUS
<1>1. ASSUME NEW t \in Threads, NEW c \in Credentials, Present(t, c) PROVE IdentityInv'
  BY <1>1, PresentKeeps
<1>2. ASSUME NEW t \in Threads, Resolves(t) PROVE IdentityInv'
  <2>1. CASE FindKey(t)
    BY <2>1, FindKeyKeeps
  <2>2. CASE DueFetch(t)
    BY <2>2, DueFetchKeeps
  <2>3. CASE MarkFetched(t)
    BY <2>3, MarkFetchedKeeps
  <2>4. CASE Fetch(t)
    BY <2>4, FetchKeeps
  <2>5. CASE Install(t)
    BY <2>5, InstallKeeps
  <2>6. CASE FindAgain(t)
    BY <2>6, FindAgainKeeps
  <2>7. CASE LookAtInterval(t)
    BY <2>7, LookAtIntervalKeeps
  <2>8. CASE MarkPolled(t)
    BY <2>8, MarkPolledKeeps
  <2>9. CASE LookAtFile(t)
    BY <2>9, LookAtFileKeeps
  <2>10. CASE Ask(t)
    BY <2>10, AskKeeps
  <2>11. CASE MarkMoved(t)
    BY <2>11, MarkMovedKeeps
  <2>12. CASE \E c \in Credentials : Consume(t, c)
    BY <2>12, ConsumeKeeps
  <2>13. CASE Stamp(t)
    BY <2>13, StampKeeps
  <2>14. CASE CheckStale(t)
    BY <2>14, CheckStaleKeeps
  <2>15. CASE LookUp(t)
    BY <2>15, LookUpKeeps
  <2> QED
    BY <1>2, <2>1, <2>2, <2>3, <2>4, <2>5, <2>6, <2>7, <2>8, <2>9, <2>10, <2>11, <2>12, <2>13,
       <2>14, <2>15 DEF Resolves
<1>3. ASSUME NEW k \in Kids, Rotates(k) PROVE IdentityInv'
  <2>1. issuer' \in [Kids -> Int]
    BY <1>3, Now, NoTimeType DEF Rotates, IdentityInv, Shared
  <2> QED
    BY <1>3, <2>1, SourceMoves DEF Rotates, IdentityInv, Shared
<1>4. ASSUME NEW c \in Credentials, RevokesCredential(c) PROVE IdentityInv'
  BY <1>4, RevokesKeeps
<1>5. CASE RewritesSource
  <2>1. PICK old \in SUBSET feed.revoked :
            source' = [source EXCEPT !.listed = source.listed \ old, !.mtime = Written]
    BY <1>5 DEF RewritesSource
  <2>2. Written \in Int /\ Shared
    BY DEF Written, IdentityInv, Shared
  <2>3. /\ source' \in [revoked : [Credentials -> Int], listed : SUBSET Credentials,
                        mtime : Int, up : BOOLEAN, downAt : Int]
        /\ source'.revoked = source.revoked /\ source'.listed = source.listed \ old
    BY <2>1, <2>2 DEF Shared
  <2> QED
    BY <1>5, <2>2, <2>3, SourceMoves DEF RewritesSource, Shared
<1>6. CASE GoesDownOrUp
  <2>1. /\ source' \in [revoked : [Credentials -> Int], listed : SUBSET Credentials,
                        mtime : Int, up : BOOLEAN, downAt : Int]
        /\ source'.revoked = source.revoked /\ source'.listed = source.listed
    BY <1>6, Now DEF GoesDownOrUp, IdentityInv, Shared
  <2> QED
    BY <1>6, <2>1, SourceMoves DEF GoesDownOrUp, IdentityInv, Shared
<1>7. CASE ClockTicks
  BY <1>7, ClockTicksKeeps
<1>8. CASE UNCHANGED identityVars
  BY <1>8 DEF identityVars, IdentityInv, Shared, Listed, Dated, Slack
<1> QED
  BY <1>1, <1>2, <1>3, <1>4, <1>5, <1>6, <1>7, <1>8 DEF IdentityNext

(* The cached keys, the feed and the local state of every call keep their shape,  *)
(* and a call that is being resolved has a credential (JWTIdentityProvider).      *)
THEOREM IdentityIsTyped == IdentitySpec => []IdentityTypeOK
<1>1. IdentityInv => IdentityTypeOK
  BY DEF IdentityInv, IdentityTypeOK, Sound
<1> QED
  BY <1>1, InitInv, StepInv, PTL DEF IdentitySpec

(* A feed that was dated holds every revocation that is older than its date, and  *)
(* a thread in the middle of a read carries the ones that are missing: the date   *)
(* never runs ahead of what was consumed (_consume, refresh).                     *)
THEOREM DateIsEarned == IdentitySpec => [](Listed /\ Dated)
<1>1. IdentityInv => Listed /\ Dated
  BY DEF IdentityInv
<1> QED
  BY <1>1, InitInv, StepInv, PTL DEF IdentitySpec

(* The look at the feed is the only step from the lookup to the answer. *)
LEMMA OnlyLookUpAdmits ==
    ASSUME IdentityInv, IdentityNext, NEW t \in Threads, In(t, "lookup"), In(t, "admitted")'
    PROVE  LookUp(t) /\ Cred(t) \notin feed.revoked
<1>1. threads[t].pc = "lookup" /\ threads'[t].pc = "admitted" /\ threads[t].pc \notin Resolved
  BY DEF In, Resolved, Rejections
<1>2. PICK u \in Threads : Resolves(u) \/ \E c \in Credentials : Present(u, c)
  BY <1>1 DEF IdentityNext, Rotates, RevokesCredential, RewritesSource, GoesDownOrUp, ClockTicks
<1>3. u = t
  BY <1>1, <1>2
  DEF IdentityInv, Resolves, Present, FindKey, DueFetch, MarkFetched, Fetch, Install, FindAgain,
      LookAtInterval, MarkPolled, LookAtFile, Ask, MarkMoved, Consume, Stamp, CheckStale, LookUp,
      Turn, Leave
<1>4. LookUp(t)
  BY <1>1, <1>2, <1>3
  DEF Resolves, Present, FindKey, DueFetch, MarkFetched, Fetch, Install, FindAgain,
      LookAtInterval, MarkPolled, LookAtFile, Ask, MarkMoved, Consume, Stamp, CheckStale, LookUp,
      In
<1>5. Turn(t, IF Cred(t) \in feed.revoked THEN "revoked" ELSE "admitted")
  BY <1>4 DEF LookUp
<1>6. CASE Cred(t) \in feed.revoked
  <2>1. threads'[t] = [NewThread EXCEPT !.pc = "revoked"]
    BY <1>5, <1>6 DEF Turn, After, IdentityInv, Resolved, Rejections
  <2> QED
    BY <1>1, <2>1 DEF NewThread
<1> QED
  BY <1>4, <1>6

(* No credential is admitted once its revocation has stood in the source for      *)
(* longer than the bound, whatever the threads overtake, leave half consumed or   *)
(* fail to read (_check_revocation).                                              *)
THEOREM RevocationIsSeen == IdentitySpec => BlindnessIsBounded
<1>1. ASSUME IdentityInv, IdentityNext, NEW t \in Threads, In(t, "lookup"), In(t, "admitted")',
             source.revoked[Cred(t)] # NoTime
      PROVE  source.revoked[Cred(t)] >= threads[t].since - MaxStaleness - Slack
  <2>1. PICK x : x = threads[t] /\ Sound(x, source.revoked, feed.revoked, Slack, clock)
    BY <1>1 DEF IdentityInv
  <2>2. x.pc = "lookup" /\ x.cred \in Credentials /\ x.since \in Int
    BY <1>1, <2>1 DEF In, Sound, Local, Resolved, Rejections, ThreadState
  <2>3. AllBefore(x.since - MaxStaleness - Slack, source.revoked, feed.revoked)
    BY <2>1, <2>2 DEF Sound, Seen
  <2>4. x.cred \notin feed.revoked
    BY <1>1, <2>1, OnlyLookUpAdmits DEF Cred
  <2>5. source.revoked[x.cred] \in Int
    BY <1>1, <2>2 DEF IdentityInv, Shared
  <2> QED
    BY <1>1, <2>1, <2>2, <2>3, <2>4, <2>5, SlackType, IdentityConstants DEF AllBefore, Cred
<1>2. IdentityInv /\ [IdentityNext]_identityVars =>
          [\A t \in Threads : In(t, "lookup") /\ In(t, "admitted")' =>
              LET written == source.revoked[Cred(t)] IN
              written # NoTime =>
                  written >= threads[t].since - MaxStaleness - Slack]_identityVars
  BY <1>1
<1> QED
  BY <1>2, InitInv, StepInv, PTL DEF IdentitySpec, BlindnessIsBounded

-----------------------------------------------------------------------------
(* Why a call is turned away: what the marks of the fetches and polls stand for *)

Asking == {"mark", "fetch", "install", "polled", "ask", "moved", "consume"}
Checking == {"look", "polled", "ask", "moved", "consume", "stale", "lookup"}

(* A call looks at a source only after it arrived. *)
Ongoing(x, today) ==
    x.pc \notin Resolved =>
        /\ x.since \in 0..today /\ x.stat <= today
        /\ x.pc \in Asking => x.at >= x.since
        /\ x.pc \in Checking => setup.feed # "none"

(* The source is down, or it was since the moment. *)
Down(moment) == ~source.up \/ (source.downAt # NoTime /\ source.downAt >= moment)

Fetching(t, moment) == threads[t].pc \in {"fetch", "install"} /\ threads[t].at >= moment
Reading(t, moment) == threads[t].pc \in {"ask", "consume"} /\ threads[t].at >= moment
Read(moment) == feed.readAt # NoTime /\ feed.readAt >= moment

(* What is about to be installed has the keys that are older than the question. *)
Carried(x) ==
    x.pc = "install" =>
        \A k \in Kids : issuer[k] # NoTime /\ issuer[k] < x.at => k \in x.doc

(* The mark of a fetch: the key is there, or the fetch failed, or goes on. *)
KeyMarked ==
    /\ cache.fetchedAt <= clock
    /\ \A k \in Kids :
           cache.fetchedAt # NoTime /\ issuer[k] # NoTime
               /\ issuer[k] + Slowness < cache.fetchedAt =>
                   \/ k \in cache.keys \/ Down(cache.fetchedAt)
                   \/ \E u \in Threads : Fetching(u, cache.fetchedAt)

(* And so for a call that looks for its key the second time. *)
KeyAwaited(t) ==
    LET kid == KidOf[Cred(t)]
        since == threads[t].since
    IN  In(t, "again") /\ issuer[kid] # NoTime
            /\ issuer[kid] < since - MinRefresh - Slowness =>
                \/ kid \in cache.keys \/ Down(since - MinRefresh)
                \/ \E u \in Threads \ {t} : Fetching(u, issuer[kid] + 1)

KeysOK == KeyMarked /\ \A t \in Threads : Carried(threads[t]) /\ KeyAwaited(t)

(* The mark of a poll: the feed has its date, or it failed, or it goes on. *)
PollMarked ==
    /\ feed.polledAt <= clock
    /\ setup.feed = "poll" /\ feed.polledAt # NoTime =>
           \/ Read(feed.polledAt - Slowness) \/ Down(feed.polledAt)
           \/ \E u \in Threads : Reading(u, feed.polledAt)

PollAwaited(t) ==
    In(t, "stale") /\ setup.feed = "poll" =>
        \/ Read(threads[t].since - PollInterval - Slowness + 1)
        \/ Down(threads[t].since - PollInterval)
        \/ \E u \in Threads \ {t} : Reading(u, 0)

(* The mark of a read: the feed is dated later than the file, or is being read. *)
FileMarked ==
    /\ feed.mtime <= clock /\ source.mtime \in 0..clock
    /\ setup.feed = "file" /\ feed.mtime # NoTime =>
           Read(feed.mtime) \/ \E u \in Threads : In(u, "consume")

FileAwaited(t) ==
    In(t, "stale") /\ setup.feed = "file" /\ source.mtime < threads[t].since =>
        \/ Read(source.mtime) \/ Down(threads[t].since)
        \/ \E u \in Threads \ {t} : In(u, "consume")

FeedsOK == PollMarked /\ FileMarked /\ \A t \in Threads : PollAwaited(t) /\ FileAwaited(t)

CauseInv == KeysOK /\ FeedsOK /\ \A t \in Threads : Ongoing(threads[t], clock)

-----------------------------------------------------------------------------
(* What a step leaves of its thread, and of the others *)

OthersWait(t) == \A u \in Threads \ {t} : threads'[u] = threads[u]
SameCall(t) == threads'[t].since = threads[t].since /\ threads'[t].cred = threads[t].cred

LEMMA TurnIs ==
    ASSUME IdentityInv, NEW t \in Threads, NEW pc, Turn(t, pc)
    PROVE  /\ threads'[t].pc = pc /\ OthersWait(t)
           /\ pc \notin Resolved =>
                  /\ SameCall(t) /\ threads'[t].at = threads[t].at
                  /\ threads'[t].stat = threads[t].stat /\ threads'[t].doc = threads[t].doc
<1>1. threads[t] \in ThreadState
  BY DEF IdentityInv
<1>2. threads'[t] = After(t, pc) /\ OthersWait(t)
  BY DEF Turn, IdentityInv, OthersWait
<1>3. CASE pc \in Resolved
  BY <1>2, <1>3 DEF After, NewThread
<1>4. CASE pc \notin Resolved
  BY <1>1, <1>2, <1>4 DEF After, ThreadState, SameCall
<1> QED
  BY <1>3, <1>4

LEMMA LeaveIs ==
    ASSUME IdentityInv, NEW t \in Threads, NEW pc, Leave(t, pc)
    PROVE  /\ threads'[t].pc = pc /\ OthersWait(t)
           /\ pc \notin Resolved => SameCall(t) /\ threads'[t].stat = NoTime
<1>1. threads[t] \in ThreadState
  BY DEF IdentityInv
<1>2. /\ threads'[t] = [After(t, pc) EXCEPT !.at = NoTime, !.stat = NoTime, !.doc = {}]
      /\ OthersWait(t)
  BY DEF Leave, IdentityInv, OthersWait
<1>3. CASE pc \in Resolved
  BY <1>2, <1>3 DEF After, NewThread
<1>4. CASE pc \notin Resolved
  BY <1>1, <1>2, <1>4 DEF After, ThreadState, SameCall
<1> QED
  BY <1>3, <1>4

(* The numbers the arguments compare. *)
LEMMA Numbers ==
    ASSUME IdentityInv
    PROVE  /\ clock \in Nat /\ setup.feed \in {"none", "poll", "file"}
           /\ source.downAt \in Int /\ source.mtime \in Int /\ source.up \in BOOLEAN
           /\ cache.fetchedAt \in Int /\ cache.keys \subseteq Credentials \cup Kids
           /\ feed.readAt \in Int /\ feed.polledAt \in Int /\ feed.mtime \in Int
           /\ feed.readAt <= clock /\ \A k \in Kids : issuer[k] \in Int
  BY IdentityConstants DEF IdentityInv, Shared, Dated

(* A call on its way: its times, and the look it is at. *)
LEMMA CallNumbers ==
    ASSUME IdentityInv, NEW u \in Threads
    PROVE  /\ threads[u].since \in Int /\ threads[u].at \in Int /\ threads[u].stat \in Int
           /\ threads[u].at = NoTime
              \/ (threads[u].at \in 0..clock /\ clock - threads[u].at <= Slowness)
           /\ threads[u].pc \notin Resolved => Cred(u) \in Credentials /\ KidOf[Cred(u)] \in Kids
<1>1. Sound(threads[u], source.revoked, feed.revoked, Slack, clock)
  BY DEF IdentityInv
<1> QED
  BY <1>1, IdentityConstants DEF Sound, Local, Prompt, ThreadState, Cred

(* Whoever asks has asked within the timeout. *)
LEMMA AskedLately ==
    ASSUME IdentityInv, NEW u \in Threads, Ongoing(threads[u], clock), threads[u].pc \in Asking
    PROVE  /\ threads[u].at \in 0..clock /\ clock - threads[u].at <= Slowness
           /\ threads[u].since \in 0..clock /\ threads[u].at >= threads[u].since
           /\ threads[u].pc \notin Resolved
<1>1. threads[u].pc \notin Resolved
  BY DEF Asking, Resolved, Rejections
<1> QED
  BY <1>1, CallNumbers, Numbers DEF Ongoing, NoTime

-----------------------------------------------------------------------------
(* The keys *)

(* A thread moves, and the keys stay as they are. *)
LEMMA KeysTurn ==
    ASSUME IdentityInv, KeysOK, NEW t \in Threads, OthersWait(t),
           UNCHANGED <<issuer, source, cache, clock>>,
           threads[t].pc \in {"fetch", "install"} =>
               \/ ~source.up
               \/ threads'[t].pc \in {"fetch", "install"} /\ threads'[t].at = threads[t].at,
           Carried(threads[t])', KeyAwaited(t)'
    PROVE  KeysOK'
<1>1. \A u \in Threads, m \in Int : Fetching(u, m) => ~source.up \/ Fetching(u, m)'
  BY DEF Fetching, OthersWait
<1>2. KeyMarked'
  BY <1>1, Numbers DEF KeysOK, KeyMarked, Down
<1>3. ASSUME NEW u \in Threads \ {t} PROVE Carried(threads[u])' /\ KeyAwaited(u)'
  <2>1. threads'[u] = threads[u] /\ Carried(threads[u]) /\ KeyAwaited(u)
    BY <1>3 DEF OthersWait, KeysOK
  <2>2. In(u, "again") => issuer[KidOf[Cred(u)]] + 1 \in Int
    BY CallNumbers, Numbers DEF In, Resolved, Rejections
  <2> QED
    BY <1>1, <2>1, <2>2 DEF Carried, KeyAwaited, In, Cred, Down
<1> QED
  BY <1>2, <1>3 DEF KeysOK

(* A thread that does not look for a key says nothing of them. *)
LEMMA KeysAside ==
    ASSUME IdentityInv, KeysOK, NEW t \in Threads, OthersWait(t),
           UNCHANGED <<issuer, source, cache, clock>>,
           threads[t].pc \notin {"fetch", "install"}, threads'[t].pc \notin {"install", "again"}
    PROVE  KeysOK'
<1>1. Carried(threads[t])' /\ KeyAwaited(t)'
  BY DEF Carried, KeyAwaited, In
<1> QED
  BY <1>1, KeysTurn

(* Time passes, and the source is written. *)
LEMMA KeysStay ==
    ASSUME IdentityInv, KeysOK, UNCHANGED <<issuer, cache, threads>>,
           clock' \in Nat, clock' >= clock,
           source'.up = source.up, source'.downAt = source.downAt
    PROVE  KeysOK'
<1>1. KeyMarked'
  BY Numbers DEF KeysOK, KeyMarked, Down, Fetching
<1> QED
  BY <1>1 DEF KeysOK, Carried, KeyAwaited, In, Cred, Down, Fetching

LEMMA DueFetchKeepsKeys ==
    ASSUME IdentityInv, CauseInv, NEW t \in Threads, DueFetch(t)
    PROVE  KeysOK'
<1>1. /\ threads[t] \in ThreadState /\ threads[t].pc = "due" /\ OthersWait(t) /\ SameCall(t)
      /\ threads'[t].pc = IF Recent(cache.fetchedAt, MinRefresh) THEN "again" ELSE "mark"
      /\ threads'[t].at = clock /\ KeysOK /\ Ongoing(threads[t], clock)
  BY DEF DueFetch, In, IdentityInv, ThreadState, OthersWait, SameCall, CauseInv
<1>2. CASE ~Recent(cache.fetchedAt, MinRefresh)
  <2>1. threads'[t].pc = "mark" /\ UNCHANGED <<issuer, source, cache, clock>>
    BY <1>1, <1>2 DEF DueFetch
  <2> QED
    BY <1>1, <2>1, KeysAside
<1>3. CASE Recent(cache.fetchedAt, MinRefresh)
  <2> DEFINE kid == KidOf[Cred(t)]
             since == threads[t].since
  <2>1. /\ kid \in Kids /\ issuer[kid] \in Int /\ since \in 0..clock /\ cache.fetchedAt \in Int
        /\ clock \in Nat /\ MinRefresh \in Nat /\ Slowness \in Nat /\ source.downAt \in Int
    BY <1>1, CallNumbers, Numbers, IdentityConstants DEF Ongoing, Resolved, Rejections
  <2>2. cache.fetchedAt # NoTime /\ since - MinRefresh < cache.fetchedAt
    BY <1>3, <2>1 DEF Recent
  <2>3. ASSUME issuer[kid] # NoTime, issuer[kid] < since - MinRefresh - Slowness
        PROVE  \/ kid \in cache.keys \/ Down(since - MinRefresh)
               \/ \E u \in Threads \ {t} : Fetching(u, issuer[kid] + 1)
    <3>1. issuer[kid] + Slowness < cache.fetchedAt
      BY <2>1, <2>2, <2>3
    <3>2. \/ kid \in cache.keys \/ Down(cache.fetchedAt)
          \/ \E u \in Threads : Fetching(u, cache.fetchedAt)
      BY <1>1, <2>1, <2>2, <2>3, <3>1 DEF KeysOK, KeyMarked
    <3>3. Down(cache.fetchedAt) => Down(since - MinRefresh)
      BY <2>1, <2>2 DEF Down
    <3>4. ASSUME NEW u \in Threads, Fetching(u, cache.fetchedAt)
          PROVE  u # t /\ Fetching(u, issuer[kid] + 1)
      BY <1>1, <2>1, <3>1, <3>4, CallNumbers DEF Fetching
    <3> QED
      BY <3>2, <3>3, <3>4
  <2>4. KeyAwaited(t)'
    BY <1>1, <2>3 DEF DueFetch, KeyAwaited, SameCall, Cred, Fetching, OthersWait, Down
  <2>5. Carried(threads[t])'
    BY <1>1, <1>3 DEF Carried
  <2> QED
    BY <1>1, <2>4, <2>5, KeysTurn DEF DueFetch
<1> QED
  BY <1>2, <1>3

LEMMA MarkFetchedKeepsKeys ==
    ASSUME IdentityInv, CauseInv, NEW t \in Threads, MarkFetched(t)
    PROVE  KeysOK'
<1>1. /\ threads[t].pc = "mark" /\ OthersWait(t) /\ threads'[t].pc = "fetch"
      /\ threads'[t].at = threads[t].at /\ KeysOK
  BY TurnIs DEF MarkFetched, In, Resolved, Rejections, CauseInv
<1>2. cache'.fetchedAt = threads[t].at /\ cache'.keys = cache.keys
  BY DEF MarkFetched, IdentityInv, Shared
<1>3. threads[t].at \in 0..clock
  BY <1>1, AskedLately DEF CauseInv, Asking
<1>4. \E u \in Threads : Fetching(u, cache.fetchedAt)'
  BY <1>1, <1>2, <1>3 DEF Fetching
<1>5. KeyMarked'
  BY <1>2, <1>3, <1>4, Numbers DEF KeyMarked, MarkFetched
<1>6. \A u \in Threads, m \in Int : Fetching(u, m) => Fetching(u, m)'
  BY <1>1 DEF Fetching, OthersWait
<1>7. ASSUME NEW u \in Threads PROVE Carried(threads[u])' /\ KeyAwaited(u)'
  <2>1. CASE u = t
    BY <1>1, <2>1 DEF Carried, KeyAwaited, In
  <2>2. CASE u # t
    <3>1. threads'[u] = threads[u] /\ Carried(threads[u]) /\ KeyAwaited(u)
      BY <1>1, <2>2 DEF OthersWait, KeysOK
    <3>2. In(u, "again") => issuer[KidOf[Cred(u)]] + 1 \in Int
      BY CallNumbers, Numbers DEF In, Resolved, Rejections
    <3> QED
      BY <1>2, <1>6, <3>1, <3>2 DEF Carried, KeyAwaited, In, Cred, Down, MarkFetched
  <2> QED
    BY <2>1, <2>2
<1> QED
  BY <1>5, <1>7 DEF KeysOK

LEMMA FetchKeepsKeys ==
    ASSUME IdentityInv, CauseInv, NEW t \in Threads, Fetch(t)
    PROVE  KeysOK'
<1>1. threads[t] \in ThreadState /\ threads[t].pc = "fetch" /\ KeysOK /\ threads[t].at \in 0..clock
  BY AskedLately DEF Fetch, In, IdentityInv, CauseInv, Asking
<1>2. CASE ~source.up /\ Leave(t, "unknown")
  <2>1. threads'[t].pc = "unknown" /\ OthersWait(t)
    BY <1>2, LeaveIs
  <2>2. Carried(threads[t])' /\ KeyAwaited(t)'
    BY <2>1 DEF Carried, KeyAwaited, In
  <2> QED
    BY <1>1, <1>2, <2>1, <2>2, KeysTurn DEF Fetch
<1>3. CASE /\ source.up
           /\ threads' = [threads EXCEPT ![t].pc = "install",
                                         ![t].doc = {k \in Kids : issuer[k] # NoTime}]
  <2>1. /\ threads'[t].pc = "install" /\ OthersWait(t) /\ threads'[t].at = threads[t].at
        /\ threads'[t].doc = {k \in Kids : issuer[k] # NoTime}
    BY <1>1, <1>3 DEF IdentityInv, ThreadState, OthersWait
  <2>2. Carried(threads[t])' /\ KeyAwaited(t)'
    BY <2>1 DEF Carried, KeyAwaited, In, Fetch
  <2> QED
    BY <1>1, <2>1, <2>2, KeysTurn DEF Fetch
<1> QED
  BY <1>2, <1>3 DEF Fetch

LEMMA InstallKeepsKeys ==
    ASSUME IdentityInv, CauseInv, NEW t \in Threads, Install(t)
    PROVE  KeysOK'
<1>1. /\ threads[t].pc = "install" /\ OthersWait(t) /\ threads'[t].pc = "again" /\ SameCall(t)
      /\ KeysOK /\ Carried(threads[t])
  BY TurnIs DEF Install, In, Resolved, Rejections, CauseInv, KeysOK
<1>2. cache'.fetchedAt = cache.fetchedAt /\ cache'.keys = threads[t].doc
  BY DEF Install, IdentityInv, Shared
<1>3. /\ threads[t].at \in 0..clock /\ clock - threads[t].at <= Slowness
      /\ threads[t].since \in 0..clock /\ threads[t].at >= threads[t].since
  BY <1>1, AskedLately DEF CauseInv, Asking
<1>4. \A k \in Kids : issuer[k] # NoTime /\ issuer[k] < threads[t].at => k \in cache'.keys
  BY <1>1, <1>2 DEF Carried
<1>5. KeyMarked'
  <2>1. \A k \in Kids : issuer[k] + Slowness < cache.fetchedAt => issuer[k] < threads[t].at
    BY <1>1, <1>3, Numbers, IdentityConstants DEF KeysOK, KeyMarked
  <2> QED
    BY <1>1, <1>2, <1>4, <2>1 DEF KeysOK, KeyMarked, Install
<1>6. ASSUME NEW u \in Threads PROVE Carried(threads[u])' /\ KeyAwaited(u)'
  <2>1. CASE threads'[u].pc # "again"
    BY <1>1, <2>1 DEF Carried, KeyAwaited, In, OthersWait, KeysOK, Install
  <2>2. CASE threads'[u].pc = "again"
    <3>1. /\ threads[u].since \in 0..clock /\ KidOf[Cred(u)] \in Kids
          /\ threads'[u].since = threads[u].since /\ Cred(u)' = Cred(u)
      BY <1>1, <2>2, CallNumbers
      DEF OthersWait, SameCall, Cred, CauseInv, Ongoing, Resolved, Rejections
    <3>2. \A k \in Kids : issuer[k] < threads[u].since - MinRefresh - Slowness
                              => issuer[k] < threads[t].at
      BY <1>3, <3>1, Numbers, IdentityConstants
    <3> QED
      BY <1>4, <2>2, <3>1, <3>2 DEF Carried, KeyAwaited, In, Install
  <2> QED
    BY <2>1, <2>2
<1> QED
  BY <1>5, <1>6 DEF KeysOK

(* A key that is published now is younger than every question. *)
LEMMA RotatesKeepsKeys ==
    ASSUME IdentityInv, CauseInv, NEW k \in Kids, Rotates(k)
    PROVE  KeysOK'
<1>1. \A j \in Kids : issuer'[j] = issuer[j] \/ issuer'[j] = NoTime \/ issuer'[j] = clock
  BY DEF Rotates, IdentityInv, Shared
<1>2. KeysOK /\ UNCHANGED <<source, cache, threads, clock>>
  BY DEF CauseInv, Rotates
<1>3. KeyMarked'
  BY <1>1, <1>2, Numbers, IdentityConstants DEF KeysOK, KeyMarked, Down, Fetching
<1>4. ASSUME NEW u \in Threads PROVE Carried(threads[u])' /\ KeyAwaited(u)'
  <2>1. Carried(threads[u]) /\ KeyAwaited(u) /\ Ongoing(threads[u], clock)
    BY <1>2 DEF KeysOK, CauseInv
  <2>2. Carried(threads[u])'
    <3>1. threads[u].pc = "install" => threads[u].at <= clock
      BY <2>1, AskedLately, Numbers DEF Asking
    <3> QED
      BY <1>1, <1>2, <2>1, <3>1, Numbers, CallNumbers DEF Carried
  <2>3. KeyAwaited(u)'
    <3>1. In(u, "again") => threads[u].since <= clock /\ KidOf[Cred(u)] \in Kids
      BY <2>1, CallNumbers, Numbers DEF Ongoing, In, Resolved, Rejections
    <3> QED
      BY <1>1, <1>2, <2>1, <3>1, Numbers, CallNumbers, IdentityConstants
      DEF KeyAwaited, In, Cred, Down, Fetching
  <2> QED
    BY <2>2, <2>3
<1> QED
  BY <1>3, <1>4 DEF KeysOK

(* A source that changes was down, or is. *)
LEMMA DownNow ==
    ASSUME IdentityInv, GoesDownOrUp, NEW m \in Int, m <= clock
    PROVE  Down(m)'
<1>1. source'.up = ~source.up /\ source'.downAt = clock
  BY DEF GoesDownOrUp, IdentityInv, Shared
<1> QED
  BY <1>1, Now, Numbers DEF Down

LEMMA OutageKeepsKeys ==
    ASSUME IdentityInv, CauseInv, GoesDownOrUp
    PROVE  KeysOK'
<1>1. KeysOK /\ UNCHANGED <<issuer, cache, threads, clock>>
  BY DEF CauseInv, GoesDownOrUp
<1>2. KeyMarked'
  <2>1. cache.fetchedAt \in Int /\ cache.fetchedAt <= clock
    BY <1>1, Numbers DEF KeysOK, KeyMarked
  <2>2. Down(cache.fetchedAt)'
    BY <1>1, <2>1, DownNow DEF Down
  <2> QED
    BY <1>1, <2>1, <2>2 DEF KeyMarked
<1>3. ASSUME NEW u \in Threads PROVE Carried(threads[u])' /\ KeyAwaited(u)'
  <2>1. Carried(threads[u])'
    BY <1>1 DEF Carried, KeysOK
  <2>2. In(u, "again") => Down(threads[u].since - MinRefresh)'
    <3>1. In(u, "again") => threads[u].since - MinRefresh \in Int
                            /\ threads[u].since - MinRefresh <= clock
      BY CallNumbers, Numbers, IdentityConstants DEF CauseInv, Ongoing, In, Resolved, Rejections
    <3> QED
      BY <1>1, <3>1, DownNow DEF Down
  <2> QED
    BY <1>1, <2>1, <2>2 DEF KeyAwaited, In
<1> QED
  BY <1>2, <1>3 DEF KeysOK

-----------------------------------------------------------------------------
(* The feeds *)

(* A thread moves, and the marks of the feed stay as they are. *)
LEMMA FeedsTurn ==
    ASSUME IdentityInv, FeedsOK, NEW t \in Threads, OthersWait(t),
           UNCHANGED <<setup, source, clock>>, feed'.readAt = feed.readAt,
           feed'.polledAt = feed.polledAt, feed'.mtime = feed.mtime,
           threads[t].pc \in {"ask", "consume"} =>
               \/ ~source.up /\ threads[t].pc = "ask"
               \/ /\ threads'[t].pc = (IF setup.feed = "file" /\ threads[t].pc = "ask"
                                       THEN "moved" ELSE "consume")
                  /\ threads'[t].at = threads[t].at,
           PollAwaited(t)', FileAwaited(t)'
    PROVE  FeedsOK'
<1>1. \A u \in Threads, m \in Int :
          setup.feed = "poll" /\ Reading(u, m) => ~source.up \/ Reading(u, m)'
  BY DEF Reading, OthersWait
<1>2. \A u \in Threads : In(u, "consume") => In(u, "consume")'
  BY DEF In, OthersWait
<1>3. PollMarked'
  BY <1>1, Numbers DEF FeedsOK, PollMarked, Down, Read
<1>4. FileMarked'
  BY <1>2 DEF FeedsOK, FileMarked, Read
<1>5. ASSUME NEW u \in Threads \ {t} PROVE PollAwaited(u)' /\ FileAwaited(u)'
  <2>1. threads'[u] = threads[u] /\ PollAwaited(u) /\ FileAwaited(u)
    BY <1>5 DEF OthersWait, FeedsOK
  <2> QED
    BY <1>1, <1>2, <2>1 DEF PollAwaited, FileAwaited, In, Down, Read
<1> QED
  BY <1>3, <1>4, <1>5 DEF FeedsOK

(* A thread that neither reads a feed nor comes to ask its age says nothing of it. *)
LEMMA FeedsAside ==
    ASSUME IdentityInv, FeedsOK, NEW t \in Threads, OthersWait(t),
           UNCHANGED <<setup, source, feed, clock>>,
           threads[t].pc \notin {"ask", "consume"}, threads'[t].pc # "stale"
    PROVE  FeedsOK'
<1>1. PollAwaited(t)' /\ FileAwaited(t)'
  BY DEF PollAwaited, FileAwaited, In
<1> QED
  BY <1>1, FeedsTurn

(* Time passes, and the source is written. *)
LEMMA FeedsStay ==
    ASSUME IdentityInv, CauseInv, UNCHANGED <<setup, feed, threads>>,
           clock' \in Nat, clock' >= clock, source'.mtime \in {source.mtime, clock},
           source'.up = source.up, source'.downAt = source.downAt
    PROVE  FeedsOK'
<1>1. PollMarked'
  BY Numbers DEF CauseInv, FeedsOK, PollMarked, Down, Reading, Read
<1>2. FileMarked'
  BY Numbers DEF CauseInv, FeedsOK, FileMarked, Read, In
<1>3. ASSUME NEW u \in Threads PROVE PollAwaited(u)' /\ FileAwaited(u)'
  <2>1. PollAwaited(u) /\ FileAwaited(u) /\ (In(u, "stale") => threads[u].since \in 0..clock)
    BY DEF CauseInv, FeedsOK, Ongoing, In, Resolved, Rejections
  <2> QED
    BY <2>1, Numbers DEF PollAwaited, FileAwaited, In, Down, Reading, Read
<1> QED
  BY <1>1, <1>2, <1>3 DEF FeedsOK

LEMMA LookAtIntervalKeepsFeeds ==
    ASSUME IdentityInv, CauseInv, NEW t \in Threads, LookAtInterval(t)
    PROVE  FeedsOK'
<1>1. /\ threads[t] \in ThreadState /\ threads[t].pc = "look" /\ FeedsOK /\ setup.feed = "poll"
      /\ UNCHANGED <<setup, source, feed, clock>>
  BY DEF LookAtInterval, In, IdentityInv, CauseInv
<1>2. CASE threads' = [threads EXCEPT ![t].pc = "polled", ![t].at = clock]
  <2>1. OthersWait(t) /\ threads'[t].pc = "polled"
    BY <1>1, <1>2 DEF IdentityInv, ThreadState, OthersWait
  <2> QED
    BY <1>1, <2>1, FeedsAside
<1>3. CASE Recent(feed.polledAt, PollInterval) /\ Leave(t, threads[t].then)
  <2>1. threads[t].then \in {"stale", "lookup"} /\ "stale" \notin Resolved
    BY <1>1 DEF ThreadState, Resolved, Rejections
  <2>2. threads'[t].pc = threads[t].then /\ OthersWait(t)
        /\ (threads[t].then = "stale" => threads'[t].since = threads[t].since)
    BY <1>3, <2>1, LeaveIs DEF SameCall
  <2>3. threads[t].since \in 0..clock
    BY <1>1 DEF CauseInv, Ongoing, Resolved, Rejections
  <2>4. feed.polledAt # NoTime /\ threads[t].since - PollInterval < feed.polledAt
    BY <1>3, <2>3, Numbers, IdentityConstants DEF Recent
  <2>5. \/ Read(feed.polledAt - Slowness) \/ Down(feed.polledAt)
        \/ \E u \in Threads : Reading(u, feed.polledAt)
    BY <1>1, <2>4 DEF FeedsOK, PollMarked
  <2>6. Read(feed.polledAt - Slowness) => Read(threads[t].since - PollInterval - Slowness + 1)
    BY <2>3, <2>4, Numbers, IdentityConstants DEF Read
  <2>7. Down(feed.polledAt) => Down(threads[t].since - PollInterval)
    BY <2>3, <2>4, Numbers, IdentityConstants DEF Down
  <2>8. ASSUME NEW u \in Threads, Reading(u, feed.polledAt) PROVE u # t /\ Reading(u, 0)
    <3>1. threads[u].at \in 0..clock
      BY <2>8, AskedLately DEF Reading, CauseInv, Asking
    <3> QED
      BY <1>1, <2>8, <3>1 DEF Reading
  <2>9. PollAwaited(t)' /\ FileAwaited(t)'
    BY <1>1, <2>2, <2>5, <2>6, <2>7, <2>8
    DEF PollAwaited, FileAwaited, In, OthersWait, Read, Down, Reading
  <2> QED
    BY <1>1, <2>2, <2>9, FeedsTurn
<1> QED
  BY <1>2, <1>3 DEF LookAtInterval

LEMMA LookAtFileKeepsFeeds ==
    ASSUME IdentityInv, CauseInv, NEW t \in Threads, LookAtFile(t)
    PROVE  FeedsOK'
<1>1. /\ threads[t] \in ThreadState /\ threads[t].pc = "look" /\ FeedsOK /\ setup.feed = "file"
      /\ UNCHANGED <<setup, source, feed, clock>>
  BY DEF LookAtFile, In, IdentityInv, CauseInv
<1>2. CASE threads' = [threads EXCEPT ![t].pc = "ask", ![t].at = clock,
                                      ![t].stat = source.mtime]
  <2>1. OthersWait(t) /\ threads'[t].pc = "ask"
    BY <1>1, <1>2 DEF IdentityInv, ThreadState, OthersWait
  <2> QED
    BY <1>1, <2>1, FeedsAside
<1>3. CASE ~Moved /\ Leave(t, threads[t].then)
  <2>1. threads[t].then \in {"stale", "lookup"} /\ "stale" \notin Resolved
    BY <1>1 DEF ThreadState, Resolved, Rejections
  <2>2. threads'[t].pc = threads[t].then /\ OthersWait(t)
        /\ (threads[t].then = "stale" => threads'[t].since = threads[t].since)
    BY <1>3, <2>1, LeaveIs DEF SameCall
  <2>3. ~source.up \/ source.mtime = feed.mtime
    BY <1>3 DEF Moved
  <2>4. source.mtime \in 0..clock /\ source.mtime # NoTime
    BY <1>1, Numbers DEF FeedsOK, FileMarked, NoTime
  <2>5. ~source.up \/ Read(source.mtime) \/ \E u \in Threads : In(u, "consume")
    BY <1>1, <2>3, <2>4 DEF FeedsOK, FileMarked
  <2>6. \A u \in Threads : In(u, "consume") => u # t
    BY <1>1 DEF In
  <2>7. PollAwaited(t)' /\ FileAwaited(t)'
    BY <1>1, <2>2, <2>5, <2>6 DEF PollAwaited, FileAwaited, In, OthersWait, Read, Down
  <2> QED
    BY <1>1, <2>2, <2>7, FeedsTurn
<1> QED
  BY <1>2, <1>3 DEF LookAtFile

LEMMA MarkPolledKeepsFeeds ==
    ASSUME IdentityInv, CauseInv, NEW t \in Threads, MarkPolled(t)
    PROVE  FeedsOK'
<1>1. /\ threads[t].pc = "polled" /\ OthersWait(t) /\ threads'[t].pc = "ask"
      /\ threads'[t].at = threads[t].at /\ FeedsOK
  BY TurnIs DEF MarkPolled, In, Resolved, Rejections, CauseInv
<1>2. /\ feed'.polledAt = threads[t].at /\ feed'.readAt = feed.readAt
      /\ feed'.mtime = feed.mtime /\ UNCHANGED <<setup, source, clock>>
  BY DEF MarkPolled, IdentityInv, Shared
<1>3. threads[t].at \in 0..clock
  BY <1>1, AskedLately DEF CauseInv, Asking
<1>4. PollMarked'
  BY <1>1, <1>2, <1>3, Numbers DEF PollMarked, Reading
<1>5. \A u \in Threads : (In(u, "consume") => In(u, "consume")')
                         /\ (Reading(u, 0) => Reading(u, 0)')
  BY <1>1 DEF In, Reading, OthersWait
<1>6. FileMarked'
  BY <1>1, <1>2, <1>5 DEF FeedsOK, FileMarked, Read
<1>7. ASSUME NEW u \in Threads PROVE PollAwaited(u)' /\ FileAwaited(u)'
  <2>1. CASE u = t
    BY <1>1, <2>1 DEF PollAwaited, FileAwaited, In
  <2>2. CASE u # t
    BY <1>1, <1>2, <1>5, <2>2 DEF PollAwaited, FileAwaited, In, OthersWait, FeedsOK, Read, Down
  <2> QED
    BY <2>1, <2>2
<1> QED
  BY <1>4, <1>6, <1>7 DEF FeedsOK

LEMMA MarkMovedKeepsFeeds ==
    ASSUME IdentityInv, CauseInv, NEW t \in Threads, MarkMoved(t)
    PROVE  FeedsOK'
<1>1. /\ threads[t].pc = "moved" /\ OthersWait(t) /\ threads'[t].pc = "consume" /\ FeedsOK
      /\ threads[t].stat <= clock
  BY TurnIs DEF MarkMoved, In, Resolved, Rejections, CauseInv, Ongoing
<1>2. /\ feed'.mtime = threads[t].stat /\ feed'.readAt = feed.readAt
      /\ feed'.polledAt = feed.polledAt /\ UNCHANGED <<setup, source, clock>>
  BY DEF MarkMoved, IdentityInv, Shared
<1>3. FileMarked'
  BY <1>1, <1>2 DEF FeedsOK, FileMarked, In
<1>4. \A u \in Threads : (In(u, "consume") => In(u, "consume")')
                         /\ \A m \in Int : Reading(u, m) => Reading(u, m)'
  BY <1>1 DEF In, Reading, OthersWait
<1>5. PollMarked'
  BY <1>1, <1>2, <1>4, Numbers DEF FeedsOK, PollMarked, Read, Down
<1>6. ASSUME NEW u \in Threads PROVE PollAwaited(u)' /\ FileAwaited(u)'
  <2>1. CASE u = t
    BY <1>1, <2>1 DEF PollAwaited, FileAwaited, In
  <2>2. CASE u # t
    BY <1>1, <1>2, <1>4, <2>2 DEF PollAwaited, FileAwaited, In, OthersWait, FeedsOK, Read, Down
  <2> QED
    BY <2>1, <2>2
<1> QED
  BY <1>3, <1>5, <1>6 DEF FeedsOK

LEMMA AskKeepsFeeds ==
    ASSUME IdentityInv, CauseInv, NEW t \in Threads, Ask(t)
    PROVE  FeedsOK'
<1>1. /\ threads[t] \in ThreadState /\ threads[t].pc = "ask" /\ FeedsOK
      /\ UNCHANGED <<setup, source, feed, clock>>
  BY DEF Ask, In, IdentityInv, CauseInv
<1>2. CASE /\ source.up
           /\ threads' = [threads EXCEPT
                  ![t].pc = IF setup.feed = "file" THEN "moved" ELSE "consume",
                  ![t].doc = source.listed]
  <2>1. /\ OthersWait(t) /\ threads'[t].at = threads[t].at
        /\ threads'[t].pc = IF setup.feed = "file" THEN "moved" ELSE "consume"
    BY <1>1, <1>2 DEF IdentityInv, ThreadState, OthersWait
  <2>2. PollAwaited(t)' /\ FileAwaited(t)'
    BY <2>1 DEF PollAwaited, FileAwaited, In
  <2> QED
    BY <1>1, <2>1, <2>2, FeedsTurn
<1>3. CASE ~source.up /\ Leave(t, threads[t].then)
  <2>1. OthersWait(t)
    BY <1>3, LeaveIs
  <2>2. PollAwaited(t)' /\ FileAwaited(t)'
    BY <1>1, <1>3 DEF PollAwaited, FileAwaited, Down
  <2> QED
    BY <1>1, <1>3, <2>1, <2>2, FeedsTurn
<1> QED
  BY <1>2, <1>3 DEF Ask

LEMMA ConsumeKeepsFeeds ==
    ASSUME IdentityInv, CauseInv, NEW t \in Threads, NEW c \in Credentials, Consume(t, c)
    PROVE  FeedsOK'
<1>1. /\ threads[t] \in ThreadState /\ threads[t].pc = "consume" /\ FeedsOK
      /\ UNCHANGED <<setup, source, clock>>
  BY DEF Consume, In, IdentityInv, CauseInv
<1>2. /\ OthersWait(t) /\ threads'[t].at = threads[t].at /\ threads'[t].pc = "consume"
      /\ feed'.readAt = feed.readAt /\ feed'.polledAt = feed.polledAt
      /\ feed'.mtime = feed.mtime
  BY <1>1 DEF Consume, IdentityInv, ThreadState, OthersWait, Shared
<1>3. PollAwaited(t)' /\ FileAwaited(t)'
  BY <1>2 DEF PollAwaited, FileAwaited, In
<1> QED
  BY <1>1, <1>2, <1>3, FeedsTurn

(* Whoever ends a read dates the feed late enough for every mark and every call. *)
LEMMA StampKeepsFeeds ==
    ASSUME IdentityInv, CauseInv, NEW t \in Threads, Stamp(t)
    PROVE  FeedsOK'
<1>1. /\ threads[t] \in ThreadState /\ threads[t].pc = "consume" /\ FeedsOK
      /\ UNCHANGED <<setup, source, clock>> /\ OthersWait(t)
  BY LeaveIs DEF Stamp, In, IdentityInv, CauseInv
<1>2. /\ feed'.readAt = (IF setup.feed = "file" THEN clock ELSE threads[t].at)
      /\ feed'.polledAt = feed.polledAt /\ feed'.mtime = feed.mtime
  BY DEF Stamp, IdentityInv, Shared
<1>3. threads[t].at \in 0..clock /\ clock - threads[t].at <= Slowness
  BY <1>1, AskedLately DEF CauseInv, Asking
<1>4. \A m \in Int : m <= clock - Slowness => Read(m)'
  BY <1>2, <1>3, Numbers, IdentityConstants DEF Read, NoTime
<1>5. \A m \in Int : setup.feed = "file" /\ m <= clock => Read(m)'
  BY <1>2, Numbers DEF Read, NoTime
<1>6. PollMarked'
  <2>1. feed.polledAt - Slowness \in Int /\ feed.polledAt - Slowness <= clock - Slowness
    BY <1>1, Numbers, IdentityConstants DEF FeedsOK, PollMarked
  <2> QED
    BY <1>1, <1>2, <1>4, <2>1 DEF FeedsOK, PollMarked, Read
<1>7. FileMarked'
  BY <1>1, <1>2, <1>5, Numbers DEF FeedsOK, FileMarked, Read
<1>8. ASSUME NEW u \in Threads, In(u, "stale")' PROVE PollAwaited(u)' /\ FileAwaited(u)'
  <2>1. threads'[u].since \in 0..clock
    <3>1. CASE u = t
      <4>1. threads'[t].since = threads[t].since
        BY <1>8, <3>1, LeaveIs DEF Stamp, In, SameCall, Resolved, Rejections
      <4> QED
        BY <1>1, <3>1, <4>1 DEF CauseInv, Ongoing, Resolved, Rejections
    <3>2. CASE u # t
      BY <1>1, <1>8, <3>2 DEF OthersWait, CauseInv, Ongoing, In, Resolved, Rejections
    <3> QED
      BY <3>1, <3>2
  <2>2. PollAwaited(u)'
    <3>1. LET m == threads'[u].since - PollInterval - Slowness + 1
          IN  m \in Int /\ m <= clock - Slowness
      BY <2>1, Numbers, IdentityConstants
    <3> QED
      BY <1>4, <3>1, IdentityConstants DEF PollAwaited, Read
  <2>3. FileAwaited(u)'
    BY <1>1, <1>5, Numbers DEF FileAwaited, FeedsOK, FileMarked, Read
  <2> QED
    BY <2>2, <2>3
<1> QED
  BY <1>6, <1>7, <1>8 DEF FeedsOK, PollAwaited, FileAwaited

LEMMA OutageKeepsFeeds ==
    ASSUME IdentityInv, CauseInv, GoesDownOrUp
    PROVE  FeedsOK'
<1>1. FeedsOK /\ UNCHANGED <<setup, feed, threads, clock>> /\ source'.mtime = source.mtime
  BY DEF CauseInv, GoesDownOrUp, IdentityInv, Shared
<1>2. PollMarked'
  <2>1. feed.polledAt \in Int /\ feed.polledAt <= clock
    BY <1>1, Numbers DEF FeedsOK, PollMarked
  <2>2. Down(feed.polledAt)'
    BY <1>1, <2>1, DownNow DEF Down
  <2> QED
    BY <1>1, <2>1, <2>2 DEF PollMarked
<1>3. FileMarked'
  BY <1>1 DEF FeedsOK, FileMarked, Read, In
<1>4. ASSUME NEW u \in Threads, In(u, "stale") PROVE PollAwaited(u)' /\ FileAwaited(u)'
  <2>1. threads[u].since \in 0..clock
    BY <1>4 DEF CauseInv, Ongoing, In, Resolved, Rejections
  <2>2. Down(threads[u].since - PollInterval)' /\ Down(threads[u].since)'
    BY <1>1, <2>1, DownNow, Numbers, IdentityConstants DEF Down
  <2> QED
    BY <1>1, <2>2 DEF PollAwaited, FileAwaited
<1> QED
  BY <1>1, <1>2, <1>3, <1>4 DEF FeedsOK, PollAwaited, FileAwaited, In

-----------------------------------------------------------------------------
(* Every step *)

LEMMA OngoingTurn ==
    ASSUME CauseInv, NEW t \in Threads, OthersWait(t), UNCHANGED <<setup, clock>>,
           Ongoing(threads'[t], clock)
    PROVE  \A u \in Threads : Ongoing(threads[u], clock)'
  BY DEF CauseInv, OthersWait, Ongoing

(* A call that goes on, or ends, arrived when it did. *)
LEMMA OngoingOn ==
    ASSUME IdentityInv, CauseInv, NEW t \in Threads, threads[t].pc \notin Resolved,
           threads'[t].pc \notin Resolved =>
               /\ SameCall(t)
               /\ threads'[t].stat <= clock
               /\ threads'[t].pc \in Asking =>
                      \/ threads[t].pc \in Asking /\ threads'[t].at = threads[t].at
                      \/ threads'[t].at = clock
               /\ threads'[t].pc \in Checking => setup.feed # "none"
    PROVE  Ongoing(threads'[t], clock)
<1>1. Ongoing(threads[t], clock) /\ clock \in Nat
  BY Numbers DEF CauseInv
<1> QED
  BY <1>1 DEF Ongoing, SameCall

LEMMA PresentKeepsCauses ==
    ASSUME IdentityInv, CauseInv, NEW t \in Threads, NEW c \in Credentials, Present(t, c)
    PROVE  CauseInv'
<1>1. /\ OthersWait(t) /\ threads'[t].pc = "key" /\ threads'[t].since = clock
      /\ threads'[t].stat = NoTime /\ threads[t].pc \in Resolved /\ KeysOK /\ FeedsOK
      /\ UNCHANGED <<setup, issuer, source, cache, feed, clock>>
  BY DEF Present, IdentityInv, OthersWait, NewThread, CauseInv
<1>2. KeysOK'
  BY <1>1, KeysAside DEF Resolved, Rejections
<1>3. FeedsOK'
  BY <1>1, FeedsAside DEF Resolved, Rejections
<1>4. Ongoing(threads'[t], clock)
  BY <1>1, Numbers DEF Ongoing, Asking, Checking, NoTime
<1> QED
  BY <1>1, <1>2, <1>3, <1>4, OngoingTurn DEF CauseInv

(* The turns of a call that looks for its key. *)
LEMMA KeyPhaseKeepsCauses ==
    ASSUME IdentityInv, CauseInv, NEW t \in Threads,
           FindKey(t) \/ DueFetch(t) \/ MarkFetched(t) \/ Fetch(t) \/ Install(t) \/ FindAgain(t)
    PROVE  CauseInv'
<1>1. /\ KeysOK /\ FeedsOK /\ UNCHANGED <<setup, issuer, source, feed, clock>>
      /\ threads[t] \in ThreadState /\ clock \in Nat
      /\ threads[t].pc \in {"key", "due", "mark", "fetch", "install", "again"}
      /\ Ongoing(threads[t], clock)
  BY Numbers
  DEF CauseInv, IdentityInv, FindKey, DueFetch, MarkFetched, Fetch, Install, FindAgain, In
<1>2. threads[t].pc \notin Resolved /\ threads[t].stat <= clock
  BY <1>1 DEF Ongoing, Resolved, Rejections
<1>3. Verified \in {"admitted", "look"} /\ (Verified = "look" => setup.feed # "none")
  BY DEF Verified
<1>4. CASE FindKey(t)
  <2>1. PICK pc \in {"admitted", "look", "due"} :
            Turn(t, pc) /\ (pc = "look" => setup.feed # "none")
    BY <1>3, <1>4 DEF FindKey
  <2>2. /\ OthersWait(t) /\ threads'[t].pc = pc
        /\ pc \notin Resolved => SameCall(t) /\ threads'[t].stat = threads[t].stat
    BY <2>1, TurnIs
  <2>3. UNCHANGED cache /\ threads[t].pc = "key"
    BY <1>4 DEF FindKey, In
  <2>4. KeysOK' /\ FeedsOK'
    BY <1>1, <2>1, <2>2, <2>3, KeysAside, FeedsAside
  <2>5. Ongoing(threads'[t], clock)
    BY <1>2, <2>1, <2>2, OngoingOn DEF Asking, Checking
  <2> QED
    BY <1>1, <2>2, <2>4, <2>5, OngoingTurn DEF CauseInv
<1>5. CASE DueFetch(t)
  <2>1. /\ OthersWait(t) /\ SameCall(t) /\ threads'[t].pc \in {"again", "mark"}
        /\ threads'[t].at = clock /\ threads'[t].stat = threads[t].stat
    BY <1>1, <1>5 DEF DueFetch, IdentityInv, ThreadState, OthersWait, SameCall
  <2>2. FeedsOK'
    BY <1>1, <2>1, FeedsAside
  <2>3. Ongoing(threads'[t], clock)
    BY <1>2, <2>1, OngoingOn DEF Asking, Checking
  <2> QED
    BY <1>1, <1>5, <2>1, <2>2, <2>3, OngoingTurn, DueFetchKeepsKeys DEF CauseInv
<1>6. CASE MarkFetched(t)
  <2>1. /\ OthersWait(t) /\ SameCall(t) /\ threads'[t].pc = "fetch"
        /\ threads'[t].at = threads[t].at /\ threads'[t].stat = threads[t].stat
        /\ threads[t].pc = "mark"
    BY <1>6, TurnIs DEF MarkFetched, Resolved, Rejections, In
  <2>2. FeedsOK'
    BY <1>1, <2>1, FeedsAside
  <2>3. Ongoing(threads'[t], clock)
    BY <1>2, <2>1, OngoingOn DEF Asking, Checking
  <2> QED
    BY <1>1, <1>6, <2>1, <2>2, <2>3, OngoingTurn, MarkFetchedKeepsKeys DEF CauseInv
<1>7. CASE Fetch(t)
  <2>1. /\ OthersWait(t) /\ threads[t].pc = "fetch"
        /\ \/ threads'[t].pc = "unknown"
           \/ /\ threads'[t].pc = "install" /\ SameCall(t)
              /\ threads'[t].at = threads[t].at /\ threads'[t].stat = threads[t].stat
    <3>1. CASE Leave(t, "unknown")
      BY <1>7, <3>1, LeaveIs DEF Fetch, In
    <3>2. CASE threads' = [threads EXCEPT ![t].pc = "install",
                                          ![t].doc = {k \in Kids : issuer[k] # NoTime}]
      BY <1>1, <1>7, <3>2 DEF Fetch, In, IdentityInv, ThreadState, OthersWait, SameCall
    <3> QED
      BY <1>7, <3>1, <3>2 DEF Fetch
  <2>2. FeedsOK'
    BY <1>1, <2>1, FeedsAside
  <2>3. Ongoing(threads'[t], clock)
    BY <1>2, <2>1, OngoingOn DEF Asking, Checking, Resolved, Rejections
  <2> QED
    BY <1>1, <1>7, <2>1, <2>2, <2>3, OngoingTurn, FetchKeepsKeys DEF CauseInv
<1>8. CASE Install(t)
  <2>1. /\ OthersWait(t) /\ SameCall(t) /\ threads'[t].pc = "again"
        /\ threads'[t].stat = threads[t].stat /\ threads[t].pc = "install"
    BY <1>8, TurnIs DEF Install, Resolved, Rejections, In
  <2>2. FeedsOK'
    BY <1>1, <2>1, FeedsAside
  <2>3. Ongoing(threads'[t], clock)
    BY <1>2, <2>1, OngoingOn DEF Asking, Checking
  <2> QED
    BY <1>1, <1>8, <2>1, <2>2, <2>3, OngoingTurn, InstallKeepsKeys DEF CauseInv
<1>9. CASE FindAgain(t)
  <2>1. PICK pc \in {"admitted", "look", "unknown"} :
            Leave(t, pc) /\ (pc = "look" => setup.feed # "none")
    BY <1>3, <1>9 DEF FindAgain
  <2>2. /\ OthersWait(t) /\ threads'[t].pc = pc
        /\ pc \notin Resolved => SameCall(t) /\ threads'[t].stat = NoTime
    BY <2>1, LeaveIs
  <2>3. UNCHANGED cache /\ threads[t].pc = "again"
    BY <1>9 DEF FindAgain, In
  <2>4. KeysOK' /\ FeedsOK'
    BY <1>1, <2>1, <2>2, <2>3, KeysAside, FeedsAside
  <2>5. Ongoing(threads'[t], clock)
    BY <1>1, <1>2, <2>1, <2>2, OngoingOn DEF Asking, Checking, NoTime
  <2> QED
    BY <1>1, <2>2, <2>4, <2>5, OngoingTurn DEF CauseInv
<1> QED
  BY <1>4, <1>5, <1>6, <1>7, <1>8, <1>9

(* The turns of a call that asks a feed. *)
LEMMA FeedPhaseKeepsCauses ==
    ASSUME IdentityInv, CauseInv, NEW t \in Threads,
           \/ LookAtInterval(t) \/ MarkPolled(t) \/ LookAtFile(t) \/ Ask(t) \/ MarkMoved(t)
           \/ \E c \in Credentials : Consume(t, c)
           \/ Stamp(t) \/ CheckStale(t) \/ LookUp(t)
    PROVE  CauseInv'
<1>1. /\ KeysOK /\ FeedsOK /\ UNCHANGED <<setup, issuer, source, cache, clock>>
      /\ threads[t] \in ThreadState /\ clock \in Nat /\ threads[t].pc \in Checking
      /\ Ongoing(threads[t], clock) /\ source.mtime <= clock
  BY Numbers
  DEF CauseInv, FeedsOK, FileMarked, IdentityInv, LookAtInterval, MarkPolled, LookAtFile, Ask,
      MarkMoved, Consume, Stamp, CheckStale, LookUp, In, Checking
<1>2. /\ threads[t].pc \notin Resolved /\ threads[t].stat <= clock /\ setup.feed # "none"
      /\ threads[t].then \in {"stale", "lookup"} /\ "lookup" \notin Resolved
      /\ "stale" \notin Resolved /\ NoTime <= clock
  BY <1>1 DEF Ongoing, Resolved, Rejections, Checking, ThreadState, NoTime
<1>3. /\ OthersWait(t)
      /\ threads'[t].pc \in {"polled", "ask", "moved", "consume", "look", "stale", "lookup"}
                                \cup Resolved
      /\ Ongoing(threads'[t], clock)
  <2>1. ASSUME NEW pc \in {"stale", "lookup"}, Leave(t, pc)
        PROVE  OthersWait(t) /\ threads'[t].pc = pc /\ Ongoing(threads'[t], clock)
    <3>1. OthersWait(t) /\ threads'[t].pc = pc /\ SameCall(t) /\ threads'[t].stat = NoTime
      BY <1>2, <2>1, LeaveIs
    <3> QED
      BY <1>2, <3>1, OngoingOn DEF Asking
  <2>2. ASSUME NEW pc \in {"ask", "consume"}, Turn(t, pc), threads[t].pc \in {"polled", "moved"}
        PROVE  OthersWait(t) /\ threads'[t].pc = pc /\ Ongoing(threads'[t], clock)
    <3>1. /\ OthersWait(t) /\ threads'[t].pc = pc /\ SameCall(t)
          /\ threads'[t].stat = threads[t].stat /\ threads'[t].at = threads[t].at
      BY <2>2, TurnIs DEF Resolved, Rejections
    <3> QED
      BY <1>2, <2>2, <3>1, OngoingOn DEF Asking
  <2>3. ASSUME NEW pc \in Resolved, Turn(t, pc)
        PROVE  OthersWait(t) /\ threads'[t].pc = pc /\ Ongoing(threads'[t], clock)
    BY <2>3, TurnIs DEF Ongoing
  <2>4. CASE LookAtInterval(t)
    <3>1. CASE Leave(t, threads[t].then)
      BY <1>2, <2>1, <3>1
    <3>2. CASE threads' = [threads EXCEPT ![t].pc = "polled", ![t].at = clock]
      <4>1. /\ OthersWait(t) /\ SameCall(t) /\ threads'[t].pc = "polled"
            /\ threads'[t].at = clock /\ threads'[t].stat = threads[t].stat
        BY <1>1, <3>2 DEF IdentityInv, ThreadState, OthersWait, SameCall
      <4> QED
        BY <1>2, <4>1, OngoingOn
    <3> QED
      BY <2>4, <3>1, <3>2 DEF LookAtInterval
  <2>5. CASE LookAtFile(t)
    <3>1. CASE Leave(t, threads[t].then)
      BY <1>2, <2>1, <3>1
    <3>2. CASE threads' = [threads EXCEPT ![t].pc = "ask", ![t].at = clock,
                                          ![t].stat = source.mtime]
      <4>1. /\ OthersWait(t) /\ SameCall(t) /\ threads'[t].pc = "ask"
            /\ threads'[t].at = clock /\ threads'[t].stat = source.mtime
        BY <1>1, <3>2 DEF IdentityInv, ThreadState, OthersWait, SameCall
      <4> QED
        BY <1>1, <1>2, <4>1, OngoingOn
    <3> QED
      BY <2>5, <3>1, <3>2 DEF LookAtFile
  <2>6. CASE Ask(t)
    <3>1. CASE Leave(t, threads[t].then)
      BY <1>2, <2>1, <3>1
    <3>2. CASE threads' = [threads EXCEPT
                   ![t].pc = IF setup.feed = "file" THEN "moved" ELSE "consume",
                   ![t].doc = source.listed]
      <4>1. /\ OthersWait(t) /\ SameCall(t) /\ threads'[t].pc \in {"moved", "consume"}
            /\ threads'[t].at = threads[t].at /\ threads'[t].stat = threads[t].stat
            /\ threads[t].pc \in Asking
        BY <1>1, <2>6, <3>2
        DEF Ask, In, IdentityInv, ThreadState, OthersWait, SameCall, Asking
      <4> QED
        BY <1>2, <4>1, OngoingOn
    <3> QED
      BY <2>6, <3>1, <3>2 DEF Ask
  <2>7. ASSUME NEW c \in Credentials, Consume(t, c)
        PROVE  OthersWait(t) /\ threads'[t].pc = "consume" /\ Ongoing(threads'[t], clock)
    <3>1. /\ OthersWait(t) /\ SameCall(t) /\ threads'[t].pc = "consume"
          /\ threads'[t].at = threads[t].at /\ threads'[t].stat = threads[t].stat
          /\ threads[t].pc \in Asking
      BY <1>1, <2>7 DEF Consume, In, IdentityInv, ThreadState, OthersWait, SameCall, Asking
    <3> QED
      BY <1>2, <3>1, OngoingOn
  <2>8. CASE CheckStale(t)
    <3>1. CASE Turn(t, "outdated")
      BY <2>3, <3>1 DEF Resolved, Rejections
    <3>2. CASE threads' = [threads EXCEPT ![t].pc = "look", ![t].then = "lookup",
                                          ![t].since = clock]
      <4>1. /\ OthersWait(t) /\ threads'[t].pc = "look" /\ threads'[t].since = clock
            /\ threads'[t].stat = threads[t].stat
        BY <1>1, <3>2 DEF IdentityInv, ThreadState, OthersWait
      <4> QED
        BY <1>1, <1>2, <4>1 DEF Ongoing, Asking
    <3> QED
      BY <2>8, <3>1, <3>2 DEF CheckStale
  <2>9. CASE LookUp(t)
    <3>1. PICK pc \in Resolved : Turn(t, pc)
      BY <2>9 DEF LookUp, Resolved, Rejections
    <3> QED
      BY <2>3, <3>1
  <2> QED
    BY <1>2, <2>1, <2>2, <2>4, <2>5, <2>6, <2>7, <2>8, <2>9 DEF MarkPolled, MarkMoved, Stamp, In
<1>4. KeysOK'
  BY <1>1, <1>3, KeysAside DEF Checking, Resolved, Rejections
<1>5. FeedsOK'
  <2>1. CASE CheckStale(t) \/ LookUp(t)
    <3>1. /\ threads[t].pc \notin {"ask", "consume"} /\ threads'[t].pc # "stale"
          /\ UNCHANGED feed
      <4>1. CASE LookUp(t)
        BY <4>1, TurnIs DEF LookUp, In
      <4>2. CASE CheckStale(t) /\ Turn(t, "outdated")
        BY <4>2, TurnIs DEF CheckStale, In
      <4>3. CASE /\ CheckStale(t)
                 /\ threads' = [threads EXCEPT ![t].pc = "look", ![t].then = "lookup",
                                               ![t].since = clock]
        BY <1>1, <4>3 DEF CheckStale, In, IdentityInv, ThreadState
      <4> QED
        BY <2>1, <4>1, <4>2, <4>3 DEF CheckStale
    <3> QED
      BY <1>1, <1>3, <3>1, FeedsAside
  <2> QED
    BY <2>1, LookAtIntervalKeepsFeeds, LookAtFileKeepsFeeds, MarkPolledKeepsFeeds,
       MarkMovedKeepsFeeds, AskKeepsFeeds, ConsumeKeepsFeeds, StampKeepsFeeds
<1> QED
  BY <1>1, <1>3, <1>4, <1>5, OngoingTurn DEF CauseInv

LEMMA CauseInit == IdentityInit => CauseInv
<1> SUFFICES ASSUME IdentityInit PROVE CauseInv
  OBVIOUS
<1>1. /\ \A t \in Threads : threads[t].pc = "new"
      /\ cache.fetchedAt = NoTime /\ feed.polledAt = NoTime /\ clock = 0 /\ source.mtime = 0
      /\ feed.mtime = feed.readAt /\ feed.readAt \in {0, NoTime}
  <2>1. PICK up \in BOOLEAN :
            /\ source = [revoked |-> [c \in Credentials |-> NoTime], listed |-> {},
                         mtime |-> 0, up |-> up, downAt |-> IF up THEN NoTime ELSE 0]
            /\ LET read == IF up /\ setup.feed = "file" THEN 0 ELSE NoTime
               IN feed = [revoked |-> {}, readAt |-> read, mtime |-> read, polledAt |-> NoTime]
    BY DEF IdentityInit
  <2> QED
    BY <2>1 DEF IdentityInit, NewThread
<1>2. KeysOK
  BY <1>1 DEF KeysOK, KeyMarked, Carried, KeyAwaited, In, NoTime
<1>3. FeedsOK
  BY <1>1 DEF FeedsOK, PollMarked, FileMarked, PollAwaited, FileAwaited, In, Read, NoTime
<1> QED
  BY <1>1, <1>2, <1>3 DEF CauseInv, Ongoing, Resolved

(* Time passes, and the source is written. *)
LEMMA WorldKeepsCauses ==
    ASSUME IdentityInv, CauseInv, UNCHANGED <<setup, issuer, cache, feed, threads>>,
           clock' \in Nat, clock' >= clock, source'.mtime \in {source.mtime, clock},
           source'.up = source.up, source'.downAt = source.downAt
    PROVE  CauseInv'
<1>1. KeysOK' /\ FeedsOK'
  BY KeysStay, FeedsStay DEF CauseInv
<1>2. \A t \in Threads : Ongoing(threads[t], clock)'
  BY Numbers, CallNumbers DEF CauseInv, Ongoing
<1> QED
  BY <1>1, <1>2 DEF CauseInv

LEMMA CauseStep == IdentityInv /\ CauseInv /\ [IdentityNext]_identityVars => CauseInv'
<1> SUFFICES ASSUME IdentityInv, CauseInv, [IdentityNext]_identityVars PROVE CauseInv'
  OBVIOUS
<1>1. ASSUME NEW t \in Threads, NEW c \in Credentials, Present(t, c) PROVE CauseInv'
  BY <1>1, PresentKeepsCauses
<1>2. ASSUME NEW t \in Threads, Resolves(t) PROVE CauseInv'
  BY <1>2, KeyPhaseKeepsCauses, FeedPhaseKeepsCauses DEF Resolves
<1>3. ASSUME NEW k \in Kids, Rotates(k) PROVE CauseInv'
  <2>1. FeedsOK'
    BY <1>3, Numbers, FeedsStay DEF Rotates
  <2> QED
    BY <1>3, <2>1, RotatesKeepsKeys DEF Rotates, CauseInv, Ongoing
<1>4. ASSUME NEW c \in Credentials, RevokesCredential(c) PROVE CauseInv'
  <2>1. /\ source'.mtime \in {source.mtime, clock} /\ source'.up = source.up
        /\ source'.downAt = source.downAt
    BY <1>4 DEF RevokesCredential, Written, IdentityInv, Shared
  <2> QED
    BY <1>4, <2>1, Numbers, WorldKeepsCauses DEF RevokesCredential
<1>5. CASE RewritesSource
  <2>1. /\ source'.mtime \in {source.mtime, clock} /\ source'.up = source.up
        /\ source'.downAt = source.downAt
    BY <1>5 DEF RewritesSource, Written, IdentityInv, Shared
  <2> QED
    BY <1>5, <2>1, Numbers, WorldKeepsCauses DEF RewritesSource
<1>6. CASE GoesDownOrUp
  BY <1>6, OutageKeepsKeys, OutageKeepsFeeds DEF GoesDownOrUp, CauseInv, Ongoing
<1>7. CASE ClockTicks
  BY <1>7, Numbers, WorldKeepsCauses DEF ClockTicks
<1>8. CASE UNCHANGED identityVars
  BY <1>8, Numbers, WorldKeepsCauses DEF identityVars
<1> QED
  BY <1>1, <1>2, <1>3, <1>4, <1>5, <1>6, <1>7, <1>8 DEF IdentityNext

-----------------------------------------------------------------------------
(* The two ways to be turned away that are not a revocation *)

(* One thread takes the step that turns its call away. *)
LEMMA OwnStep ==
    ASSUME IdentityInv, IdentityNext, NEW t \in Threads, threads'[t].pc # threads[t].pc
    PROVE  Resolves(t) \/ \E c \in Credentials : Present(t, c)
<1>1. PICK u \in Threads : Resolves(u) \/ \E c \in Credentials : Present(u, c)
  BY DEF IdentityNext, Rotates, RevokesCredential, RewritesSource, GoesDownOrUp, ClockTicks
<1>2. u = t
  BY <1>1
  DEF IdentityInv, Resolves, Present, FindKey, DueFetch, MarkFetched, Fetch, Install, FindAgain,
      LookAtInterval, MarkPolled, LookAtFile, Ask, MarkMoved, Consume, Stamp, CheckStale, LookUp,
      Turn, Leave
<1> QED
  BY <1>1, <1>2

LEMMA OnlyStaleOutdates ==
    ASSUME IdentityInv, IdentityNext, NEW t \in Threads, In(t, "stale"), In(t, "outdated")'
    PROVE  Stale
<1>1. threads[t].pc = "stale" /\ threads'[t].pc = "outdated" /\ threads[t] \in ThreadState
  BY DEF In, IdentityInv
<1>2. CheckStale(t)
  BY <1>1, OwnStep
  DEF Resolves, Present, FindKey, DueFetch, MarkFetched, Fetch, Install, FindAgain,
      LookAtInterval, MarkPolled, LookAtFile, Ask, MarkMoved, Consume, Stamp, LookUp, In,
      Resolved, Rejections
<1>3. ~(threads' = [threads EXCEPT ![t].pc = "look", ![t].then = "lookup", ![t].since = clock])
  BY <1>1 DEF IdentityInv, ThreadState
<1> QED
  BY <1>2, <1>3 DEF CheckStale

LEMMA OnlyKeysAreUnknown ==
    ASSUME IdentityInv, CauseInv, IdentityNext, NEW t \in Threads,
           ~In(t, "unknown"), In(t, "unknown")'
    PROVE  \/ ~source.up
           \/ In(t, "again") /\ KidOf[Cred(t)] \notin cache.keys
<1>1. /\ threads[t].pc # "unknown" /\ threads'[t].pc = "unknown" /\ threads[t] \in ThreadState
      /\ threads[t].then \in {"stale", "lookup"}
  BY DEF In, IdentityInv, ThreadState
<1>2. \A pc : Turn(t, pc) \/ Leave(t, pc) => pc = "unknown"
  BY <1>1, TurnIs, LeaveIs
<1>3. Verified # "unknown" /\ threads[t].then # "unknown"
  BY <1>1 DEF Verified
<1>4. ~Present(t, Cred(t)) /\ \A c \in Credentials : ~Present(t, c)
  BY <1>1 DEF Present, IdentityInv, NewThread
<1>5. Resolves(t)
  BY <1>1, <1>4, OwnStep
<1>6. ~FindKey(t) /\ ~MarkFetched(t) /\ ~Install(t) /\ ~MarkPolled(t) /\ ~MarkMoved(t)
      /\ ~Stamp(t) /\ ~LookUp(t)
  BY <1>2, <1>3 DEF FindKey, MarkFetched, Install, MarkPolled, MarkMoved, Stamp, LookUp
<1>7. ~DueFetch(t) /\ ~LookAtInterval(t) /\ ~LookAtFile(t) /\ ~Ask(t) /\ ~CheckStale(t)
      /\ \A c \in Credentials : ~Consume(t, c)
  BY <1>1, <1>2, <1>3
  DEF DueFetch, LookAtInterval, LookAtFile, Ask, CheckStale, Consume, IdentityInv, ThreadState, In
<1>8. CASE Fetch(t)
  BY <1>1, <1>8 DEF Fetch, IdentityInv, ThreadState
<1>9. CASE FindAgain(t)
  BY <1>2, <1>3, <1>9 DEF FindAgain, Known
<1> QED
  BY <1>5, <1>6, <1>7, <1>8, <1>9 DEF Resolves

(* Whoever is in the middle of a look at a source has looked at the clock. *)
LEMMA AskersTrouble ==
    ASSUME IdentityInv, CauseInv, NEW t \in Threads, NEW u \in Threads \ {t},
           threads[u].pc \in {"fetch", "install", "ask", "consume"}, NEW interval
    PROVE  Troubled(t, interval)
<1>1. threads[u].at # NoTime
  BY AskedLately, Numbers DEF CauseInv, Asking, NoTime
<1> QED
  BY <1>1 DEF Troubled

LEMMA OutdatedForCause ==
    ASSUME IdentityInv, CauseInv, NEW t \in Threads, In(t, "stale"), Stale, Patient,
           clock - threads[t].since <= Slowness, ~Troubled(t, PollInterval)
    PROVE  /\ setup.feed = "file"
           /\ source.mtime >= threads[t].since \/ clock - source.mtime >= MaxStaleness
<1>1. /\ threads[t].since \in 0..clock /\ setup.feed \in {"poll", "file"}
      /\ PollAwaited(t) /\ FileAwaited(t) /\ source.mtime \in 0..clock
  BY Numbers
  DEF CauseInv, Ongoing, In, Resolved, Rejections, Checking, FeedsOK, FileMarked
<1>2. ~Down(threads[t].since - PollInterval) /\ ~Down(threads[t].since)
  BY <1>1, Numbers, IdentityConstants DEF Troubled, Down
<1>3. \A u \in Threads \ {t} : ~In(u, "consume") /\ ~Reading(u, 0)
  BY AskersTrouble DEF In, Reading
<1>4. \A m \in Int : Read(m) => m <= feed.readAt /\ clock - feed.readAt > MaxStaleness
  BY Numbers DEF Stale, Read
<1>5. setup.feed # "poll"
  <2>1. threads[t].since - PollInterval - Slowness + 1 \in Int
    BY <1>1, IdentityConstants
  <2>2. ~Read(threads[t].since - PollInterval - Slowness + 1)
    BY <1>1, <1>4, <2>1, Numbers, IdentityConstants DEF Patient
  <2> QED
    BY <1>1, <1>2, <1>3, <2>2 DEF PollAwaited
<1>6. source.mtime < threads[t].since => clock - source.mtime >= MaxStaleness
  <2>1. source.mtime < threads[t].since => Read(source.mtime)
    BY <1>1, <1>2, <1>3, <1>5 DEF FileAwaited
  <2> QED
    BY <1>1, <1>4, <2>1, Numbers, IdentityConstants
<1> QED
  BY <1>1, <1>5, <1>6

LEMMA UnknownForCause ==
    ASSUME IdentityInv, CauseInv, NEW t \in Threads, In(t, "again"),
           KidOf[Cred(t)] \notin cache.keys, ~Troubled(t, MinRefresh),
           issuer[KidOf[Cred(t)]] # NoTime
    PROVE  issuer[KidOf[Cred(t)]] >= threads[t].since - MinRefresh - Slowness
<1>1. /\ threads[t].since \in 0..clock /\ KeyAwaited(t) /\ KidOf[Cred(t)] \in Kids
  BY CallNumbers DEF CauseInv, Ongoing, In, Resolved, Rejections, KeysOK
<1>2. ~Down(threads[t].since - MinRefresh)
  BY DEF Troubled, Down
<1>3. \A u \in Threads \ {t} : ~Fetching(u, issuer[KidOf[Cred(t)]] + 1)
  BY AskersTrouble DEF Fetching
<1>4. ~(issuer[KidOf[Cred(t)]] < threads[t].since - MinRefresh - Slowness)
  BY <1>1, <1>2, <1>3 DEF KeyAwaited
<1> QED
  BY <1>1, <1>4, Numbers, IdentityConstants

(* A good credential is turned away only while its source is failing or asked by  *)
(* another thread, its key is young, or its file old: a feed recovers from every  *)
(* outage and a new key is found behind any stream of unknown ids                 *)
(* (_check_revocation, _refresh).                                                 *)
THEOREM TurnedAwayIsForCause == IdentitySpec => TurnedAwayForCause
<1>1. ASSUME IdentityInv, CauseInv, IdentityNext, NEW t \in Threads,
             clock - threads[t].since <= Slowness, Patient, In(t, "stale"), In(t, "outdated")',
             ~Troubled(t, PollInterval)
      PROVE  /\ setup.feed = "file"
             /\ source.mtime >= threads[t].since \/ clock - source.mtime >= MaxStaleness
  BY <1>1, OnlyStaleOutdates, OutdatedForCause
<1>2. ASSUME IdentityInv, CauseInv, IdentityNext, NEW t \in Threads,
             ~In(t, "unknown"), In(t, "unknown")', ~Troubled(t, MinRefresh),
             issuer[KidOf[Cred(t)]] # NoTime
      PROVE  issuer[KidOf[Cred(t)]] >= threads[t].since - MinRefresh - Slowness
  BY <1>2, OnlyKeysAreUnknown, UnknownForCause DEF Troubled
<1>3. IdentityInv /\ CauseInv /\ [IdentityNext]_identityVars =>
          [\A t \in Threads : clock - threads[t].since <= Slowness =>
              /\ Patient /\ In(t, "stale") /\ In(t, "outdated")' =>
                    \/ Troubled(t, PollInterval)
                    \/ /\ setup.feed = "file"
                       /\ source.mtime >= threads[t].since \/ clock - source.mtime >= MaxStaleness
              /\ ~In(t, "unknown") /\ In(t, "unknown")' =>
                    \/ Troubled(t, MinRefresh)
                    \/ issuer[KidOf[Cred(t)]] = NoTime
                    \/ issuer[KidOf[Cred(t)]] >=
                           threads[t].since - MinRefresh - Slowness]_identityVars
  BY <1>1, <1>2
<1> QED
  BY <1>3, InitInv, StepInv, CauseInit, CauseStep, PTL DEF IdentitySpec, TurnedAwayForCause
=============================================================================
