-------------------------- MODULE EffectStore_proofs --------------------------
(***************************************************************************)
(* The safety of the store, for every number of keys, actions, approvals   *)
(* and attempts, every budget, every lease length and every clock lag.     *)
(*                                                                         *)
(* A step does one of five things to the effect records and the ledger,    *)
(* whichever of the methods it is (StepKinds); each fact is proved kind by *)
(* kind.  RecordsAgree is inductive beside TypeOK.  ChargesFollowEffects   *)
(* is inductive beside both: a free key holds no charge, because a record  *)
(* that is new has no attempt to charge and one that FAILED has given its  *)
(* charges back.  The rest follows from it: the charge of a new attempt is *)
(* the first row with that number, and the charges a key holds are those   *)
(* of its latest attempt, which is what the promise calls `charged`.       *)
(***************************************************************************)
EXTENDS EffectStore, FiniteSetTheorems, TLAPS

-----------------------------------------------------------------------------
(* The helpers stay inside their types. *)

(* A record that moves on is a record (_transitioned). *)
LEMMA TransitionedType ==
    ASSUME NEW r \in EffectRecord, NEW s \in EffectStates
    PROVE  Transitioned(r, s) \in EffectRecord
  BY DEF Transitioned, EffectRecord

(* A won reservation writes a record (_reserved). *)
LEMMA ReservedType ==
    ASSUME NEW r \in EffectRecord, NEW a \in Actions, NEW t \in Nat
    PROVE  Reserved(r, a, t) \in EffectRecord
  BY StoreConstants DEF Reserved, EffectRecord, EffectStates, Unfinished, NoResolver, NoLease

(* A transaction reads a time that has been (the clock is read before the lock). *)
LEMMA ReadingsType ==
    ASSUME now \in Nat, NEW t \in Readings
    PROVE  t \in Nat /\ t <= now
  BY DEF Readings

(* What one reservation charges is a set of ledger rows (_charge_locked). *)
LEMMA RowsType ==
    ASSUME NEW h \in Hashes, NEW k \in Keys, NEW n \in Nat, NEW t \in Nat
    PROVE  Rows(h, k, n, t) \subseteq Consumption
<1> SUFFICES ASSUME NEW l \in Lines
             PROVE  [line |-> l, key |-> k, attempt |-> n, amount |-> Cost[h][l],
                     at |-> t, held |-> TRUE] \in Consumption
  BY DEF Rows
<1>1. Cost[h] \in [Lines -> Nat]
  BY StoreConstants
<1>2. Cost[h][l] \in Nat
  BY <1>1
<1> QED
  BY <1>2 DEF Consumption

(* A release keeps every row, and touches nothing of it but the flag. *)
LEMMA ReleasedType ==
    ASSUME ledger \subseteq Consumption, NEW k \in Keys
    PROVE  ReleasedFor(k) \subseteq Consumption
  BY DEF ReleasedFor, Consumption

-----------------------------------------------------------------------------
(* Type correctness *)

LEMMA InitType == Init => TypeOK
  BY StoreConstants
  DEF Init, TypeOK, NoRecord, EffectRecord, EffectStates, NoLease, NoResolver, NoRequest,
      ApprovalRecord, ApprovalStatus, Continuation

LEMMA ApprovalStepType ==
    ASSUME TypeOK, NEW id \in Approvals, ApprovalStep(id)
    PROVE  TypeOK'
<1>1. ASSUME NEW h \in Hashes, NEW n \in 1..MaxNeeded, PutApprovalRequest(id, h, n)
      PROVE  TypeOK'
  BY <1>1, StoreConstants DEF TypeOK, PutApprovalRequest, ApprovalRecord, ApprovalStatus
<1>2. ASSUME NEW v \in Principals \cup {Nobody}, GrantApproval(id, v)
      PROVE  TypeOK'
  <2>1. AnswersWith(approvals[id], v) \in SUBSET Principals
    BY DEF TypeOK, AnswersWith, ApprovalRecord
  <2> QED
    BY <1>2, <2>1 DEF TypeOK, GrantApproval, ApprovalRecord, ApprovalStatus
<1>3. ASSUME NEW v \in Principals \cup {Nobody}, DenyApproval(id, v)
      PROVE  TypeOK'
  <2>1. AnswersWith(approvals[id], v) \in SUBSET Principals
    BY DEF TypeOK, AnswersWith, ApprovalRecord
  <2> QED
    BY <1>3, <2>1 DEF TypeOK, DenyApproval, ApprovalRecord, ApprovalStatus
<1>4. ASSUME ExpireApproval(id)
      PROVE  TypeOK'
  BY <1>4 DEF TypeOK, ExpireApproval, ApprovalRecord, ApprovalStatus
<1>5. ASSUME NEW h \in Hashes, ConsumeApproval(id, h)
      PROVE  TypeOK'
  BY <1>5 DEF TypeOK, ConsumeApproval, ApprovalRecord, ApprovalStatus
<1> QED
  BY <1>1, <1>2, <1>3, <1>4, <1>5 DEF ApprovalStep

LEMMA TakeKeyType ==
    ASSUME TypeOK, NEW k \in Keys, NEW a \in Actions, NEW h \in Hashes, NEW t \in Nat,
           TakeKey(k, a, h, t)
    PROVE  effects' \in [Keys -> EffectRecord] /\ ledger' \subseteq Consumption
<1>1. effects[k] \in EffectRecord /\ effects[k].attempt + 1 \in Nat
  BY DEF TypeOK, EffectRecord
<1>2. Reserved(effects[k], a, t) \in EffectRecord
  BY <1>1, ReservedType
<1>3. Rows(h, k, effects[k].attempt + 1, t) \subseteq Consumption
  BY <1>1, RowsType
<1> QED
  BY <1>2, <1>3 DEF TakeKey, TypeOK

LEMMA HolderStepType ==
    ASSUME TypeOK, NEW k \in Keys, NEW a \in Actions, HolderStep(k, a)
    PROVE  TypeOK'
<1> DEFINE r == effects[k]
<1>0. r \in EffectRecord
  BY DEF TypeOK
<1>1. ASSUME NEW h \in Hashes, ReserveEffect(k, a, h)
      PROVE  TypeOK'
  <2>1. PICK t \in Readings : TakeKey(k, a, h, t)
    BY <1>1 DEF ReserveEffect
  <2>2. t \in Nat
    BY ReadingsType DEF TypeOK
  <2>3. effects' \in [Keys -> EffectRecord] /\ ledger' \subseteq Consumption
    BY <2>1, <2>2, TakeKeyType
  <2> QED
    BY <1>1, <2>3 DEF ReserveEffect, TypeOK
<1>2. ASSUME NEW h \in Hashes, NEW id \in Approvals, ConsumeApprovalAndReserve(id, k, a, h)
      PROVE  TypeOK'
  <2>1. PICK t \in Readings : TakeKey(k, a, h, t)
    BY <1>2 DEF ConsumeApprovalAndReserve
  <2>2. t \in Nat
    BY ReadingsType DEF TypeOK
  <2>3. effects' \in [Keys -> EffectRecord] /\ ledger' \subseteq Consumption
    BY <2>1, <2>2, TakeKeyType
  <2>4. approvals' \in [Approvals -> ApprovalRecord]
    BY <1>2 DEF ConsumeApprovalAndReserve, TypeOK, ApprovalRecord, ApprovalStatus
  <2> QED
    BY <1>2, <2>3, <2>4 DEF ConsumeApprovalAndReserve, TypeOK
<1>3. ASSUME BeginExecution(k, a)
      PROVE  TypeOK'
  <2>1. Transitioned(r, "executing") \in EffectRecord
    BY <1>0, TransitionedType DEF EffectStates, Unfinished
  <2> QED
    BY <1>3, <2>1 DEF BeginExecution, TypeOK
<1>4. ASSUME CommitEffect(k, a)
      PROVE  TypeOK'
  <2>1. Transitioned(r, "committed") \in EffectRecord
    BY <1>0, TransitionedType DEF EffectStates, Resolutions
  <2> QED
    BY <1>4, <2>1 DEF CommitEffect, TypeOK
<1>5. ASSUME FailEffect(k, a)
      PROVE  TypeOK'
  <2>1. Transitioned(r, "failed") \in EffectRecord
    BY <1>0, TransitionedType DEF EffectStates, Resolutions
  <2> QED
    BY <1>5, <2>1, ReleasedType DEF FailEffect, TypeOK
<1>6. ASSUME MarkAmbiguous(k, a)
      PROVE  TypeOK'
  <2>1. Transitioned(r, "ambiguous") \in EffectRecord
    BY <1>0, TransitionedType DEF EffectStates
  <2> QED
    BY <1>6, <2>1 DEF MarkAmbiguous, TypeOK
<1>7. ASSUME NEW until \in 0..(now + SuspendTimeout), ExtendLease(k, a, until)
      PROVE  TypeOK'
  <2>1. until \in Nat
    BY StoreConstants DEF TypeOK
  <2> QED
    BY <1>0, <1>7, <2>1 DEF ExtendLease, TypeOK, EffectRecord
<1>8. ASSUME NEW c \in Tokens, HoldContinuation(k, a, c)
      PROVE  TypeOK'
  <2>1. PICK t \in Readings : effects' = [effects EXCEPT ![k].lease = t + SuspendTimeout]
    BY <1>8 DEF HoldContinuation
  <2>2. t + SuspendTimeout \in Nat
    BY ReadingsType, StoreConstants DEF TypeOK
  <2>3. effects' \in [Keys -> EffectRecord]
    BY <1>0, <2>1, <2>2 DEF TypeOK, EffectRecord
  <2> QED
    BY <1>8, <2>3 DEF HoldContinuation, TypeOK, Continuation
<1> QED
  BY <1>1, <1>2, <1>3, <1>4, <1>5, <1>6, <1>7, <1>8 DEF HolderStep

LEMMA KeyStepType ==
    ASSUME TypeOK, NEW k \in Keys, KeyStep(k)
    PROVE  TypeOK'
<1> DEFINE r == effects[k]
<1>0. r \in EffectRecord
  BY DEF TypeOK
<1>1. ASSUME AmbiguateLapsed(k)
      PROVE  TypeOK'
  <2>1. Transitioned(r, "ambiguous") \in EffectRecord
    BY <1>0, TransitionedType DEF EffectStates
  <2> QED
    BY <1>1, <2>1 DEF AmbiguateLapsed, TypeOK
<1>2. ASSUME NEW s \in Resolutions, NEW who \in Resolvers, ResolveEffect(k, s, who)
      PROVE  TypeOK'
  <2>1. Transitioned(r, s) \in EffectRecord
    BY <1>0, TransitionedType DEF EffectStates
  <2>2. [Transitioned(r, s) EXCEPT !.resolvedBy = who] \in EffectRecord
    BY <2>1 DEF EffectRecord
  <2> QED
    BY <1>2, <2>2, ReleasedType DEF ResolveEffect, TypeOK
<1>3. ASSUME NEW c \in Tokens, TakeContinuation(k, c)
      PROVE  TypeOK'
  BY <1>3 DEF TakeContinuation, TypeOK, Continuation
<1> QED
  BY <1>1, <1>2, <1>3 DEF KeyStep

(* Every step of the store keeps its tables in their shape. *)
LEMMA NextType == TypeOK /\ [Next]_vars => TypeOK'
<1> SUFFICES ASSUME TypeOK, [Next]_vars PROVE TypeOK'
  OBVIOUS
<1>1. CASE UNCHANGED vars
  BY <1>1 DEF TypeOK, vars
<1>2. CASE Next
  <2>1. CASE Tick
    BY <2>1 DEF Tick, TypeOK
  <2> QED
    BY <1>2, <2>1, ApprovalStepType, HolderStepType, KeyStepType DEF Next
<1> QED
  BY <1>1, <1>2

(* Every record has the shape the tables of the store give it. *)
THEOREM TypeCorrect == Spec => []TypeOK
  BY InitType, NextType, PTL DEF Spec

-----------------------------------------------------------------------------
(* The five kinds of step *)

Leaves == UNCHANGED <<effects, ledger>>

Takes(k, a, h, t) == t \in Nat /\ TakeKey(k, a, h, t)

(* The holder's own attempt moves on, or a contender finds it lapsed. *)
Moves(k, s) ==
    /\ effects[k].state \in Unfinished
    /\ s \in {"executing", "committed", "ambiguous"}
    /\ effects' = [effects EXCEPT ![k] = Transitioned(effects[k], s)]
    /\ ledger' = ledger

Fails(k) ==
    /\ effects[k].state \in Unfinished
    /\ effects' = [effects EXCEPT ![k] = Transitioned(effects[k], "failed")]
    /\ ledger' = ReleasedFor(k)

Extends(k, until) ==
    /\ until \in Nat
    /\ effects[k].state = "executing"
    /\ effects' = [effects EXCEPT ![k].lease = until]
    /\ ledger' = ledger

Resolves(k) ==
    \E s \in Resolutions, who \in Resolvers : ResolveEffect(k, s, who)

SomeKind ==
    \/ Leaves
    \/ \E k \in Keys :
          \/ \E a \in Actions, h \in Hashes, t \in Nat : Takes(k, a, h, t)
          \/ \E s \in {"executing", "committed", "ambiguous"} : Moves(k, s)
          \/ Fails(k)
          \/ \E until \in Nat : Extends(k, until)
          \/ Resolves(k)

(* Every step of the store is of one of the five kinds, or leaves the records *)
(* and the ledger alone.                                                      *)
LEMMA StepKinds ==
    ASSUME TypeOK, [Next]_vars
    PROVE  SomeKind
<1>1. CASE UNCHANGED vars
  BY <1>1 DEF vars, SomeKind, Leaves
<1>2. CASE Tick
  BY <1>2 DEF Tick, SomeKind, Leaves
<1>3. ASSUME NEW id \in Approvals, ApprovalStep(id)
      PROVE  SomeKind
  BY <1>3 DEF ApprovalStep, PutApprovalRequest, GrantApproval, DenyApproval, ExpireApproval,
              ConsumeApproval, SomeKind, Leaves
<1>4. ASSUME NEW k \in Keys, NEW a \in Actions, HolderStep(k, a)
      PROVE  SomeKind
  <2>1. ASSUME NEW h \in Hashes, NEW t \in Readings, TakeKey(k, a, h, t)
        PROVE  SomeKind
    <3>1. t \in Nat
      BY ReadingsType DEF TypeOK
    <3> QED
      BY <2>1, <3>1 DEF SomeKind, Takes
  <2>2. CASE BeginExecution(k, a)
    BY <2>2 DEF BeginExecution, HeldIn, Unfinished, SomeKind, Moves
  <2>3. CASE CommitEffect(k, a)
    BY <2>3 DEF CommitEffect, HeldIn, Unfinished, SomeKind, Moves
  <2>4. CASE FailEffect(k, a)
    BY <2>4 DEF FailEffect, HeldIn, Unfinished, SomeKind, Fails
  <2>5. CASE MarkAmbiguous(k, a)
    BY <2>5 DEF MarkAmbiguous, HeldIn, SomeKind, Moves
  <2>6. ASSUME NEW until \in 0..(now + SuspendTimeout), ExtendLease(k, a, until)
        PROVE  SomeKind
    <3>1. until \in Nat
      OBVIOUS
    <3>2. Extends(k, until)
      BY <2>6, <3>1 DEF ExtendLease, Extendable, HeldIn, Extends
    <3> QED
      BY <3>1, <3>2 DEF SomeKind
  <2>7. ASSUME NEW c \in Tokens, HoldContinuation(k, a, c)
        PROVE  SomeKind
    <3>1. PICK t \in Readings : /\ Extendable(effects[k], a, t + SuspendTimeout)
                                /\ effects' = [effects EXCEPT ![k].lease = t + SuspendTimeout]
      BY <2>7 DEF HoldContinuation
    <3>2. t + SuspendTimeout \in Nat
      BY ReadingsType, StoreConstants DEF TypeOK
    <3>3. Extends(k, t + SuspendTimeout)
      BY <2>7, <3>1, <3>2 DEF HoldContinuation, Extendable, HeldIn, Extends
    <3> QED
      BY <3>2, <3>3 DEF SomeKind
  <2> QED
    BY <1>4, <2>1, <2>2, <2>3, <2>4, <2>5, <2>6, <2>7
    DEF HolderStep, ReserveEffect, ConsumeApprovalAndReserve
<1>5. ASSUME NEW k \in Keys, KeyStep(k)
      PROVE  SomeKind
  BY <1>5 DEF KeyStep, AmbiguateLapsed, Lapsed, Moves, TakeContinuation, Resolves, Leaves,
              SomeKind
<1> QED
  BY <1>1, <1>2, <1>3, <1>4, <1>5 DEF Next

-----------------------------------------------------------------------------
(* Records agree with themselves *)

(* One record's share of RecordsAgree. *)
Agrees(r) ==
    /\ (r.lease # NoLease) <=> (r.state \in Unfinished)
    /\ r.resolvedBy # NoResolver => r.state \in Resolutions
    /\ (r.state = "new") <=> (r.attempt = 0)

LEMMA AgreesEach == RecordsAgree <=> \A k \in Keys : Agrees(effects[k])
  BY DEF RecordsAgree, Agrees

(* A reservation starts a record that agrees, whatever went before. *)
LEMMA ReservedAgrees ==
    ASSUME NEW r \in EffectRecord, NEW a \in Actions, NEW t \in Nat
    PROVE  Agrees(Reserved(r, a, t))
  BY StoreConstants DEF Agrees, Reserved, EffectRecord, Unfinished, NoLease, NoResolver

(* The lease ends with the attempt it belonged to (_transitioned). *)
LEMMA TransitionedAgrees ==
    ASSUME NEW r \in EffectRecord, Agrees(r), r.state \in Unfinished,
           NEW s \in {"executing", "committed", "ambiguous", "failed"}
    PROVE  Agrees(Transitioned(r, s))
  BY DEF Agrees, Transitioned, EffectRecord, Unfinished, Resolutions, NoLease, NoResolver

(* A resolver is named on a record that a resolver settled. *)
LEMMA ResolvedAgrees ==
    ASSUME NEW r \in EffectRecord, Agrees(r), r.state = "ambiguous",
           NEW s \in Resolutions, NEW who \in Resolvers
    PROVE  Agrees([Transitioned(r, s) EXCEPT !.resolvedBy = who])
  BY DEF Agrees, Transitioned, EffectRecord, Unfinished, Resolutions, NoLease, NoResolver

LEMMA ExtendedAgrees ==
    ASSUME NEW r \in EffectRecord, Agrees(r), r.state = "executing", NEW until \in Nat
    PROVE  Agrees([r EXCEPT !.lease = until])
  BY DEF Agrees, EffectRecord, Unfinished, NoLease

LEMMA InitAgrees == Init => RecordsAgree
  BY DEF Init, RecordsAgree, NoRecord, NoLease, NoResolver, Unfinished, Resolutions

LEMMA NextAgrees ==
    ASSUME TypeOK, RecordsAgree, SomeKind
    PROVE  RecordsAgree'
<1>0. \A k \in Keys : effects[k] \in EffectRecord /\ Agrees(effects[k])
  BY AgreesEach DEF TypeOK
<1>a. ASSUME NEW k \in Keys, NEW q, effects' = [effects EXCEPT ![k] = q], Agrees(q)
      PROVE  RecordsAgree'
  <2>1. \A j \in Keys : effects'[j] = IF j = k THEN q ELSE effects[j]
    BY <1>a DEF TypeOK
  <2>2. \A j \in Keys : Agrees(effects'[j])
    BY <1>0, <1>a, <2>1
  <2> QED
    BY <2>2 DEF RecordsAgree, Agrees
<1>1. CASE Leaves
  BY <1>1 DEF Leaves, RecordsAgree
<1>2. ASSUME NEW k \in Keys, NEW a \in Actions, NEW h \in Hashes, NEW t \in Nat,
             Takes(k, a, h, t)
      PROVE  RecordsAgree'
  BY <1>0, <1>a, <1>2, ReservedAgrees DEF Takes, TakeKey
<1>3. ASSUME NEW k \in Keys, NEW s \in {"executing", "committed", "ambiguous"}, Moves(k, s)
      PROVE  RecordsAgree'
  BY <1>0, <1>a, <1>3, TransitionedAgrees DEF Moves
<1>4. ASSUME NEW k \in Keys, Fails(k)
      PROVE  RecordsAgree'
  BY <1>0, <1>a, <1>4, TransitionedAgrees DEF Fails
<1>5. ASSUME NEW k \in Keys, NEW until \in Nat, Extends(k, until)
      PROVE  RecordsAgree'
  <2>1. effects' = [effects EXCEPT ![k] = [effects[k] EXCEPT !.lease = until]]
    BY <1>5 DEF Extends
  <2> QED
    BY <1>0, <1>a, <1>5, <2>1, ExtendedAgrees DEF Extends
<1>6. ASSUME NEW k \in Keys, Resolves(k)
      PROVE  RecordsAgree'
  BY <1>0, <1>a, <1>6, ResolvedAgrees DEF Resolves, ResolveEffect
<1> QED
  BY <1>1, <1>2, <1>3, <1>4, <1>5, <1>6 DEF SomeKind

(* A lease exists exactly while an attempt is unfinished, a resolver is named *)
(* exactly on what it settled, and only an untouched key has no attempt: for  *)
(* any number of keys, attempts, contenders and clock lag.                    *)
THEOREM RecordsAlwaysAgree == Spec => []RecordsAgree
<1>1. TypeOK /\ RecordsAgree /\ [Next]_vars => RecordsAgree'
  BY StepKinds, NextAgrees
<1> QED
  BY <1>1, InitAgrees, TypeCorrect, PTL DEF Spec

-----------------------------------------------------------------------------
(* Charges follow effects *)

(* One row's share of ChargesFollowEffects, against the record of its key. *)
Follows(row, r) ==
    /\ row.attempt \in 1..r.attempt
    /\ row.held <=> (row.attempt = r.attempt /\ r.state # "failed")

LEMMA FollowsEach == ChargesFollowEffects <=> \A row \in ledger : Follows(row, effects[row.key])
  BY DEF ChargesFollowEffects, Follows

(* A free key holds no charge: the argument the whole ledger rests on. *)
LEMMA FreeHoldsNothing ==
    ASSUME TypeOK, RecordsAgree, ChargesFollowEffects,
           NEW k \in Keys, Free(effects[k]), NEW row \in ledger, row.key = k
    PROVE  ~row.held
<1>1. effects[k] \in EffectRecord /\ row \in Consumption
  BY DEF TypeOK
<1>2. CASE effects[k].state = "failed"
  BY <1>2 DEF ChargesFollowEffects
<1>3. CASE effects[k].state = "new"
  <2>1. effects[k].attempt = 0
    BY <1>3 DEF RecordsAgree
  <2>2. row.attempt \in 1..0
    BY <2>1 DEF ChargesFollowEffects
  <2> QED
    BY <2>2
<1> QED
  BY <1>2, <1>3 DEF Free

(* A reservation leaves every older row behind and adds rows of its own attempt. *)
LEMMA TakeFollows ==
    ASSUME TypeOK, RecordsAgree, ChargesFollowEffects,
           NEW k \in Keys, NEW a \in Actions, NEW h \in Hashes, NEW t \in Nat,
           TakeKey(k, a, h, t)
    PROVE  ChargesFollowEffects'
<1> DEFINE q == Reserved(effects[k], a, t)
<1>1. effects[k] \in EffectRecord /\ effects[k].attempt \in Nat
  BY DEF TypeOK, EffectRecord
<1>2. q.attempt = effects[k].attempt + 1 /\ q.state = "reserved"
  BY DEF Reserved
<1>3. \A j \in Keys : effects'[j] = IF j = k THEN q ELSE effects[j]
  BY DEF TakeKey, TypeOK
<1>4. ASSUME NEW row \in ledger
      PROVE  Follows(row, effects'[row.key])
  <2>1. row.key \in Keys /\ row \in Consumption /\ row.attempt \in Nat /\ row.held \in BOOLEAN
    BY DEF TypeOK, Consumption
  <2>2. Follows(row, effects[row.key])
    BY FollowsEach
  <2>3. CASE row.key = k
    <3>1. ~row.held
      BY <2>3, FreeHoldsNothing DEF TakeKey
    <3>2. row.attempt \in 1..effects[k].attempt
      BY <2>2, <2>3 DEF Follows
    <3>3. row.attempt \in 1..q.attempt /\ row.attempt # q.attempt
      BY <1>1, <1>2, <3>2
    <3> QED
      BY <1>3, <2>3, <3>1, <3>3 DEF Follows
  <2>4. CASE row.key # k
    BY <1>3, <2>1, <2>2, <2>4
  <2> QED
    BY <2>3, <2>4
<1>5. ASSUME NEW row \in Rows(h, k, effects[k].attempt + 1, t)
      PROVE  Follows(row, effects'[row.key])
  <2>1. row.key = k /\ row.attempt = q.attempt /\ row.held
    BY <1>2 DEF Rows
  <2>2. q.attempt \in 1..q.attempt
    BY <1>1, <1>2
  <2>3. effects'[row.key] = q
    BY <1>3, <2>1
  <2> QED
    BY <1>2, <2>1, <2>2, <2>3 DEF Follows
<1>6. \A row \in ledger' : Follows(row, effects'[row.key])
  BY <1>4, <1>5 DEF TakeKey
<1> QED
  BY <1>6 DEF ChargesFollowEffects, Follows

(* A record that keeps its attempt, and does not become or stop being FAILED, *)
(* keeps its charges in step.                                                 *)
LEMMA KeepFollows ==
    ASSUME TypeOK, ChargesFollowEffects, NEW k \in Keys, NEW q,
           effects' = [effects EXCEPT ![k] = q], ledger' = ledger,
           q.attempt = effects[k].attempt, q.state # "failed", effects[k].state # "failed"
    PROVE  ChargesFollowEffects'
<1>1. \A j \in Keys : effects'[j] = IF j = k THEN q ELSE effects[j]
  BY DEF TypeOK
<1>2. ASSUME NEW row \in ledger
      PROVE  Follows(row, effects'[row.key])
  <2>1. row.key \in Keys /\ Follows(row, effects[row.key])
    BY FollowsEach DEF TypeOK, Consumption
  <2> QED
    BY <1>1, <2>1 DEF Follows
<1> QED
  BY <1>2 DEF ChargesFollowEffects, Follows

(* A release clears the flag of the key's rows and changes no other field. *)
LEMMA ReleasedRows ==
    ASSUME ledger \subseteq Consumption, NEW k \in Keys, NEW row \in ReleasedFor(k)
    PROVE  \E old \in ledger :
               /\ row.line = old.line /\ row.key = old.key /\ row.attempt = old.attempt
               /\ row.held <=> (old.held /\ old.key # k)
               /\ row = IF old.key = k THEN [old EXCEPT !.held = FALSE] ELSE old
<1>1. PICK old \in ledger :
          row = IF old.key = k THEN [old EXCEPT !.held = FALSE] ELSE old
  BY DEF ReleasedFor
<1>2. old \in Consumption
  OBVIOUS
<1>3. /\ row.line = old.line /\ row.key = old.key /\ row.attempt = old.attempt
      /\ row.held <=> (old.held /\ old.key # k)
  <2>1. CASE old.key = k
    BY <1>1, <1>2, <2>1 DEF Consumption
  <2>2. CASE old.key # k
    BY <1>1, <1>2, <2>2 DEF Consumption
  <2> QED
    BY <2>1, <2>2
<1> QED
  BY <1>1, <1>3, Zenon

(* An attempt proved not to have happened gives its charges back. *)
LEMMA ReleaseFollows ==
    ASSUME TypeOK, ChargesFollowEffects, NEW k \in Keys, NEW q,
           effects' = [effects EXCEPT ![k] = q], ledger' = ReleasedFor(k),
           q.attempt = effects[k].attempt, q.state = "failed"
    PROVE  ChargesFollowEffects'
<1>1. \A j \in Keys : effects'[j] = IF j = k THEN q ELSE effects[j]
  BY DEF TypeOK
<1>2. ASSUME NEW row \in ledger'
      PROVE  Follows(row, effects'[row.key])
  <2>1. PICK old \in ledger :
            /\ row.key = old.key /\ row.attempt = old.attempt
            /\ row.held <=> (old.held /\ old.key # k)
    BY ReleasedRows DEF TypeOK
  <2>2. old.key \in Keys /\ Follows(old, effects[old.key])
    BY FollowsEach DEF TypeOK, Consumption
  <2>3. CASE old.key = k
    BY <1>1, <2>1, <2>2, <2>3 DEF Follows
  <2>4. CASE old.key # k
    BY <1>1, <2>1, <2>2, <2>4 DEF Follows
  <2> QED
    BY <2>3, <2>4
<1> QED
  BY <1>2 DEF ChargesFollowEffects, Follows

LEMMA NextFollows ==
    ASSUME TypeOK, RecordsAgree, ChargesFollowEffects, SomeKind
    PROVE  ChargesFollowEffects'
<1>0. \A k \in Keys : effects[k] \in EffectRecord
  BY DEF TypeOK
<1>1. CASE Leaves
  BY <1>1 DEF Leaves, ChargesFollowEffects
<1>2. ASSUME NEW k \in Keys, NEW a \in Actions, NEW h \in Hashes, NEW t \in Nat,
             Takes(k, a, h, t)
      PROVE  ChargesFollowEffects'
  BY <1>2, TakeFollows DEF Takes
<1>3. ASSUME NEW k \in Keys, NEW s \in {"executing", "committed", "ambiguous"}, Moves(k, s)
      PROVE  ChargesFollowEffects'
  <2>1. /\ Transitioned(effects[k], s).attempt = effects[k].attempt
        /\ Transitioned(effects[k], s).state = s
    BY <1>0 DEF Transitioned, EffectRecord
  <2> QED
    BY <1>3, <2>1, KeepFollows DEF Moves, Unfinished
<1>4. ASSUME NEW k \in Keys, Fails(k)
      PROVE  ChargesFollowEffects'
  <2>1. /\ Transitioned(effects[k], "failed").attempt = effects[k].attempt
        /\ Transitioned(effects[k], "failed").state = "failed"
    BY <1>0 DEF Transitioned, EffectRecord
  <2> QED
    BY <1>4, <2>1, ReleaseFollows DEF Fails
<1>5. ASSUME NEW k \in Keys, NEW until \in Nat, Extends(k, until)
      PROVE  ChargesFollowEffects'
  <2> DEFINE q == [effects[k] EXCEPT !.lease = until]
  <2>1. q.attempt = effects[k].attempt /\ q.state = effects[k].state
    BY <1>0 DEF EffectRecord
  <2>2. effects' = [effects EXCEPT ![k] = q] /\ ledger' = ledger
    BY <1>5 DEF Extends
  <2> HIDE DEF q
  <2> QED
    BY <1>5, <2>1, <2>2, KeepFollows DEF Extends
<1>6. ASSUME NEW k \in Keys, Resolves(k)
      PROVE  ChargesFollowEffects'
  <2>1. PICK s \in Resolutions, who \in Resolvers : ResolveEffect(k, s, who)
    BY <1>6 DEF Resolves
  <2> DEFINE q == [Transitioned(effects[k], s) EXCEPT !.resolvedBy = who]
  <2>2. q.attempt = effects[k].attempt /\ q.state = s
    BY <1>0 DEF Transitioned, EffectRecord
  <2>3. effects' = [effects EXCEPT ![k] = q] /\ effects[k].state = "ambiguous"
    BY <2>1 DEF ResolveEffect
  <2>4. ledger' = IF s = "failed" THEN ReleasedFor(k) ELSE ledger
    BY <2>1 DEF ResolveEffect
  <2> HIDE DEF q
  <2>5. CASE s = "failed"
    BY <2>2, <2>3, <2>4, <2>5, ReleaseFollows
  <2>6. CASE s # "failed"
    BY <2>2, <2>3, <2>4, <2>6, KeepFollows
  <2> QED
    BY <2>5, <2>6
<1> QED
  BY <1>1, <1>2, <1>3, <1>4, <1>5, <1>6 DEF SomeKind

(* A charge is held exactly while its attempt is the latest of its key and    *)
(* has not FAILED: whatever the interleaving, no refund is lost and none is   *)
(* given for an outcome nobody knows.                                         *)
THEOREM ChargesAlwaysFollow == Spec => []ChargesFollowEffects
<1>1. Init => ChargesFollowEffects
  BY DEF Init, ChargesFollowEffects
<1>2. TypeOK /\ RecordsAgree /\ ChargesFollowEffects /\ [Next]_vars => ChargesFollowEffects'
  BY StepKinds, NextFollows
<1> QED
  BY <1>1, <1>2, TypeCorrect, RecordsAlwaysAgree, PTL DEF Spec

-----------------------------------------------------------------------------
(* One charge per attempt *)

LEMMA TakeChargesOnce ==
    ASSUME TypeOK, ChargesFollowEffects, OneChargePerAttempt,
           NEW k \in Keys, NEW a \in Actions, NEW h \in Hashes, NEW t \in Nat,
           TakeKey(k, a, h, t)
    PROVE  OneChargePerAttempt'
<1> DEFINE n == effects[k].attempt + 1
<1>1. effects[k].attempt \in Nat
  BY DEF TypeOK, EffectRecord
<1>2. \A row \in ledger : row.key = k => row.attempt # n
  BY <1>1 DEF ChargesFollowEffects
<1>3. \A row \in Rows(h, k, n, t) : row.key = k /\ row.attempt = n
  BY DEF Rows
<1>4. ASSUME NEW r1 \in Rows(h, k, n, t), NEW r2 \in Rows(h, k, n, t), r1.line = r2.line
      PROVE  r1 = r2
  <2> DEFINE RowOf(l) == [line |-> l, key |-> k, attempt |-> n, amount |-> Cost[h][l],
                          at |-> t, held |-> TRUE]
  <2>1. PICK l1 \in Lines : r1 = RowOf(l1)
    BY DEF Rows
  <2>2. PICK l2 \in Lines : r2 = RowOf(l2)
    BY DEF Rows
  <2>3. l1 = l2
    BY <1>4, <2>1, <2>2
  <2> QED
    BY <2>1, <2>2, <2>3
<1>5. ledger' = ledger \cup Rows(h, k, n, t)
  BY DEF TakeKey
<1> HIDE DEF n
<1>6. ASSUME NEW r1 \in ledger', NEW r2 \in ledger',
             r1.line = r2.line, r1.key = r2.key, r1.attempt = r2.attempt
      PROVE  r1 = r2
  <2>1. CASE r1 \in ledger /\ r2 \in ledger
    BY <1>6, <2>1 DEF OneChargePerAttempt
  <2>2. CASE r1 \in Rows(h, k, n, t) /\ r2 \in Rows(h, k, n, t)
    BY <1>4, <1>6, <2>2
  <2>3. CASE r1 \in ledger /\ r2 \in Rows(h, k, n, t)
    BY <1>2, <1>3, <1>6, <2>3
  <2>4. CASE r1 \in Rows(h, k, n, t) /\ r2 \in ledger
    BY <1>2, <1>3, <1>6, <2>4
  <2> QED
    BY <1>5, <1>6, <2>1, <2>2, <2>3, <2>4
<1> QED
  BY <1>6 DEF OneChargePerAttempt

LEMMA ReleaseChargesOnce ==
    ASSUME TypeOK, OneChargePerAttempt, NEW k \in Keys, ledger' = ReleasedFor(k)
    PROVE  OneChargePerAttempt'
<1> SUFFICES ASSUME NEW r1 \in ReleasedFor(k), NEW r2 \in ReleasedFor(k),
                    r1.line = r2.line, r1.key = r2.key, r1.attempt = r2.attempt
             PROVE  r1 = r2
  BY DEF OneChargePerAttempt
<1>1. PICK old1 \in ledger :
          /\ r1.line = old1.line /\ r1.key = old1.key /\ r1.attempt = old1.attempt
          /\ r1 = IF old1.key = k THEN [old1 EXCEPT !.held = FALSE] ELSE old1
  BY ReleasedRows DEF TypeOK
<1>2. PICK old2 \in ledger :
          /\ r2.line = old2.line /\ r2.key = old2.key /\ r2.attempt = old2.attempt
          /\ r2 = IF old2.key = k THEN [old2 EXCEPT !.held = FALSE] ELSE old2
  BY ReleasedRows DEF TypeOK
<1>3. old1 = old2
  BY <1>1, <1>2 DEF OneChargePerAttempt
<1> QED
  BY <1>1, <1>2, <1>3

LEMMA NextChargesOnce ==
    ASSUME TypeOK, ChargesFollowEffects, OneChargePerAttempt, SomeKind
    PROVE  OneChargePerAttempt'
<1>1. ASSUME ledger' = ledger
      PROVE  OneChargePerAttempt'
  BY <1>1 DEF OneChargePerAttempt
<1> QED
  BY <1>1, TakeChargesOnce, ReleaseChargesOnce
  DEF SomeKind, Leaves, Takes, Moves, Fails, Extends, Resolves, ResolveEffect

(* No line is charged twice for one attempt, however retries, refusals and    *)
(* renewals of a key interleave.                                              *)
THEOREM OneChargeAlways == Spec => []OneChargePerAttempt
<1>1. Init => OneChargePerAttempt
  BY DEF Init, OneChargePerAttempt
<1>2. TypeOK /\ ChargesFollowEffects /\ OneChargePerAttempt /\ [Next]_vars
      => OneChargePerAttempt'
  BY StepKinds, NextChargesOnce
<1> QED
  BY <1>1, <1>2, TypeCorrect, ChargesAlwaysFollow, PTL DEF Spec

-----------------------------------------------------------------------------
(* The promise *)

(* The attempts of a key whose charges are held. *)
Charged(k) == {row.attempt : row \in {r \in ledger : r.key = k /\ r.held}}


LEMMA PhaseOf ==
    ASSUME NEW r \in EffectRecord
    PROVE  /\ Phase(r) = "open" <=> Free(r)
           /\ Phase(r) = "held" <=> r.state \in Unfinished
           /\ Phase(r) = "unknown" <=> r.state = "ambiguous"
           /\ Phase(r) = "done" <=> r.state = "committed"
  BY DEF Phase, Free, EffectRecord, EffectStates, Unfinished, Resolutions

(* A free key holds nothing; a reservation adds its own attempt, or nothing. *)
LEMMA TakeCharged ==
    ASSUME TypeOK, RecordsAgree, ChargesFollowEffects,
           NEW k \in Keys, NEW a \in Actions, NEW h \in Hashes, NEW t \in Nat,
           TakeKey(k, a, h, t)
    PROVE  /\ Charged(k)' \in {{}, {effects[k].attempt + 1}}
           /\ \A j \in Keys \ {k} : Charged(j)' = Charged(j)
<1> DEFINE n == effects[k].attempt + 1
           new == Rows(h, k, n, t)
<1>1. \A row \in ledger : row.key = k => ~row.held
  BY FreeHoldsNothing DEF TakeKey
<1>2. \A row \in new : row.key = k /\ row.attempt = n /\ row.held
  BY DEF Rows
<1>3. ledger' = ledger \cup new
  BY DEF TakeKey
<1> HIDE DEF n, new
<1>4. Charged(k)' = {row.attempt : row \in {r \in ledger' : r.key = k /\ r.held}}
  BY DEF Charged
<1>5. {r \in ledger' : r.key = k /\ r.held} = new
  BY <1>1, <1>2, <1>3
<1>6. Charged(k)' \in {{}, {n}}
  <2>1. \A x \in Charged(k)' : x = n
    BY <1>2, <1>4, <1>5
  <2> QED
    BY <2>1
<1>7. ASSUME NEW j \in Keys \ {k}
      PROVE  Charged(j)' = Charged(j)
  <2>1. {r \in ledger' : r.key = j /\ r.held} = {r \in ledger : r.key = j /\ r.held}
    BY <1>2, <1>3
  <2> QED
    BY <2>1 DEF Charged
<1> QED
  BY <1>6, <1>7 DEF n

(* A release leaves the key with nothing held and no other key touched. *)
LEMMA ReleaseCharged ==
    ASSUME TypeOK, NEW k \in Keys, ledger' = ReleasedFor(k)
    PROVE  /\ Charged(k)' = {}
           /\ \A j \in Keys \ {k} : Charged(j)' = Charged(j)
<1>1. \A row \in ledger' : row.key = k => ~row.held
  BY ReleasedRows DEF TypeOK
<1>2. Charged(k)' = {}
  BY <1>1 DEF Charged
<1>3. ASSUME NEW j \in Keys \ {k}
      PROVE  Charged(j)' = Charged(j)
  <2>1. ASSUME NEW row \in ledger', row.key = j
        PROVE  row \in ledger
    <3>1. PICK old \in ledger :
              /\ row.key = old.key
              /\ row = IF old.key = k THEN [old EXCEPT !.held = FALSE] ELSE old
      BY ReleasedRows DEF TypeOK
    <3> QED
      BY <1>3, <2>1, <3>1
  <2>2. ASSUME NEW row \in ledger, row.key = j
        PROVE  row \in ledger'
    BY <1>3, <2>2 DEF ReleasedFor
  <2>3. {r \in ledger' : r.key = j /\ r.held} = {r \in ledger : r.key = j /\ r.held}
    BY <2>1, <2>2
  <2> QED
    BY <2>3 DEF Charged
<1> QED
  BY <1>2, <1>3

(* What the promise sees of a step that writes one record. *)
PhaseBar == [k \in Keys |-> Phase(effects[k])]
AttemptBar == [k \in Keys |-> effects[k].attempt]
HolderBar == [k \in Keys |-> effects[k].action]
ChargedBar == [k \in Keys |-> Charged(k)]

LEMMA WriteSeen ==
    ASSUME TypeOK, NEW k \in Keys, NEW q, effects' = [effects EXCEPT ![k] = q]
    PROVE  /\ PhaseBar' = [PhaseBar EXCEPT ![k] = Phase(q)]
           /\ AttemptBar' = [AttemptBar EXCEPT ![k] = q.attempt]
           /\ HolderBar' = [HolderBar EXCEPT ![k] = q.action]
<1>1. \A j \in Keys : effects'[j] = IF j = k THEN q ELSE effects[j]
  BY DEF TypeOK
<1>2. \A j \in Keys : Phase(effects'[j]) = IF j = k THEN Phase(q) ELSE Phase(effects[j])
  BY <1>1
<1>3. PhaseBar' = [j \in Keys |-> Phase(effects'[j])]
  BY DEF PhaseBar
<1>4. PhaseBar' = [PhaseBar EXCEPT ![k] = Phase(q)]
  BY <1>2, <1>3 DEF PhaseBar
<1>5. AttemptBar' = [AttemptBar EXCEPT ![k] = q.attempt]
  <2>1. \A j \in Keys :
            effects'[j].attempt = IF j = k THEN q.attempt ELSE effects[j].attempt
    BY <1>1
  <2>2. AttemptBar' = [j \in Keys |-> effects'[j].attempt]
    BY DEF AttemptBar
  <2> QED
    BY <2>1, <2>2 DEF AttemptBar
<1>6. HolderBar' = [HolderBar EXCEPT ![k] = q.action]
  <2>1. \A j \in Keys :
            effects'[j].action = IF j = k THEN q.action ELSE effects[j].action
    BY <1>1
  <2>2. HolderBar' = [j \in Keys |-> effects'[j].action]
    BY DEF HolderBar
  <2> QED
    BY <2>1, <2>2 DEF HolderBar
<1> QED
  BY <1>4, <1>5, <1>6

LEMMA ChargeSeen ==
    ASSUME NEW k \in Keys, NEW c, Charged(k)' = c,
           \A j \in Keys \ {k} : Charged(j)' = Charged(j)
    PROVE  ChargedBar' = [ChargedBar EXCEPT ![k] = c]
<1>1. ChargedBar' = [j \in Keys |-> Charged(j)']
  BY DEF ChargedBar
<1>2. \A j \in Keys : Charged(j)' = IF j = k THEN c ELSE Charged(j)
  OBVIOUS
<1> QED
  BY <1>1, <1>2 DEF ChargedBar

LEMMA PromiseInit == Init => Promise!Init
<1> SUFFICES ASSUME Init PROVE Promise!Init
  OBVIOUS
<1>1. \A k \in Keys : effects[k] = NoRecord
  BY DEF Init
<1>2. \A k \in Keys : effects[k].attempt = 0 /\ effects[k].action = NoAction
  BY <1>1 DEF NoRecord
<1>3. \A k \in Keys : Phase(effects[k]) = "open"
  <2>1. NoRecord \in EffectRecord
    BY DEF NoRecord, EffectRecord, EffectStates, NoLease, NoResolver
  <2>2. Free(NoRecord)
    BY DEF NoRecord, Free
  <2> QED
    BY <1>1, <2>1, <2>2, PhaseOf
<1>4. \A k \in Keys : {row.attempt : row \in {r \in ledger : r.key = k /\ r.held}} = {}
  BY DEF Init
<1> QED
  BY <1>2, <1>3, <1>4 DEF Promise!Init

(* A write that keeps attempt, holder and phase, with the ledger left alone, is *)
(* a stutter of the promise.                                                    *)
LEMMA UnseenStep ==
    ASSUME TypeOK, NEW k \in Keys, NEW q, effects' = [effects EXCEPT ![k] = q],
           ledger' = ledger, q.attempt = effects[k].attempt, q.action = effects[k].action,
           Phase(q) = Phase(effects[k])
    PROVE  UNCHANGED Promise!effectVars
<1>1. PhaseBar' = PhaseBar /\ AttemptBar' = AttemptBar /\ HolderBar' = HolderBar
  BY WriteSeen DEF PhaseBar, AttemptBar, HolderBar
<1> QED
  BY <1>1 DEF Promise!effectVars, PhaseBar, AttemptBar, HolderBar

(* A write that keeps attempt and holder changes only the phase. *)
LEMMA PhaseStep ==
    ASSUME TypeOK, NEW k \in Keys, NEW q, effects' = [effects EXCEPT ![k] = q],
           q.attempt = effects[k].attempt, q.action = effects[k].action
    PROVE  /\ PhaseBar' = [PhaseBar EXCEPT ![k] = Phase(q)]
           /\ AttemptBar' = AttemptBar /\ HolderBar' = HolderBar
           /\ PhaseBar[k] = Phase(effects[k])
<1>1. /\ PhaseBar' = [PhaseBar EXCEPT ![k] = Phase(q)]
      /\ AttemptBar' = [AttemptBar EXCEPT ![k] = q.attempt]
      /\ HolderBar' = [HolderBar EXCEPT ![k] = q.action]
  BY WriteSeen
<1>2. AttemptBar[k] = effects[k].attempt /\ HolderBar[k] = effects[k].action
  BY DEF AttemptBar, HolderBar
<1>3. /\ [AttemptBar EXCEPT ![k] = AttemptBar[k]] = AttemptBar
      /\ [HolderBar EXCEPT ![k] = HolderBar[k]] = HolderBar
  BY DEF AttemptBar, HolderBar
<1> QED
  BY <1>1, <1>2, <1>3 DEF PhaseBar

LEMMA LedgerSeen == ledger' = ledger => ChargedBar' = ChargedBar
  BY DEF ChargedBar, Charged

LEMMA ReleaseSeen ==
    ASSUME TypeOK, NEW k \in Keys, ledger' = ReleasedFor(k)
    PROVE  ChargedBar' = [ChargedBar EXCEPT ![k] = {}]
  BY ReleaseCharged, ChargeSeen

(* A reservation is an acquisition of the promise. *)
LEMMA TakeIsAcquire ==
    ASSUME TypeOK, RecordsAgree, ChargesFollowEffects,
           NEW k \in Keys, NEW a \in Actions, NEW h \in Hashes, NEW t \in Nat,
           TakeKey(k, a, h, t)
    PROVE  Promise!Acquire(k, a)
<1> DEFINE q == Reserved(effects[k], a, t)
           n == effects[k].attempt + 1
<1>1. effects[k] \in EffectRecord /\ q \in EffectRecord
  BY ReservedType DEF TypeOK
<1>2. q.attempt = n /\ q.action = a /\ q.state = "reserved"
  BY DEF Reserved
<1>3. Phase(effects[k]) = "open" /\ Phase(q) = "held"
  BY <1>1, <1>2, PhaseOf DEF TakeKey, Unfinished
<1>4. effects' = [effects EXCEPT ![k] = q]
  BY DEF TakeKey
<1> HIDE DEF q
<1>5. PICK c \in {{}, {n}} : ChargedBar' = [ChargedBar EXCEPT ![k] = c]
  BY TakeCharged, ChargeSeen
<1>6. /\ PhaseBar' = [PhaseBar EXCEPT ![k] = Phase(q)]
      /\ AttemptBar' = [AttemptBar EXCEPT ![k] = q.attempt]
      /\ HolderBar' = [HolderBar EXCEPT ![k] = q.action]
  BY <1>4, WriteSeen
<1>7. PhaseBar[k] = "open" /\ AttemptBar[k] + 1 = n
  BY <1>3 DEF PhaseBar, AttemptBar
<1> QED
  BY <1>2, <1>3, <1>5, <1>6, <1>7
  DEF Promise!Acquire, PhaseBar, AttemptBar, HolderBar, ChargedBar, Charged

LEMMA PromiseStep ==
    ASSUME TypeOK, RecordsAgree, ChargesFollowEffects, SomeKind
    PROVE  [Promise!Next]_(Promise!effectVars)
<1>0. \A k \in Keys : effects[k] \in EffectRecord
  BY DEF TypeOK
<1>1. CASE Leaves
  BY <1>1 DEF Leaves, Promise!effectVars
<1>2. ASSUME NEW k \in Keys, NEW a \in Actions, NEW h \in Hashes, NEW t \in Nat,
             Takes(k, a, h, t)
      PROVE  Promise!Next
  BY <1>2, TakeIsAcquire DEF Takes, Promise!Next
<1>3. ASSUME NEW k \in Keys, NEW s \in {"executing", "committed", "ambiguous"}, Moves(k, s)
      PROVE  [Promise!Next]_(Promise!effectVars)
  <2> DEFINE q == Transitioned(effects[k], s)
  <2>1. q \in EffectRecord
    BY <1>0, TransitionedType DEF EffectStates, Unfinished, Resolutions
  <2>2. q.state = s /\ q.attempt = effects[k].attempt /\ q.action = effects[k].action
    BY <1>0 DEF Transitioned, EffectRecord
  <2>3. effects' = [effects EXCEPT ![k] = q] /\ ledger' = ledger
    BY <1>3 DEF Moves
  <2>4. Phase(effects[k]) = "held"
    BY <1>0, <1>3, PhaseOf DEF Moves
  <2> HIDE DEF q
  <2>5. /\ PhaseBar' = [PhaseBar EXCEPT ![k] = Phase(q)]
        /\ AttemptBar' = AttemptBar /\ HolderBar' = HolderBar /\ ChargedBar' = ChargedBar
        /\ PhaseBar[k] = "held"
    BY <2>2, <2>3, <2>4, PhaseStep, LedgerSeen
  <2>6. CASE s = "executing"
    <3>1. Phase(q) = "held"
      BY <2>1, <2>2, <2>6, PhaseOf DEF Unfinished
    <3> QED
      BY <2>2, <2>3, <2>4, <3>1, UnseenStep
  <2>7. CASE s = "committed"
    <3>1. Phase(q) = "done"
      BY <2>1, <2>2, <2>7, PhaseOf
    <3>2. Promise!Happened(k)
      BY <2>5, <3>1
      DEF Promise!Happened, PhaseBar, AttemptBar, HolderBar, ChargedBar, Charged
    <3> QED
      BY <3>2 DEF Promise!Next
  <2>8. CASE s = "ambiguous"
    <3>1. Phase(q) = "unknown"
      BY <2>1, <2>2, <2>8, PhaseOf
    <3>2. Promise!BecomesUnknown(k)
      BY <2>5, <3>1
      DEF Promise!BecomesUnknown, PhaseBar, AttemptBar, HolderBar, ChargedBar, Charged
    <3> QED
      BY <3>2 DEF Promise!Next
  <2> QED
    BY <2>6, <2>7, <2>8
<1>4. ASSUME NEW k \in Keys, Fails(k)
      PROVE  Promise!Next
  <2> DEFINE q == Transitioned(effects[k], "failed")
  <2>1. q \in EffectRecord
    BY <1>0, TransitionedType DEF EffectStates, Unfinished, Resolutions
  <2>2. q.state = "failed" /\ q.attempt = effects[k].attempt /\ q.action = effects[k].action
    BY <1>0 DEF Transitioned, EffectRecord
  <2>3. effects' = [effects EXCEPT ![k] = q] /\ ledger' = ReleasedFor(k)
    BY <1>4 DEF Fails
  <2>4. Phase(effects[k]) = "held" /\ Phase(q) = "open"
    BY <1>0, <1>4, <2>1, <2>2, PhaseOf DEF Fails, Free
  <2> HIDE DEF q
  <2>5. /\ PhaseBar' = [PhaseBar EXCEPT ![k] = "open"]
        /\ AttemptBar' = AttemptBar /\ HolderBar' = HolderBar
        /\ ChargedBar' = [ChargedBar EXCEPT ![k] = {}]
        /\ PhaseBar[k] = "held"
    <3>1. ChargedBar' = [ChargedBar EXCEPT ![k] = {}]
      BY <2>3, ReleaseSeen
    <3>2. /\ PhaseBar' = [PhaseBar EXCEPT ![k] = Phase(q)]
          /\ AttemptBar' = AttemptBar /\ HolderBar' = HolderBar
          /\ PhaseBar[k] = Phase(effects[k])
      BY <2>2, <2>3, PhaseStep
    <3> QED
      BY <2>4, <3>1, <3>2
  <2>6. Promise!DidNotHappen(k)
    BY <2>5 DEF Promise!DidNotHappen, PhaseBar, AttemptBar, HolderBar, ChargedBar, Charged
  <2> QED
    BY <2>6 DEF Promise!Next
<1>5. ASSUME NEW k \in Keys, NEW until \in Nat, Extends(k, until)
      PROVE  UNCHANGED Promise!effectVars
  <2> DEFINE q == [effects[k] EXCEPT !.lease = until]
  <2>1. /\ q.state = effects[k].state /\ q.attempt = effects[k].attempt
        /\ q.action = effects[k].action
    BY <1>0 DEF EffectRecord
  <2>2. effects' = [effects EXCEPT ![k] = q] /\ ledger' = ledger
    BY <1>5 DEF Extends
  <2>3. Phase(q) = Phase(effects[k])
    BY <2>1 DEF Phase, Free
  <2> HIDE DEF q
  <2> QED
    BY <2>1, <2>2, <2>3, UnseenStep
<1>6. ASSUME NEW k \in Keys, Resolves(k)
      PROVE  Promise!Next
  <2>1. PICK s \in Resolutions, who \in Resolvers : ResolveEffect(k, s, who)
    BY <1>6 DEF Resolves
  <2> DEFINE q == [Transitioned(effects[k], s) EXCEPT !.resolvedBy = who]
  <2>2. q \in EffectRecord
    <3>1. Transitioned(effects[k], s) \in EffectRecord
      BY <1>0, TransitionedType DEF EffectStates
    <3> QED
      BY <3>1 DEF EffectRecord
  <2>3. q.state = s /\ q.attempt = effects[k].attempt /\ q.action = effects[k].action
    BY <1>0 DEF Transitioned, EffectRecord
  <2>4. effects' = [effects EXCEPT ![k] = q]
    BY <2>1 DEF ResolveEffect
  <2>5. ledger' = IF s = "failed" THEN ReleasedFor(k) ELSE ledger
    BY <2>1 DEF ResolveEffect
  <2>6. Phase(effects[k]) = "unknown"
    BY <1>0, <2>1, PhaseOf DEF ResolveEffect
  <2> HIDE DEF q
  <2>7. /\ PhaseBar' = [PhaseBar EXCEPT ![k] = Phase(q)]
        /\ AttemptBar' = AttemptBar /\ HolderBar' = HolderBar
        /\ PhaseBar[k] = "unknown"
    BY <2>3, <2>4, <2>6, PhaseStep
  <2>8. CASE s = "committed"
    <3>1. Phase(q) = "done" /\ ledger' = ledger
      BY <2>2, <2>3, <2>5, <2>8, PhaseOf
    <3>2. ChargedBar' = ChargedBar
      BY <3>1, LedgerSeen
    <3>3. Promise!Adjudicate(k)
      BY <2>7, <3>1, <3>2
      DEF Promise!Adjudicate, PhaseBar, AttemptBar, HolderBar, ChargedBar, Charged
    <3> QED
      BY <3>3 DEF Promise!Next
  <2>9. CASE s = "failed"
    <3>1. Phase(q) = "open" /\ ledger' = ReleasedFor(k)
      BY <2>2, <2>3, <2>5, <2>9, PhaseOf DEF Free
    <3>2. ChargedBar' = [ChargedBar EXCEPT ![k] = {}]
      BY <3>1, ReleaseSeen
    <3>3. Promise!Adjudicate(k)
      BY <2>7, <3>1, <3>2
      DEF Promise!Adjudicate, PhaseBar, AttemptBar, HolderBar, ChargedBar, Charged
    <3> QED
      BY <3>3 DEF Promise!Next
  <2> QED
    BY <2>8, <2>9 DEF Resolutions
<1> QED
  BY <1>1, <1>2, <1>3, <1>4, <1>5, <1>6 DEF SomeKind

(* The store keeps the promise about every logical effect: one attempt at a   *)
(* time, done for ever, unknown until adjudicated, and charged for the        *)
(* attempt that may have happened.                                            *)
THEOREM StoreKeepsPromise == Spec => KeepsPromise
<1>1. TypeOK /\ RecordsAgree /\ ChargesFollowEffects /\ [Next]_vars
      => [Promise!Next]_(Promise!effectVars)
  BY StepKinds, PromiseStep
<1> QED
  BY <1>1, PromiseInit, TypeCorrect, RecordsAlwaysAgree, ChargesAlwaysFollow, PTL
  DEF Spec, KeepsPromise, Promise!Spec
-----------------------------------------------------------------------------
(* What an answer is worth, for every number of principals and every pinned      *)
(* threshold: a grant rests on the principals its request asked for, and an      *)
(* answer once given stays what it was.                                          *)

(* The five things a step may do to one approval request. *)
ApprovalKinds(id) ==
    \/ approvals[id].status = "absent" /\ approvals'[id].status = "pending"
    \/ /\ approvals[id].status = "pending"
       /\ approvals'[id].hash = approvals[id].hash
       /\ approvals'[id].needed = approvals[id].needed
       /\ \/ approvals'[id].status \in {"pending", "denied", "expired"}
          \/ /\ approvals'[id].status = "granted"
             /\ \/ approvals[id].needed = 1
                \/ Cardinality(approvals'[id].answers) >= approvals[id].needed
    \/ /\ approvals[id].status = "granted"
       /\ \E s \in {"consumed", "expired"} : approvals'[id] = [approvals[id] EXCEPT !.status = s]
    \/ approvals'[id] = approvals[id]

(* Every step treats every request in one of these ways. *)
LEMMA ApprovalStepKinds ==
    ASSUME TypeOK, [Next]_vars, NEW id \in Approvals
    PROVE  ApprovalKinds(id)
<1>0. approvals[id] \in ApprovalRecord
  BY DEF TypeOK
<1>1. CASE approvals' = approvals
  BY <1>1 DEF ApprovalKinds
<1>2. ASSUME NEW x \in Approvals, ApprovalStep(x)
      PROVE  ApprovalKinds(id)
  <2>1. CASE x # id
    <3>1. approvals'[id] = approvals[id]
      BY <1>2, <2>1
      DEF TypeOK, ApprovalStep, PutApprovalRequest, GrantApproval, DenyApproval,
          ExpireApproval, ConsumeApproval
    <3> QED
      BY <3>1 DEF ApprovalKinds
  <2>2. CASE x = id
    <3>1. ASSUME NEW h \in Hashes, NEW n \in 1..MaxNeeded, PutApprovalRequest(id, h, n)
          PROVE  ApprovalKinds(id)
      BY <3>1 DEF PutApprovalRequest, TypeOK, ApprovalKinds
    <3>2. ASSUME NEW v \in Principals \cup {Nobody}, GrantApproval(id, v)
          PROVE  ApprovalKinds(id)
      <4> DEFINE s == IF Reached(approvals[id], v) THEN "granted" ELSE "pending"
      <4>1. approvals'[id] = [approvals[id] EXCEPT !.answers = AnswersWith(approvals[id], v),
                                                   !.status = s]
        BY <3>2 DEF GrantApproval, TypeOK
      <4>2. /\ approvals'[id].hash = approvals[id].hash
            /\ approvals'[id].needed = approvals[id].needed
            /\ approvals'[id].answers = AnswersWith(approvals[id], v)
            /\ approvals'[id].status = s
        BY <1>0, <4>1 DEF ApprovalRecord
      <4>3. approvals[id].status = "pending"
        BY <3>2 DEF GrantApproval, Answerable
      <4>4. s = "granted" => \/ approvals[id].needed = 1
                             \/ Cardinality(AnswersWith(approvals[id], v)) >= approvals[id].needed
        BY DEF Reached
      <4> QED
        BY <4>2, <4>3, <4>4 DEF ApprovalKinds
    <3>3. ASSUME NEW v \in Principals \cup {Nobody}, DenyApproval(id, v)
          PROVE  ApprovalKinds(id)
      <4>1. /\ approvals'[id].hash = approvals[id].hash
            /\ approvals'[id].needed = approvals[id].needed
            /\ approvals'[id].status = "denied"
        BY <1>0, <3>3 DEF DenyApproval, TypeOK, ApprovalRecord
      <4> QED
        BY <3>3, <4>1 DEF DenyApproval, Answerable, ApprovalKinds
    <3>4. CASE ExpireApproval(id)
      <4>1. approvals'[id] = [approvals[id] EXCEPT !.status = "expired"]
        BY <3>4 DEF ExpireApproval, TypeOK
      <4>2. approvals[id].status \in {"pending", "granted"}
        BY <3>4 DEF ExpireApproval, Overdue, GrantedFor
      <4> QED
        BY <1>0, <4>1, <4>2 DEF ApprovalKinds, ApprovalRecord
    <3>5. ASSUME NEW h \in Hashes, ConsumeApproval(id, h)
          PROVE  ApprovalKinds(id)
      BY <3>5 DEF ConsumeApproval, Consumable, GrantedFor, TypeOK, ApprovalKinds
    <3> QED
      BY <1>2, <2>2, <3>1, <3>2, <3>3, <3>4, <3>5 DEF ApprovalStep
  <2> QED
    BY <2>1, <2>2
<1>3. ASSUME NEW k \in Keys, NEW a \in Actions, HolderStep(k, a)
      PROVE  ApprovalKinds(id)
  <2>1. ASSUME NEW h \in Hashes, NEW x \in Approvals, ConsumeApprovalAndReserve(x, k, a, h)
        PROVE  ApprovalKinds(id)
    BY <2>1 DEF ConsumeApprovalAndReserve, Consumable, GrantedFor, TypeOK, ApprovalKinds
  <2> QED
    BY <1>1, <1>3, <2>1
    DEF HolderStep, ReserveEffect, BeginExecution, CommitEffect, FailEffect, MarkAmbiguous,
        ExtendLease, HoldContinuation
<1> QED
  BY <1>1, <1>2, <1>3
  DEF Next, vars, KeyStep, AmbiguateLapsed, ResolveEffect, TakeContinuation, Tick

(* A grant rests on the distinct verified principals its request pinned, for  *)
(* every threshold and however answers, denials and expiries interleave.      *)
THEOREM QuorumAlways == Spec => []QuorumBehindGrant
<1>1. Init => QuorumBehindGrant
  BY DEF Init, QuorumBehindGrant, NoRequest
<1>2. TypeOK /\ QuorumBehindGrant /\ [Next]_vars => QuorumBehindGrant'
  <2> SUFFICES ASSUME TypeOK, QuorumBehindGrant, [Next]_vars, NEW id \in Approvals,
                      approvals'[id].status \in {"granted", "consumed"}
               PROVE  \/ approvals'[id].needed = 1
                      \/ Cardinality(approvals'[id].answers) >= approvals'[id].needed
    BY DEF QuorumBehindGrant
  <2>1. ApprovalKinds(id) /\ approvals[id] \in ApprovalRecord
    BY ApprovalStepKinds DEF TypeOK
  <2>2. ASSUME approvals[id].status = "granted",
               NEW s \in {"consumed", "expired"},
               approvals'[id] = [approvals[id] EXCEPT !.status = s]
        PROVE  \/ approvals'[id].needed = 1
               \/ Cardinality(approvals'[id].answers) >= approvals'[id].needed
    <3>1. /\ approvals'[id].needed = approvals[id].needed
          /\ approvals'[id].answers = approvals[id].answers
      BY <2>1, <2>2 DEF ApprovalRecord
    <3> QED
      BY <2>2, <3>1 DEF QuorumBehindGrant
  <2> QED
    BY <2>1, <2>2 DEF ApprovalKinds, QuorumBehindGrant
<1> QED
  BY <1>1, <1>2, TypeCorrect, PTL DEF Spec

(* A denied, expired or spent answer never comes back into play, and no       *)
(* answer moves to another action hash.                                       *)
THEOREM AnswersStayFinal == Spec => AnswersAreFinal
<1> DEFINE Final(id) ==
        /\ approvals[id].status \in {"denied", "expired", "consumed"} =>
               approvals'[id] = approvals[id]
        /\ approvals[id].status = "granted" =>
               /\ approvals'[id].status \in {"granted", "consumed", "expired"}
               /\ approvals'[id].answers = approvals[id].answers
        /\ approvals[id].status # "absent" => approvals'[id].hash = approvals[id].hash
<1>1. TypeOK /\ [Next]_vars => [\A id \in Approvals : Final(id)]_vars
  <2> SUFFICES ASSUME TypeOK, [Next]_vars, NEW id \in Approvals
               PROVE  Final(id)
    OBVIOUS
  <2>1. ApprovalKinds(id) /\ approvals[id] \in ApprovalRecord
    BY ApprovalStepKinds DEF TypeOK
  <2>2. ASSUME NEW s \in {"consumed", "expired"},
               approvals[id].status = "granted",
               approvals'[id] = [approvals[id] EXCEPT !.status = s]
        PROVE  Final(id)
    BY <2>1, <2>2 DEF ApprovalRecord
  <2> QED
    BY <2>1, <2>2 DEF ApprovalKinds
<1> QED
  BY <1>1, TypeCorrect, PTL DEF Spec, AnswersAreFinal

-----------------------------------------------------------------------------
(* No budget is exceeded *)

HeldOn(l) == {row \in ledger : row.line = l /\ row.held}

(* What a line holds can be counted. *)
Countable == \A l \in Lines : IsFiniteSet(Units(HeldOn(l)))

LEMMA FewerUnits == ASSUME NEW S, NEW R, R \subseteq S PROVE Units(R) \subseteq Units(S)
  BY DEF Units

(* One more row is as many more units as its amount. *)
LEMMA MoreUnits ==
    ASSUME NEW S, IsFiniteSet(Units(S)), NEW q, q.amount \in Nat, NEW R, R \subseteq S \cup {q}
    PROVE  /\ IsFiniteSet(Units(R))
           /\ Cardinality(Units(R)) <= Cardinality(Units(S)) + q.amount
<1> DEFINE Q == {q} \X (1..q.amount)
<1>1. IsFiniteSet(Q) /\ Cardinality(Q) = q.amount
  <2>1. IsFiniteSet({q}) /\ Cardinality({q}) = 1
    BY FS_Singleton
  <2>2. IsFiniteSet(1..q.amount) /\ Cardinality(1..q.amount) = q.amount
    BY FS_Interval
  <2>3. IsFiniteSet(Q) /\ Cardinality(Q) = Cardinality({q}) * Cardinality(1..q.amount)
    BY <2>1, <2>2, FS_Product
  <2> QED
    BY <2>1, <2>2, <2>3
<1>2. /\ IsFiniteSet(Units(S) \cup Q)
      /\ Cardinality(Units(S) \cup Q)
             = Cardinality(Units(S)) + q.amount - Cardinality(Units(S) \cap Q)
  BY <1>1, FS_Union
<1>3. Cardinality(Units(S) \cap Q) \in Nat /\ Cardinality(Units(S)) \in Nat
  BY FS_Intersection, FS_CardinalityType
<1>4. Units(R) \subseteq Units(S) \cup Q
  BY DEF Units
<1>5. /\ IsFiniteSet(Units(R))
      /\ Cardinality(Units(R)) <= Cardinality(Units(S) \cup Q)
      /\ Cardinality(Units(R)) \in Nat
  BY <1>2, <1>4, FS_Subset, FS_CardinalityType
<1> QED
  BY <1>2, <1>3, <1>5

(* A step holds no charge that was not held, or is a reservation that could afford  *)
(* its charges by a reading no later than now.                                      *)
LEMMA LedgerSteps ==
    ASSUME TypeOK, [Next]_vars
    PROVE  /\ now' \in Nat /\ now' >= now
           /\ \/ \A row \in ledger' : row.held => row \in ledger
              \/ \E k \in Keys, a \in Actions, h \in Hashes, t \in Readings :
                    TakeKey(k, a, h, t) /\ now' = now
<1> DEFINE HoldsNone == \A row \in ledger' : row.held => row \in ledger
           TakesOne == \E k \in Keys, a \in Actions, h \in Hashes, t \in Readings :
                           TakeKey(k, a, h, t) /\ now' = now
<1>1. ledger' = ledger => HoldsNone
  OBVIOUS
<1>2. ASSUME NEW k \in Keys, ledger' = ReleasedFor(k) PROVE HoldsNone
  <2> SUFFICES ASSUME NEW row \in ReleasedFor(k), row.held PROVE row \in ledger
    BY <1>2
  <2>1. PICK old \in ledger : /\ row.held <=> (old.held /\ old.key # k)
                              /\ row = IF old.key = k THEN [old EXCEPT !.held = FALSE] ELSE old
    BY <1>2, ReleasedRows DEF TypeOK
  <2> QED
    BY <2>1
<1>3. CASE UNCHANGED vars
  BY <1>1, <1>3 DEF vars, TypeOK
<1>4. CASE Tick
  BY <1>1, <1>4 DEF Tick, TypeOK
<1>5. ASSUME NEW id \in Approvals, ApprovalStep(id) PROVE ledger' = ledger /\ now' = now
  BY <1>5 DEF ApprovalStep, PutApprovalRequest, GrantApproval, DenyApproval, ExpireApproval,
              ConsumeApproval
<1>6. ASSUME NEW k \in Keys, NEW a \in Actions, HolderStep(k, a)
      PROVE  now' = now /\ (HoldsNone \/ TakesOne)
  <2>1. CASE \E h \in Hashes : ReserveEffect(k, a, h)
    BY <1>6, <2>1 DEF ReserveEffect
  <2>2. CASE \E h \in Hashes, id \in Approvals : ConsumeApprovalAndReserve(id, k, a, h)
    BY <1>6, <2>2 DEF ConsumeApprovalAndReserve
  <2>3. CASE FailEffect(k, a)
    BY <1>2, <1>6, <2>3 DEF FailEffect
  <2>4. CASE \/ BeginExecution(k, a) \/ CommitEffect(k, a) \/ MarkAmbiguous(k, a)
             \/ \E until \in 0..(now + SuspendTimeout) : ExtendLease(k, a, until)
             \/ \E c \in Tokens : HoldContinuation(k, a, c)
    BY <1>1, <2>4 DEF BeginExecution, CommitEffect, MarkAmbiguous, ExtendLease, HoldContinuation
  <2> QED
    BY <1>6, <2>1, <2>2, <2>3, <2>4 DEF HolderStep
<1>7. ASSUME NEW k \in Keys, KeyStep(k) PROVE now' = now /\ HoldsNone
  BY <1>1, <1>2, <1>7 DEF KeyStep, AmbiguateLapsed, ResolveEffect, TakeContinuation
<1>8. now \in Nat
  BY DEF TypeOK
<1>9. now' = now => now' \in Nat /\ now' >= now
  BY <1>8
<1> QED
  BY <1>1, <1>3, <1>4, <1>5, <1>6, <1>7, <1>9 DEF Next

(* What a reservation adds to a line is one row, if it charges that line at all. *)
LEMMA TakeAdds ==
    ASSUME TypeOK, NEW k \in Keys, NEW a \in Actions, NEW h \in Hashes, NEW t \in Readings,
           TakeKey(k, a, h, t), NEW l \in Lines
    PROVE  \E q : /\ q.amount = Cost[h][l] /\ Cost[h][l] \in Nat
                  /\ \A row \in ledger' : row.line = l =>
                         row \in ledger \/ (row = q /\ Cost[h][l] > 0)
<1>1. PICK q : q = [line |-> l, key |-> k, attempt |-> effects[k].attempt + 1,
                    amount |-> Cost[h][l], at |-> t, held |-> TRUE]
  OBVIOUS
<1>2. Cost[h][l] \in Nat
  BY StoreConstants
<1>3. ASSUME NEW row \in Rows(h, k, effects[k].attempt + 1, t), row.line = l
      PROVE  row = q /\ Cost[h][l] > 0
  <2>1. PICK m \in {m \in Lines : Cost[h][m] > 0} :
            row = [line |-> m, key |-> k, attempt |-> effects[k].attempt + 1,
                   amount |-> Cost[h][m], at |-> t, held |-> TRUE]
    BY DEF Rows
  <2>2. m = l
    BY <1>3, <2>1
  <2> QED
    BY <1>1, <2>1, <2>2
<1>4. q.amount = Cost[h][l]
  BY <1>1
<1>5. \A row \in ledger' : row.line = l => row \in ledger \/ (row = q /\ Cost[h][l] > 0)
  BY <1>3 DEF TakeKey
<1> QED
  BY <1>2, <1>4, <1>5

LEMMA NextWithinBudget ==
    ASSUME TypeOK, Countable, WithinBudget, [Next]_vars
    PROVE  Countable' /\ WithinBudget'
<1>1. now \in Nat /\ now' \in Nat /\ now' >= now
  BY LedgerSteps DEF TypeOK
<1>2. CASE \A row \in ledger' : row.held => row \in ledger
  <2>1. ASSUME NEW l \in Lines PROVE IsFiniteSet(Units((HeldOn(l))'))
    <3>1. (HeldOn(l))' \subseteq HeldOn(l)
      BY <1>2 DEF HeldOn
    <3> QED
      BY <2>1, <3>1, FewerUnits, FS_Subset DEF Countable
  <2>2. ASSUME NEW b \in Budgets PROVE (Spent(b.line, now - b.window))' <= b.limit
    <3>1. b.line \in Lines /\ b.limit \in Nat /\ b.window \in Nat
      BY StoreConstants
    <3> DEFINE R == (HeldRows(b.line, now - b.window))'
               S == HeldRows(b.line, now - b.window)
    <3>2. R \subseteq S
      BY <1>1, <1>2, <3>1 DEF HeldRows, TypeOK, Consumption
    <3>3. IsFiniteSet(Units(S))
      <4>1. S \subseteq HeldOn(b.line)
        BY DEF HeldRows, HeldOn
      <4> QED
        BY <3>1, <4>1, FewerUnits, FS_Subset DEF Countable
    <3>4. Cardinality(Units(R)) <= Cardinality(Units(S)) /\ IsFiniteSet(Units(R))
      BY <3>2, <3>3, FewerUnits, FS_Subset
    <3>5. Cardinality(Units(S)) <= b.limit
      BY <2>2 DEF WithinBudget, Spent
    <3> QED
      BY <3>1, <3>3, <3>4, <3>5, FS_CardinalityType DEF Spent
  <2> QED
    BY <2>1, <2>2 DEF Countable, WithinBudget
<1>3. ASSUME NEW k \in Keys, NEW a \in Actions, NEW h \in Hashes, NEW t \in Readings,
             TakeKey(k, a, h, t), now' = now
      PROVE  Countable' /\ WithinBudget'
  <2>0. t \in Nat /\ t <= now
    BY <1>1, <1>3 DEF Readings
  <2>1. ASSUME NEW l \in Lines PROVE IsFiniteSet(Units((HeldOn(l))'))
    <3>1. PICK q : /\ q.amount = Cost[h][l] /\ Cost[h][l] \in Nat
                   /\ \A row \in ledger' : row.line = l =>
                          row \in ledger \/ (row = q /\ Cost[h][l] > 0)
      BY <1>3, <2>1, TakeAdds
    <3>2. (HeldOn(l))' \subseteq HeldOn(l) \cup {q}
      BY <3>1 DEF HeldOn
    <3> QED
      BY <2>1, <3>1, <3>2, MoreUnits DEF Countable
  <2>2. ASSUME NEW b \in Budgets PROVE (Spent(b.line, now - b.window))' <= b.limit
    <3>1. b.line \in Lines /\ b.limit \in Nat /\ b.window \in Nat
      BY StoreConstants
    <3>2. PICK q : /\ q.amount = Cost[h][b.line] /\ Cost[h][b.line] \in Nat
                   /\ \A row \in ledger' : row.line = b.line =>
                          row \in ledger \/ (row = q /\ Cost[h][b.line] > 0)
      BY <1>3, <3>1, TakeAdds
    <3> DEFINE R == (HeldRows(b.line, now - b.window))'
               S == HeldRows(b.line, now - b.window)
               P == HeldRows(b.line, t - b.window)
    <3>3. IsFiniteSet(Units(S)) /\ IsFiniteSet(Units(P))
      <4>1. S \subseteq HeldOn(b.line) /\ P \subseteq HeldOn(b.line)
        BY DEF HeldRows, HeldOn
      <4> QED
        BY <3>1, <4>1, FewerUnits, FS_Subset DEF Countable
    <3>4. Cardinality(Units(S)) \in Nat /\ Cardinality(Units(P)) \in Nat
      BY <3>3, FS_CardinalityType
    <3>5. CASE Cost[h][b.line] = 0
      <4>1. R \subseteq S
        BY <1>3, <3>2, <3>5 DEF HeldRows
      <4>2. Cardinality(Units(R)) <= Cardinality(Units(S)) /\ IsFiniteSet(Units(R))
        BY <3>3, <4>1, FewerUnits, FS_Subset
      <4>3. Cardinality(Units(S)) <= b.limit
        BY <2>2 DEF WithinBudget, Spent
      <4> QED
        BY <3>1, <3>4, <4>2, <4>3, FS_CardinalityType DEF Spent
    <3>6. CASE Cost[h][b.line] > 0
      <4>1. R \subseteq P \cup {q}
        BY <1>1, <1>3, <2>0, <3>1, <3>2 DEF HeldRows, TypeOK, Consumption
      <4>2. /\ IsFiniteSet(Units(R))
            /\ Cardinality(Units(R)) <= Cardinality(Units(P)) + Cost[h][b.line]
        BY <3>2, <3>3, <4>1, MoreUnits
      <4>3. Cardinality(Units(P)) + Cost[h][b.line] <= b.limit
        BY <1>3, <2>2, <3>6 DEF TakeKey, Affordable, Spent
      <4> QED
        BY <3>1, <3>2, <3>4, <4>2, <4>3, FS_CardinalityType DEF Spent
    <3> QED
      BY <3>2, <3>5, <3>6
  <2> QED
    BY <2>1, <2>2 DEF Countable, WithinBudget
<1> QED
  BY <1>2, <1>3, LedgerSteps

(* No budget is exceeded over its rolling window: the reservation that decides last *)
(* has a reading no later than now, so the window it checked starts no later than   *)
(* the one the property looks at, and only reservations add.                        *)
THEOREM BudgetsHold == Spec => []WithinBudget
<1>1. Init => Countable /\ WithinBudget
  <2> SUFFICES ASSUME Init PROVE Countable /\ WithinBudget
    OBVIOUS
  <2>1. Units({}) = {}
    BY DEF Units
  <2>2. \A l \in Lines : HeldOn(l) = {}
    BY DEF Init, HeldOn
  <2>3. \A b \in Budgets : HeldRows(b.line, now - b.window) = {} /\ b.limit \in Nat
    BY StoreConstants DEF Init, HeldRows
  <2>4. IsFiniteSet({}) /\ Cardinality({}) = 0
    BY FS_EmptySet
  <2>5. Countable
    BY <2>1, <2>2, <2>4 DEF Countable
  <2>6. ASSUME NEW b \in Budgets PROVE Spent(b.line, now - b.window) <= b.limit
    <3>1. Spent(b.line, now - b.window) = 0
      BY <2>1, <2>3, <2>4, <2>6 DEF Spent
    <3> QED
      BY <2>3, <2>6, <3>1
  <2> QED
    BY <2>5, <2>6 DEF WithinBudget
<1> QED
  BY <1>1, NextWithinBudget, TypeCorrect, PTL DEF Spec
=============================================================================
