---------------------------- MODULE Kernel_pardons ----------------------------
(***************************************************************************)
(* What the kernel promises about effects, approvals, attempts, receipts   *)
(* and charges, proved deed by deed from what Kernel_proofs establishes of *)
(* every call.                                                             *)
(***************************************************************************)
EXTENDS Kernel_proofs

Owns(c) == Owner(calls[c], remote[c])
Record(c) == effects[Key(c)]
Runs(c) == Leg(remote[c])

(* An approval is consumed by exactly one call, for its own hash. *)
SpendsOwn ==
    /\ \A c \in Calls : calls[c].spent # NoApproval =>
          /\ approvals[calls[c].spent].status = "consumed"
          /\ approvals[calls[c].spent].hash = HashOf[c]
    /\ \A c, d \in Calls :
          c # d /\ calls[c].spent # NoApproval => calls[c].spent # calls[d].spent
    /\ \A id \in Approvals : approvals[id].status = "consumed" =>
          \E c \in Calls : calls[c].spent = id

(* Every call that got its key has a number of its own, never above the record's. *)
Numbered ==
    /\ \A c \in Everyone : Owns(c) => calls[c].attempt <= Record(c).attempt
    /\ \A c \in Calls : Owns(c) => calls[c].attempt >= 1
    /\ \A c, d \in Calls : c # d /\ Owns(c) /\ Owns(d) /\ Key(c) = Key(d) =>
          calls[c].attempt # calls[d].attempt

(* An action that is being resumed, or may be, is one whose own call was suspended. *)
Asking(a) == \E c \in Calls : ActionOf[c] = a /\ remote[c] = "asking"

(* One that is, or may be, was led by its own call, whatever the remote did since. *)
Led(a) == \E c \in Calls : ActionOf[c] = a /\ remote[c] \in {"asking", "acted"}
Followed ==
    /\ \A k \in Keys : continuations[k].token # NoToken => Led(continuations[k].action)
    /\ \A c \in Resumers : ~At(c, "idle") => Led(Action(c))

(* At most one leg of an action runs, and none while a value is held for it. *)
Solo ==
    /\ \A k \in Keys : continuations[k].token # NoToken => Asking(continuations[k].action)
    /\ \A c \in Resumers : ~At(c, "idle") => Asking(Action(c))
    /\ \A c, d \in Everyone : c # d /\ Runs(c) /\ Runs(d) => Action(c) # Action(d)
    /\ \A k \in Keys, c \in Everyone :
          continuations[k].token # NoToken /\ Runs(c) => continuations[k].action # Action(c)
    /\ \A j, k \in Keys :
          j # k /\ continuations[j].token # NoToken /\ continuations[k].token # NoToken =>
              continuations[j].action # continuations[k].action

(* The record carries the action of a call exactly as long as its attempt is the last. *)
Named ==
    /\ \A c \in Calls : Owns(c) =>
          (Record(c).action = Action(c) <=> calls[c].attempt = Record(c).attempt)
    /\ \A c \in Resumers : Owns(c) /\ Record(c).action = Action(c) =>
          calls[c].attempt = Record(c).attempt

(* A leg whose attempt the record is done with was pardoned. *)
Pardoned ==
    /\ \A k \in Keys : /\ IsFiniteSet(forgiven[k])
                       /\ \A i \in forgiven[k] :
                             /\ i <= effects[k].attempt
                             /\ i = effects[k].attempt => effects[k].state = "failed"
    /\ \A c \in Calls : Owns(c) /\ Runs(c) =>
          \/ calls[c].attempt \in forgiven[Key(c)]
          \/ calls[c].attempt = Record(c).attempt /\ Record(c).state # "failed"

(* What may still happen, or has happened, on a key that has record r: a leg that *)
(* runs, a call that is about to, a value to resume with.                         *)
Staked(k, r, x, m) ==
    /\ x.key = k
    /\ \/ Leg(m)
       \/ m = "idle" /\ x.pc \in Secures /\ r.action = x.action /\ r.state \in Unfinished
Stakes(k) == {c \in Everyone : Staked(k, effects[k], calls[c], remote[c])}
Tokens1(k) == IF continuations[k].token # NoToken THEN 1 ELSE 0
Taken1(k) == IF Free(effects[k]) THEN 0 ELSE 1

CountedOn(k) ==
    /\ IsFiniteSet(Stakes(k))
    /\ Cardinality(Stakes(k)) + Tokens1(k) <= Cardinality(forgiven[k]) + Taken1(k)

Counted == \A k \in Keys : CountedOn(k)

(* A commitment that is claimed is one the record has, for good. *)
Truthful ==
    \A c \in Everyone : Claims(calls[c], receipts[c]) /\ Keyed(c) =>
        /\ Record(c).state = "committed" /\ Record(c).action = Action(c)
        /\ Record(c).attempt = calls[c].attempt

(* What has its key was charged for it. *)
Paid ==
    \A c \in Calls, l \in Lines : Owns(c) /\ Cost[HashOf[c]][l] > 0 =>
        \E row \in ledger : /\ row.line = l /\ row.key = Key(c)
                           /\ row.attempt = calls[c].attempt
                           /\ row.amount = Cost[HashOf[c]][l]

-----------------------------------------------------------------------------
(* What a step does to the record of a key *)

(* A record is moved on to state s, for the attempt it has. *)
Wrote(k, s) ==
    /\ effects'[k].state = s /\ effects'[k].action = effects[k].action
    /\ effects'[k].attempt = effects[k].attempt
    /\ \A j \in Keys \ {k} : effects'[j] = effects[j]

LEMMA TransitionWrites ==
    ASSUME TypeOK, NEW k \in Keys, NEW s \in EffectStates,
           effects' = [effects EXCEPT ![k] = Transitioned(effects[k], s)]
    PROVE  Wrote(k, s) /\ effects'[k].resolvedBy = effects[k].resolvedBy
  BY DEF TypeOK, Transitioned, EffectRecord, Wrote

LEMMA ResolveWrites ==
    ASSUME TypeOK, NEW k \in Keys, NEW s \in Resolutions, NEW who \in Resolvers,
           ResolveEffect(k, s, who)
    PROVE  /\ effects[k].state = "ambiguous" /\ Wrote(k, s) /\ effects'[k].resolvedBy = who
           /\ continuations' = continuations
<1>1. PICK r \in EffectRecord : r = effects[k]
  BY DEF TypeOK
<1>2. PICK q : q = [Transitioned(r, s) EXCEPT !.resolvedBy = who]
  OBVIOUS
<1>3. /\ q.state = s /\ q.action = r.action /\ q.attempt = r.attempt /\ q.resolvedBy = who
  BY <1>2 DEF Transitioned, EffectRecord
<1>4. effects'[k] = q /\ \A j \in Keys \ {k} : effects'[j] = effects[j]
  BY <1>1, <1>2 DEF ResolveEffect, TypeOK
<1> QED
  BY <1>1, <1>3, <1>4 DEF Wrote, ResolveEffect

LEMMA AcquireWrites ==
    ASSUME TypeOK, NEW k \in Keys, NEW a, NEW h, NEW t, TakeKey(k, a, h, t)
    PROVE  /\ Free(effects[k]) /\ effects'[k].state = "reserved" /\ effects'[k].action = a
           /\ effects'[k].attempt = effects[k].attempt + 1
           /\ effects'[k].resolvedBy = NoResolver
           /\ \A j \in Keys \ {k} : effects'[j] = effects[j]
  BY DEF TypeOK, TakeKey, Reserved

LEMMA HoldWrites ==
    ASSUME TypeOK, NEW k \in Keys, NEW a \in Actions, NEW tok \in Tokens, HoldContinuation(k, a, tok)
    PROVE  /\ effects[k].state = "executing" /\ effects[k].action = a /\ Wrote(k, "executing")
           /\ effects'[k].resolvedBy = effects[k].resolvedBy
           /\ continuations'[k].token = tok /\ continuations'[k].action = a
           /\ \A j \in Keys \ {k} : continuations'[j] = continuations[j]
<1>1. PICK u : effects' = [effects EXCEPT ![k].lease = u]
  BY DEF HoldContinuation
<1> QED
  BY <1>1 DEF HoldContinuation, TypeOK, EffectRecord, Wrote, Extendable, HeldIn

LEMMA TakeContinuationWrites ==
    ASSUME TypeOK, NEW k \in Keys, NEW tok \in Tokens, TakeContinuation(k, tok)
    PROVE  /\ effects[k].state = "executing" /\ effects' = effects
           /\ continuations[k].token = tok /\ tok # NoToken
           /\ continuations'[k].token = NoToken
           /\ \A j \in Keys \ {k} : continuations'[j] = continuations[j]
  BY StoreConstants DEF TakeContinuation, TypeOK, Continuation

(* A call that owns its key is one that was made. *)
LEMMA OwnersAreMade ==
    ASSUME CallInv, NEW c \in Everyone, Owns(c)
    PROVE  /\ ~At(c, "idle") /\ Key(c) \in Keys /\ Action(c) \in Actions
           /\ calls[c].attempt \in Nat
           /\ c \in Calls => Action(c) = ActionOf[c]
  BY OfCall
  DEF Owns, Owner, CallOK, CallState, IsItsOwn, IsSent, Started, Secures, At, Key, Action

(* What a deed does to the record of the call. *)
LEMMA DeedRecord ==
    ASSUME CallInv, NEW c \in Everyone, NEW y, NEW n, Deed(c, calls[c], y, remote[c], n)
    PROVE  /\ \A k \in Keys :
                 \/ /\ effects'[k].attempt = effects[k].attempt
                    /\ effects'[k].action = effects[k].action
                 \/ /\ Acquires(c, calls[c], y, remote[c], n) /\ k = Key(c)
                    /\ effects'[k].attempt = effects[k].attempt + 1
                    /\ effects'[k].action = Action(c)
           /\ \/ Owner(y, n) => Owns(c) /\ Same(calls[c], y)
              \/ Acquires(c, calls[c], y, remote[c], n) \/ TakesUp(c, calls[c], y, remote[c], n)
<1> DEFINE x == calls[c]
           m == remote[c]
           Keeps == \A k \in Keys : /\ effects'[k].attempt = effects[k].attempt
                                    /\ effects'[k].action = effects[k].action
<1>0. TypeOK /\ (x.pc # "idle" => x.action \in Actions)
  BY OfCall DEF CallInv, CallOK, IsItsOwn
<1>1. CASE Prepares(c, x, y, m, n) \/ Continues(c, x, y, m, n)
  BY <1>1 DEF Prepares, Continues, Still, Owns
<1>2. CASE Acquires(c, x, y, m, n)
  BY <1>0, <1>2, AcquireWrites DEF Acquires, Key, Action
<1>3. CASE Starts(c, x, y, m, n)
  <2>1. Keeps
    BY <1>0, <1>3, TransitionWrites
    DEF Starts, BeginExecution, Owner, Wrote, EffectStates, Unfinished
  <2> QED
    BY <1>3, <2>1 DEF Starts, Owns
<1>4. CASE Withdraws(c, x, y, m, n)
  <2>1. Keeps
    BY <1>0, <1>4, TransitionWrites
    DEF Withdraws, FailEffect, Owner, Wrote, EffectStates, Resolutions
  <2> QED
    BY <1>4, <2>1 DEF Withdraws, Owns
<1>5. CASE Concludes(c, x, y, m, n)
  <2>1. Keeps
    BY <1>0, <1>5, TransitionWrites
    DEF Concludes, CommitEffect, MarkAmbiguous, Wrote, EffectStates, Resolutions
  <2> QED
    BY <1>5, <2>1 DEF Concludes, Owns, Owner, Leg
<1>6. CASE Parks(c, x, y, m, n)
  <2>1. x.action \in Actions
    BY <1>0, <1>6, OfCall DEF Parks, CallOK, IsSent, Started
  <2>2. Keeps
    BY <1>0, <1>6, <2>1, HoldWrites DEF Parks, Wrote
  <2> QED
    BY <1>6, <2>2 DEF Parks, Owns, Owner
<1>7. CASE TakesUp(c, x, y, m, n)
  BY <1>7 DEF TakesUp, TakeContinuation
<1>8. CASE Declares(c, x, y, m, n)
  <2>1. Keeps
    BY <1>0, <1>8, TransitionWrites
    DEF Declares, AmbiguateLapsed, Wrote, EffectStates
  <2> QED
    BY <1>8, <2>1 DEF Declares, Owns
<1>9. CASE Adjudicates(c, x, y, m, n)
  <2>1. Keeps
    BY <1>0, <1>9, ResolveWrites DEF Adjudicates, Wrote, Resolvers
  <2> QED
    BY <1>9, <2>1 DEF Adjudicates, Owns
<1> QED
  BY <1>1, <1>2, <1>3, <1>4, <1>5, <1>6, <1>7, <1>8, <1>9 DEF Deed

(* A step from outside moves no attempt and touches no call. *)
LEMMA OutsideRecord ==
    ASSUME CallInv, Outside
    PROVE  /\ \A k \in Keys : /\ effects'[k].attempt = effects[k].attempt
                              /\ effects'[k].action = effects[k].action
           /\ calls' = calls /\ remote' = remote /\ receipts' = receipts
           /\ continuations' = continuations
<1>1. CASE Still
  BY <1>1 DEF Outside, Still
<1>2. CASE \E k \in Keys, s \in Resolutions : ResolveEffect(k, s, "human")
  BY <1>2, ResolveWrites DEF Outside, CallInv, Wrote, Resolvers
<1> QED
  BY <1>1, <1>2 DEF Outside

-----------------------------------------------------------------------------
(* Every call has a number of its own *)

LEMMA InitNumbered == KernelInit => Numbered
  BY DEF KernelInit, Numbered, Owns, Owner, IdleCall, Secures, Everyone

LEMMA StepNumbered ==
    ASSUME CallInv, CallInv', Numbered, NEW c \in Everyone, Stepped(c)
    PROVE  Numbered'
<1>1. PICK y \in CallState, n \in Legs, h \in Results : StepOf(c, y, n, h)
  BY DEF Stepped
<1> DEFINE x == calls[c]
           m == remote[c]
<1>2. /\ calls'[c] = y /\ remote'[c] = n
      /\ \A d \in Everyone \ {c} : calls'[d] = calls[d] /\ remote'[d] = remote[d]
  BY <1>1 DEF StepOf, CallInv, KernelTyped
<1>3. Deed(c, x, y, m, n)
  BY <1>1 DEF StepOf
<1>4. \A k \in Keys : /\ effects[k].attempt \in Nat
                      /\ effects'[k].attempt \in {effects[k].attempt, effects[k].attempt + 1}
  BY <1>3, DeedRecord DEF CallInv, TypeOK, EffectRecord
<1>5. \A d \in Everyone : (Owns(d))' =>
          \/ Owns(d) /\ Same(calls[d], calls'[d])
          \/ d = c /\ (Acquires(c, x, y, m, n) \/ TakesUp(c, x, y, m, n))
  BY <1>2, <1>3, DeedRecord DEF Owns, Same
<1>6. Acquires(c, x, y, m, n) =>
          /\ c \in Calls /\ y.key \in Keys /\ y.attempt = effects[y.key].attempt + 1
          /\ effects'[y.key].attempt = effects[y.key].attempt + 1
  BY AcquireWrites DEF Acquires, CallInv
<1>7. TakesUp(c, x, y, m, n) =>
          /\ c \notin Calls /\ y.key \in Keys /\ y.attempt = effects[y.key].attempt
  BY KernelConstants DEF TakesUp
<1>8. ASSUME NEW d \in Everyone, (Owns(d))' PROVE calls'[d].attempt <= effects'[calls'[d].key].attempt
  <2>1. CASE Owns(d) /\ Same(calls[d], calls'[d])
    <3>1. calls[d].attempt <= effects[calls[d].key].attempt /\ calls[d].attempt \in Nat
          /\ calls[d].key \in Keys
      BY <1>8, <2>1, OwnersAreMade DEF Numbered, Record, Key
    <3> QED
      BY <1>4, <2>1, <3>1 DEF Same
  <2>2. CASE d = c /\ (Acquires(c, x, y, m, n) \/ TakesUp(c, x, y, m, n))
    BY <1>2, <1>4, <1>6, <1>7, <2>2
  <2> QED
    BY <1>5, <1>8, <2>1, <2>2
<1>9. ASSUME NEW d \in Calls, (Owns(d))' PROVE calls'[d].attempt >= 1
  <2>0. d \in Everyone
    BY DEF Everyone
  <2>1. CASE Owns(d) /\ Same(calls[d], calls'[d])
    BY <2>1 DEF Numbered, Same
  <2>2. CASE d = c /\ (Acquires(c, x, y, m, n) \/ TakesUp(c, x, y, m, n))
    BY <1>2, <1>4, <1>6, <1>7, <2>2
  <2> QED
    BY <1>5, <1>9, <2>0, <2>1, <2>2
<1>10. ASSUME NEW d \in Calls, NEW e \in Calls, d # e, (Owns(d))', (Owns(e))',
              calls'[d].key = calls'[e].key
       PROVE  calls'[d].attempt # calls'[e].attempt
  <2>0. d \in Everyone /\ e \in Everyone
    BY DEF Everyone
  <2>1. CASE Owns(d) /\ Same(calls[d], calls'[d]) /\ Owns(e) /\ Same(calls[e], calls'[e])
    BY <1>10, <2>1 DEF Numbered, Same, Key
  <2>2. ASSUME NEW f \in Calls, NEW g \in Calls, f = c, g # c, Acquires(c, x, y, m, n), Owns(g),
               calls'[f].key = calls'[g].key
        PROVE  calls'[f].attempt # calls'[g].attempt
    <3>1. g \in Everyone
      BY DEF Everyone
    <3>2. calls[g].attempt <= effects[calls[g].key].attempt /\ calls[g].attempt \in Nat
      BY <2>2, <3>1, OwnersAreMade DEF Numbered, Record, Key
    <3> QED
      BY <1>2, <1>4, <1>6, <2>2, <3>1, <3>2
  <2> QED
    BY <1>5, <1>7, <1>10, <2>0, <2>1, <2>2
<1> QED
  BY <1>8, <1>9, <1>10 DEF Numbered, Key, Record

LEMMA OutsideNumbered == ASSUME CallInv, Numbered, Outside PROVE Numbered'
<1>1. /\ \A k \in Keys : effects'[k].attempt = effects[k].attempt
      /\ calls' = calls /\ remote' = remote
  BY OutsideRecord
<1> QED
  BY <1>1 DEF Numbered, Owns, Owner, Record, Key

(* No two calls ever run one effect under the same attempt number, and none under a  *)
(* number the record has not reached.                                                *)
THEOREM AttemptsAreNumbered == KernelSpec => []Numbered
<1>1. CallInv /\ CallInv' /\ Numbered /\ [KernelNext]_kernelVars => Numbered'
  <2> SUFFICES ASSUME CallInv, CallInv', Numbered, [KernelNext]_kernelVars PROVE Numbered'
    OBVIOUS
  <2> QED
    BY SomebodySteps, StepNumbered, OutsideNumbered
<1> QED
  BY <1>1, InitNumbered, CallsAreOrderly, PTL DEF KernelSpec

(* Numbers of their own, none above the ceiling, are no more than the ceiling. *)
LEMMA NumberedCeiling == CallInv /\ Numbered => CeilingHolds
<1> SUFFICES ASSUME CallInv, Numbered, NEW k \in Keys
             PROVE  Cardinality({c \in Calls : Key(c) = k /\ Ran(c)}) <= Ceiling
  BY DEF CeilingHolds
<1> DEFINE S == {c \in Calls : Key(c) = k /\ Ran(c)}
           f == [c \in S |-> calls[c].attempt]
<1>1. ASSUME NEW c \in S PROVE Owns(c) /\ f[c] \in 1..Ceiling /\ Key(c) = k /\ c \in Calls
  <2>1. c \in Everyone /\ Owns(c)
    BY DEF Everyone, Owns, Owner, Ran, Key
  <2>2. calls[c].attempt \in Nat /\ calls[c].attempt >= 1 /\ calls[c].attempt <= Ceiling
    BY <1>1, <2>1, OwnersAreMade, OfCall DEF Numbered, CallOK, IsSecured, Ran, Key, Owns, Owner
  <2> QED
    BY <2>1, <2>2, KernelConstants
<1>2. f \in [S -> 1..Ceiling]
  BY <1>1
<1>3. ASSUME NEW c \in S, NEW d \in S, f[c] = f[d] PROVE c = d
  BY <1>1, <1>3 DEF Numbered
<1>4. f \in Injection(S, 1..Ceiling)
  BY <1>2, <1>3 DEF Injection, IsInjective
<1>5. Ceiling \in Nat /\ Ceiling >= 1
  BY KernelConstants
<1>6. IsFiniteSet(1..Ceiling) /\ Cardinality(1..Ceiling) = Ceiling
  BY <1>5, FS_Interval
<1>7. Cardinality(S) <= Cardinality(1..Ceiling)
  BY <1>4, <1>6, FS_Injection
<1> QED
  BY <1>6, <1>7

(* No more executors start for one effect than its ceiling allows: each that started *)
(* has a number of its own, and none began with one above the ceiling.               *)
THEOREM CeilingAlwaysHolds == KernelSpec => []CeilingHolds
  BY NumberedCeiling, CallsAreOrderly, AttemptsAreNumbered, PTL

-----------------------------------------------------------------------------
(* An approval is spent once, by the call that consumed it *)

LEMMA InitSpends == KernelInit => SpendsOwn
  BY DEF KernelInit, Init, NoRequest, SpendsOwn, IdleCall, Everyone

(* What is consumed stays what it was. *)
LEMMA ConsumedStays ==
    ASSUME TypeOK, [Next]_vars, NEW id \in Approvals, approvals[id].status = "consumed"
    PROVE  approvals'[id] = approvals[id]
  BY ApprovalStepKinds DEF ApprovalKinds

LEMMA SpentTyped ==
    ASSUME CallInv, NEW c \in Calls
    PROVE  calls[c].spent \in Approvals \cup {NoApproval}
  BY OfCall DEF CallOK, CallState, Everyone

LEMMA StepSpends ==
    ASSUME CallInv, CallInv', SpendsOwn, NEW c \in Everyone, Stepped(c)
    PROVE  SpendsOwn'
<1>1. PICK y \in CallState, n \in Legs, h \in Results : StepOf(c, y, n, h)
  BY DEF Stepped
<1>2. /\ calls'[c] = y
      /\ \A d \in Everyone \ {c} : calls'[d] = calls[d]
      /\ TypeOK /\ [Next]_vars /\ Calls \subseteq Everyone
  BY <1>1 DEF StepOf, CallInv, KernelTyped, Everyone
<1>3. CASE y.spent = calls[c].spent /\ ConsumesNone
  <2>1. \A d \in Calls : calls'[d].spent = calls[d].spent
    BY <1>2, <1>3
  <2>2. \A id \in Approvals : approvals'[id].status = "consumed" <=> approvals[id].status = "consumed"
    BY <1>2, <1>3, ConsumedStays DEF ConsumesNone
  <2>3. \A d \in Calls : calls[d].spent # NoApproval => approvals'[calls[d].spent] = approvals[calls[d].spent]
    BY <1>2, ConsumedStays, SpentTyped DEF SpendsOwn
  <2> QED
    BY <2>1, <2>2, <2>3, SpentTyped DEF SpendsOwn
<1>4. CASE /\ c \in Calls /\ calls[c].spent = NoApproval /\ y.spent \in Approvals
           /\ GrantedFor(y.spent, HashOf[c])
           /\ approvals' = [approvals EXCEPT ![y.spent].status = "consumed"]
  <2>1. /\ approvals'[y.spent].status = "consumed" /\ approvals'[y.spent].hash = HashOf[c]
        /\ \A id \in Approvals \ {y.spent} : approvals'[id] = approvals[id]
        /\ approvals[y.spent].status # "consumed"
    BY <1>2, <1>4 DEF TypeOK, ApprovalRecord, GrantedFor
  <2>2. \A d \in Calls \ {c} : calls[d].spent # y.spent /\ calls'[d].spent = calls[d].spent
    BY <1>2, <1>4, <2>1, KernelConstants DEF SpendsOwn
  <2>3. ASSUME NEW d \in Calls, calls'[d].spent # NoApproval
        PROVE  /\ approvals'[calls'[d].spent].status = "consumed"
               /\ approvals'[calls'[d].spent].hash = HashOf[d]
    BY <1>2, <1>4, <2>1, <2>2, <2>3, SpentTyped DEF SpendsOwn
  <2>4. ASSUME NEW d \in Calls, NEW e \in Calls, d # e, calls'[d].spent # NoApproval
        PROVE  calls'[d].spent # calls'[e].spent
    BY <1>2, <1>4, <2>2, <2>4 DEF SpendsOwn
  <2>5. ASSUME NEW id \in Approvals, approvals'[id].status = "consumed"
        PROVE  \E d \in Calls : calls'[d].spent = id
    <3>1. CASE id = y.spent
      BY <1>2, <1>4, <3>1
    <3>2. CASE id # y.spent
      <4>1. PICK d \in Calls : calls[d].spent = id
        BY <2>1, <2>5, <3>2 DEF SpendsOwn
      <4>2. d # c
        BY <1>4, <2>5, <4>1, KernelConstants
      <4> QED
        BY <2>2, <4>1, <4>2
    <3> QED
      BY <3>1, <3>2
  <2> QED
    BY <2>3, <2>4, <2>5 DEF SpendsOwn
<1> QED
  BY <1>1, <1>3, <1>4 DEF StepOf, Spends

LEMMA OutsideSpends == ASSUME CallInv, SpendsOwn, Outside PROVE SpendsOwn'
<1>1. calls' = calls /\ ConsumesNone /\ [Next]_vars /\ TypeOK
  BY DEF Outside, CallInv
<1>2. \A id \in Approvals : approvals'[id].status = "consumed" <=> approvals[id].status = "consumed"
  BY <1>1, ConsumedStays DEF ConsumesNone
<1>3. \A d \in Calls : calls[d].spent # NoApproval => approvals'[calls[d].spent] = approvals[calls[d].spent]
  BY <1>1, ConsumedStays, SpentTyped DEF SpendsOwn
<1> QED
  BY <1>1, <1>2, <1>3, SpentTyped DEF SpendsOwn

LEMMA SpendsOnce == CallInv /\ SpendsOwn => OneRunPerApproval
<1> SUFFICES ASSUME CallInv, SpendsOwn PROVE OneRunPerApproval
  OBVIOUS
<1>1. \A c \in Calls : Ran(c) /\ Approving(c) => calls[c].spent # NoApproval
  BY OfCall DEF CallOK, IsSecured, Ran, Approving, Everyone
<1> QED
  BY <1>1 DEF SpendsOwn, OneRunPerApproval

(* What ran under an approval ran under one of its own, granted for its very hash    *)
(* and spent for good, and nothing is consumed except by a call that got everything  *)
(* it came for.                                                                      *)
THEOREM ApprovalsRunOnce == KernelSpec => []OneRunPerApproval
<1>1. CallInv /\ CallInv' /\ SpendsOwn /\ [KernelNext]_kernelVars => SpendsOwn'
  <2> SUFFICES ASSUME CallInv, CallInv', SpendsOwn, [KernelNext]_kernelVars PROVE SpendsOwn'
    OBVIOUS
  <2> QED
    BY SomebodySteps, StepSpends, OutsideSpends
<1> QED
  BY <1>1, SpendsOnce, InitSpends, CallsAreOrderly, PTL DEF KernelSpec

-----------------------------------------------------------------------------
(* One leg of an action at a time *)

LEMMA InitSolo == KernelInit => Solo
  BY DEF KernelInit, Init, Solo, Runs, Leg, At, IdleCall, Everyone

(* What is asked of a human through the remote stays asked. *)
LEMMA AskingStays ==
    ASSUME CallInv, NEW c \in Everyone, NEW y, NEW n, Deed(c, calls[c], y, remote[c], n),
           remote' = [remote EXCEPT ![c] = n], NEW a, Asking(a)
    PROVE  (Asking(a))'
<1>1. PICK e \in Calls : ActionOf[e] = a /\ remote[e] = "asking"
  BY DEF Asking
<1>2. remote'[e] = "asking"
  BY <1>1
  DEF Deed, Prepares, Continues, Acquires, Starts, Withdraws, Concludes, Parks, TakesUp, Declares,
      Adjudicates, CallInv, KernelTyped, Everyone, Leg
<1> QED
  BY <1>1, <1>2 DEF Asking

(* Who runs has its action. *)
LEMMA RunnersAreMade ==
    ASSUME CallInv, NEW c \in Everyone, remote[c] # "idle"
    PROVE  /\ ~At(c, "idle") /\ Action(c) \in Actions
           /\ c \in Calls => Action(c) = ActionOf[c]
           /\ c \notin Calls => c \in Resumers
  BY OfCall DEF CallOK, IsItsOwn, IsSent, Started, At, Action, Everyone

(* A call of execute that has not run shares its action with no leg and no value. *)
LEMMA FirstOfItsAction ==
    ASSUME CallInv, Solo, NEW c \in Calls, remote[c] = "idle"
    PROVE  /\ \A d \in Everyone : d # c /\ Runs(d) => Action(d) # ActionOf[c]
           /\ \A k \in Keys : continuations[k].token # NoToken =>
                  continuations[k].action # ActionOf[c]
           /\ ~Asking(ActionOf[c])
<1>1. ~Asking(ActionOf[c])
  BY OneCallPerAction DEF Asking
<1>2. ASSUME NEW d \in Everyone, d # c, Runs(d) PROVE Action(d) # ActionOf[c]
  <2>1. remote[d] # "idle"
    BY <1>2 DEF Runs, Leg
  <2>2. CASE d \in Calls
    BY <1>2, <2>1, <2>2, RunnersAreMade, OneCallPerAction
  <2>3. CASE d \in Resumers
    BY <1>1, <1>2, <2>1, <2>3, RunnersAreMade DEF Solo
  <2> QED
    BY <2>2, <2>3 DEF Everyone
<1> QED
  BY <1>1, <1>2 DEF Solo

(* Where a leg can come from: it ran already, it is the first of its action, or it *)
(* is resumed on a value held for its action.                                      *)
LEMMA LegsBegin ==
    ASSUME CallInv, NEW c \in Everyone, NEW y, NEW n, Deed(c, calls[c], y, remote[c], n),
           CallOK(c, y, n, receipts'[c]), Leg(n)
    PROVE  \/ Runs(c) /\ Same(calls[c], y)
           \/ c \in Calls /\ remote[c] = "idle" /\ y.action = ActionOf[c]
           \/ TakesUp(c, calls[c], y, remote[c], n)
<1>1. CASE Prepares(c, calls[c], y, remote[c], n) \/ Starts(c, calls[c], y, remote[c], n)
  BY <1>1, KernelConstants DEF Prepares, Starts, CallOK, IsItsOwn, IsSent, Started, Leg
<1>2. CASE ~Prepares(c, calls[c], y, remote[c], n) /\ ~Starts(c, calls[c], y, remote[c], n)
  BY <1>2
  DEF Deed, Continues, Acquires, Withdraws, Concludes, Parks, Declares, Adjudicates, Leg, Runs
<1> QED
  BY <1>1, <1>2

(* Where a held value can come from. *)
LEMMA ValuesMove ==
    ASSUME CallInv, NEW c \in Everyone, NEW y, NEW n, Deed(c, calls[c], y, remote[c], n)
    PROVE  \/ continuations' = continuations
           \/ /\ Parks(c, calls[c], y, remote[c], n)
              /\ Key(c) \in Keys /\ continuations'[Key(c)].action = Action(c)
              /\ continuations'[Key(c)].token # NoToken
              /\ \A j \in Keys \ {Key(c)} : continuations'[j] = continuations[j]
           \/ /\ TakesUp(c, calls[c], y, remote[c], n)
              /\ y.key \in Keys /\ y.action = continuations[y.key].action
              /\ continuations[y.key].token # NoToken /\ continuations'[y.key].token = NoToken
              /\ \A j \in Keys \ {y.key} : continuations'[j] = continuations[j]
<1>0. TypeOK
  BY DEF CallInv
<1>1. CASE Parks(c, calls[c], y, remote[c], n)
  <2>1. calls[c].action \in Actions
    BY <1>1, RunnersAreMade DEF Parks, Action
  <2>2. PICK tok \in Tokens : HoldContinuation(Key(c), Action(c), tok)
    BY <1>1 DEF Parks, Key, Action
  <2>3. Key(c) \in Keys /\ Action(c) \in Actions /\ tok # NoToken
    BY <1>1, <2>1, StoreConstants DEF Parks, Key, Action
  <2> QED
    BY <1>0, <1>1, <2>2, <2>3, HoldWrites
<1>2. CASE TakesUp(c, calls[c], y, remote[c], n)
  <2>1. PICK k \in Keys, tok \in Tokens :
            TakeContinuation(k, tok) /\ y.key = k /\ y.action = continuations[k].action
    BY <1>2 DEF TakesUp
  <2> QED
    BY <1>0, <1>2, <2>1, TakeContinuationWrites
<1>3. CASE Adjudicates(c, calls[c], y, remote[c], n)
  BY <1>3 DEF Adjudicates, ResolveEffect
<1> QED
  BY <1>1, <1>2, <1>3
  DEF Deed, Prepares, Continues, Acquires, Starts, Withdraws, Concludes, Declares, Still,
      BeginExecution, FailEffect, CommitEffect, MarkAmbiguous, AmbiguateLapsed

LEMMA StepSolo ==
    ASSUME CallInv, CallInv', Solo, NEW c \in Everyone, Stepped(c)
    PROVE  Solo'
<1>1. PICK y \in CallState, n \in Legs, h \in Results : StepOf(c, y, n, h)
  BY DEF Stepped
<1> DEFINE x == calls[c]
           m == remote[c]
<1>2. /\ calls'[c] = y /\ remote'[c] = n /\ receipts'[c] = h
      /\ \A d \in Everyone \ {c} : calls'[d] = calls[d] /\ remote'[d] = remote[d]
      /\ Calls \subseteq Everyone /\ Resumers \subseteq Everyone /\ CallOK(c, y, n, h)
      /\ remote' = [remote EXCEPT ![c] = n]
  BY <1>1 DEF StepOf, CallInv, KernelTyped, Everyone
<1>3. Deed(c, x, y, m, n)
  BY <1>1 DEF StepOf
<1>4. \A a : Asking(a) => (Asking(a))'
  BY <1>2, <1>3, AskingStays
<1>5. Leg(n) => \/ Runs(c) /\ Same(x, y)
                \/ c \in Calls /\ m = "idle" /\ y.action = ActionOf[c]
                \/ TakesUp(c, x, y, m, n)
  BY <1>2, <1>3, LegsBegin
<1>6. /\ TakesUp(c, x, y, m, n) =>
             /\ y.key \in Keys /\ y.action = continuations[y.key].action
             /\ continuations[y.key].token # NoToken /\ continuations'[y.key].token = NoToken
             /\ c \in Resumers /\ m = "idle"
      /\ Parks(c, x, y, m, n) => Runs(c) /\ n = "asking" /\ y.action = x.action
      /\ \A k \in Keys : continuations'[k].token # NoToken =>
             \/ continuations'[k] = continuations[k]
             \/ /\ Parks(c, x, y, m, n) /\ k = Key(c)
                /\ continuations'[k].action = Action(c)
  <2>1. Parks(c, x, y, m, n) => Runs(c) /\ n = "asking" /\ y.action = x.action
    BY DEF Parks, Runs, Leg, Same
  <2>2. TakesUp(c, x, y, m, n) =>
             /\ y.key \in Keys /\ y.action = continuations[y.key].action
             /\ continuations[y.key].token # NoToken /\ continuations'[y.key].token = NoToken
             /\ c \in Resumers /\ m = "idle"
    <3> SUFFICES ASSUME TakesUp(c, x, y, m, n)
                 PROVE  /\ y.key \in Keys /\ y.action = continuations[y.key].action
                        /\ continuations[y.key].token # NoToken
                        /\ continuations'[y.key].token = NoToken
                        /\ c \in Resumers /\ m = "idle"
      OBVIOUS
    <3>1. PICK k \in Keys, tok \in Tokens :
              TakeContinuation(k, tok) /\ y.key = k /\ y.action = continuations[k].action
      BY DEF TakesUp
    <3> QED
      BY <3>1, TakeContinuationWrites DEF TakesUp, CallInv
  <2>3. ASSUME NEW k \in Keys, continuations'[k].token # NoToken
        PROVE  \/ continuations'[k] = continuations[k]
               \/ Parks(c, x, y, m, n) /\ k = Key(c) /\ continuations'[k].action = Action(c)
    BY <1>3, <2>3, ValuesMove
  <2> QED
    BY <2>1, <2>2, <2>3
<1>7. ASSUME NEW k \in Keys, continuations'[k].token # NoToken
      PROVE  (Asking(continuations[k].action))'
  <2>1. CASE continuations'[k] = continuations[k]
    <3>1. Asking(continuations[k].action)
      BY <1>7, <2>1 DEF Solo
    <3>2. \A a : a = continuations[k].action => (\E e \in Calls : ActionOf[e] = a /\ remote'[e] = "asking")
      BY <1>4, <3>1 DEF Asking
    <3> QED
      BY <2>1, <3>2 DEF Asking
  <2>2. CASE Parks(c, x, y, m, n) /\ k = Key(c) /\ continuations'[k].action = Action(c)
    <3>0. m # "idle"
      BY <2>2 DEF Parks
    <3>1. CASE c \in Calls
      BY <1>2, <1>6, <2>2, <3>0, <3>1, RunnersAreMade DEF Asking
    <3>2. CASE c \in Resumers
      <4>1. Asking(Action(c))
        BY <3>0, <3>2, RunnersAreMade DEF Solo
      <4>2. \A a : a = Action(c) => (\E e \in Calls : ActionOf[e] = a /\ remote'[e] = "asking")
        BY <1>4, <4>1 DEF Asking
      <4> QED
        BY <2>2, <4>2 DEF Asking
    <3> QED
      BY <3>1, <3>2 DEF Everyone
  <2> QED
    BY <1>6, <1>7, <2>1, <2>2
<1>8. ASSUME NEW d \in Resumers, (~At(d, "idle"))' PROVE (Asking(Action(d)))'
  <2>1. \A a : Asking(a) => \E e \in Calls : ActionOf[e] = a /\ remote'[e] = "asking"
    BY <1>4 DEF Asking
  <2>2. Asking(calls'[d].action)
    <3>1. CASE d # c
      BY <1>2, <1>8, <3>1 DEF Solo, At, Action
    <3>2. CASE d = c /\ TakesUp(c, x, y, m, n)
      BY <1>2, <1>6, <3>2 DEF Solo
    <3>3. CASE d = c /\ ~TakesUp(c, x, y, m, n)
      <4>1. Same(x, y)
        BY <1>3, <1>8, <3>3, KernelConstants
        DEF Deed, Prepares, Continues, Acquires, Starts, Withdraws, Concludes, Parks, Declares,
            Adjudicates
      <4>2. y.key \in Keys
        BY <1>2, <1>8, <3>3 DEF CallOK, IsItsOwn, At
      <4>3. x.pc # "idle"
        BY <1>2, <3>3, <4>1, <4>2, OfCall, KernelConstants DEF CallOK, IsSent, Same
      <4> QED
        BY <1>2, <1>8, <3>3, <4>1, <4>3 DEF Solo, At, Action, Same
    <3> QED
      BY <3>1, <3>2, <3>3
  <2> QED
    BY <2>1, <2>2 DEF Asking, Action
<1>9. ASSUME NEW d \in Everyone, d # c, (Runs(d))', Leg(n) PROVE calls'[d].action # y.action
  <2>1. Runs(d) /\ calls'[d].action = Action(d)
    BY <1>2, <1>9 DEF Runs, Action
  <2>2. CASE Runs(c) /\ Same(x, y)
    BY <1>9, <2>1, <2>2 DEF Solo, Same, Action
  <2>3. CASE c \in Calls /\ m = "idle" /\ y.action = ActionOf[c]
    BY <1>9, <2>1, <2>3, FirstOfItsAction
  <2>4. CASE TakesUp(c, x, y, m, n)
    BY <1>6, <2>1, <2>4 DEF Solo
  <2> QED
    BY <1>5, <1>9, <2>2, <2>3, <2>4
<1>10. ASSUME NEW d \in Everyone, NEW e \in Everyone, d # e, (Runs(d))', (Runs(e))'
       PROVE  calls'[d].action # calls'[e].action
  <2>1. CASE d # c /\ e # c
    BY <1>2, <1>10, <2>1 DEF Solo, Runs, Action
  <2>2. CASE d = c \/ e = c
    BY <1>2, <1>9, <1>10, <2>2 DEF Runs
  <2> QED
    BY <2>1, <2>2
<1>11. ASSUME NEW k \in Keys, NEW d \in Everyone, continuations'[k].token # NoToken, (Runs(d))'
       PROVE  continuations'[k].action # calls'[d].action
  <2>1. CASE continuations'[k] = continuations[k] /\ d # c
    BY <1>2, <1>11, <2>1 DEF Solo, Runs, Action
  <2>2. CASE continuations'[k] = continuations[k] /\ d = c
    <3>0. Leg(n)
      BY <1>2, <1>11, <2>2 DEF Runs
    <3>1. CASE Runs(c) /\ Same(x, y)
      BY <1>2, <1>11, <2>2, <3>1 DEF Solo, Same, Action
    <3>2. CASE c \in Calls /\ m = "idle" /\ y.action = ActionOf[c]
      BY <1>2, <1>11, <2>2, <3>2, FirstOfItsAction
    <3>3. CASE TakesUp(c, x, y, m, n)
      BY <1>2, <1>6, <1>11, <2>2, <3>3 DEF Solo
    <3> QED
      BY <1>5, <3>0, <3>1, <3>2, <3>3
  <2>3. CASE Parks(c, x, y, m, n) /\ k = Key(c) /\ continuations'[k].action = Action(c)
    <3>1. d # c
      BY <1>2, <1>6, <1>11, <2>3 DEF Runs, Leg
    <3> QED
      BY <1>2, <1>6, <1>11, <2>3, <3>1 DEF Solo, Runs, Action
  <2> QED
    BY <1>6, <1>11, <2>1, <2>2, <2>3
<1>12. ASSUME NEW j \in Keys, NEW k \in Keys, j # k,
              continuations'[j].token # NoToken, continuations'[k].token # NoToken
       PROVE  continuations'[j].action # continuations'[k].action
  <2>1. CASE continuations'[j] = continuations[j] /\ continuations'[k] = continuations[k]
    BY <1>12, <2>1 DEF Solo
  <2>2. CASE ~(continuations'[j] = continuations[j] /\ continuations'[k] = continuations[k])
    BY <1>6, <1>12, <2>2 DEF Solo
  <2> QED
    BY <2>1, <2>2
<1> QED
  BY <1>7, <1>8, <1>10, <1>11, <1>12 DEF Solo, Action

LEMMA OutsideSolo == ASSUME CallInv, Solo, Outside PROVE Solo'
<1>1. calls' = calls /\ remote' = remote /\ continuations' = continuations
  BY OutsideRecord
<1> QED
  BY <1>1 DEF Solo, Asking, Runs, Action, At

(* An action has one running leg at most, and none while a value to resume it with   *)
(* is held: a continuation is taken up by one resumption, once.                      *)
THEOREM LegsAreSolo == KernelSpec => []Solo
<1>1. CallInv /\ CallInv' /\ Solo /\ [KernelNext]_kernelVars => Solo'
  <2> SUFFICES ASSUME CallInv, CallInv', Solo, [KernelNext]_kernelVars PROVE Solo'
    OBVIOUS
  <2> QED
    BY SomebodySteps, StepSolo, OutsideSolo
<1> QED
  BY <1>1, InitSolo, CallsAreOrderly, PTL DEF KernelSpec

-----------------------------------------------------------------------------
(* How a record settles *)

(* A record moves on, and nobody gets or gives back the key. *)
MovesOn(k) ==
    /\ effects[k].state \in Unfinished \cup {"ambiguous"}
    /\ effects'[k].state \in Unfinished \cup {"ambiguous", "committed"}
    /\ effects'[k].state \in Unfinished => effects[k].state \in Unfinished
    /\ effects'[k].action = effects[k].action

(* Its last attempt is declared FAILED by somebody, who is remembered. *)
DeclaredFailed(k, who) ==
    /\ effects[k].state = "ambiguous" /\ effects'[k].state = "failed"
    /\ effects'[k].attempt = effects[k].attempt /\ effects'[k].action = effects[k].action
    /\ effects'[k].resolvedBy = who
    /\ forgiven'[k] = forgiven[k] \cup {effects[k].attempt}

(* Whom a deed gives the key, and from whom it takes it. *)
LEMMA DeedMoves ==
    ASSUME CallInv, NEW c \in Everyone, NEW y, NEW n, Deed(c, calls[c], y, remote[c], n),
           NEW k \in Keys
    PROVE  \/ DeclaredFailed(k, "hook")
           \/ /\ forgiven'[k] = forgiven[k]
              /\ \/ effects'[k] = effects[k]
                 \/ Acquires(c, calls[c], y, remote[c], n) /\ k = Key(c)
                 \/ MovesOn(k)
                 \/ /\ Withdraws(c, calls[c], y, remote[c], n) /\ k = Key(c)
                    /\ effects[k].state = "executing" /\ effects[k].action = Action(c)
                    /\ effects'[k].state = "failed"
<1> DEFINE x == calls[c]
           m == remote[c]
<1>0. TypeOK /\ KernelTyped
  BY DEF CallInv
<1>1. CASE Prepares(c, x, y, m, n) \/ Continues(c, x, y, m, n) \/ TakesUp(c, x, y, m, n)
  BY <1>1 DEF Prepares, Continues, TakesUp, TakeContinuation, Still
<1>2. CASE Acquires(c, x, y, m, n)
  BY <1>0, <1>2, AcquireWrites DEF Acquires, Key
<1>3. CASE Starts(c, x, y, m, n)
  <2>1. effects[Key(c)].state = "reserved" /\ Wrote(Key(c), "executing") /\ forgiven' = forgiven
    BY <1>0, <1>3, TransitionWrites
    DEF Starts, BeginExecution, HeldIn, Owner, EffectStates, Unfinished, Key
  <2> QED
    BY <2>1 DEF Wrote, MovesOn, Unfinished
<1>4. CASE Withdraws(c, x, y, m, n)
  <2>1. /\ effects[Key(c)].state = "executing" /\ effects[Key(c)].action = Action(c)
        /\ Wrote(Key(c), "failed") /\ forgiven' = forgiven
    BY <1>0, <1>4, TransitionWrites
    DEF Withdraws, FailEffect, HeldIn, Owner, EffectStates, Resolutions, Key, Action
  <2> QED
    BY <1>4, <2>1 DEF Wrote
<1>5. CASE Concludes(c, x, y, m, n) \/ Declares(c, x, y, m, n)
  <2>1. PICK s \in {"committed", "ambiguous"} :
           /\ effects[Key(c)].state \in Unfinished /\ Wrote(Key(c), s) /\ forgiven' = forgiven
    BY <1>0, <1>5, TransitionWrites
    DEF Concludes, Declares, CommitEffect, MarkAmbiguous, AmbiguateLapsed, Lapsed, HeldIn,
        EffectStates, Resolutions, Unfinished, Key
  <2> QED
    BY <2>1 DEF Wrote, MovesOn, Unfinished
<1>6. CASE Parks(c, x, y, m, n)
  <2>1. x.action \in Actions
    BY <1>6, RunnersAreMade DEF Parks, Action
  <2>2. effects[Key(c)].state = "executing" /\ Wrote(Key(c), "executing") /\ forgiven' = forgiven
    BY <1>0, <1>6, <2>1, HoldWrites DEF Parks, Key
  <2> QED
    BY <2>2 DEF Wrote, MovesOn, Unfinished
<1>7. CASE Adjudicates(c, x, y, m, n)
  <2>1. PICK s \in Resolutions : ResolveEffect(Key(c), s, "hook") /\ Forgive(Key(c), s) /\ Key(c) \in Keys
    BY <1>7 DEF Adjudicates, Key
  <2>2. /\ effects[Key(c)].state = "ambiguous" /\ Wrote(Key(c), s)
        /\ effects'[Key(c)].resolvedBy = "hook"
    BY <1>0, <2>1, ResolveWrites DEF Resolvers
  <2>3. /\ s = "failed" => forgiven'[Key(c)] = forgiven[Key(c)] \cup {effects[Key(c)].attempt}
        /\ s # "failed" => forgiven'[Key(c)] = forgiven[Key(c)]
        /\ \A j \in Keys \ {Key(c)} : forgiven'[j] = forgiven[j]
    BY <1>0, <2>1 DEF Forgive, KernelTyped
  <2> QED
    BY <2>1, <2>2, <2>3 DEF Wrote, Resolutions, MovesOn, DeclaredFailed, Unfinished
<1> QED
  BY <1>1, <1>2, <1>3, <1>4, <1>5, <1>6, <1>7 DEF Deed

(* A committed record stays; a failed one stays until it is taken again; and it *)
(* fails by the holder's own word, or by somebody else's, who is remembered.     *)
LEMMA DeedSettles ==
    ASSUME CallInv, NEW c \in Everyone, NEW y, NEW n, Deed(c, calls[c], y, remote[c], n),
           NEW k \in Keys
    PROVE  /\ effects[k].state = "committed" => effects'[k] = effects[k]
           /\ effects[k].state = "failed" =>
                 \/ effects'[k] = effects[k]
                 \/ Acquires(c, calls[c], y, remote[c], n) /\ k = Key(c)
           /\ effects'[k].state = "failed" =>
                 \/ effects'[k] = effects[k]
                 \/ /\ Withdraws(c, calls[c], y, remote[c], n) /\ k = Key(c)
                    /\ effects[k].state = "executing" /\ effects[k].action = Action(c)
                 \/ /\ effects[k].state = "ambiguous" /\ effects'[k].resolvedBy = "hook"
                    /\ forgiven'[k] = forgiven[k] \cup {effects[k].attempt}
           /\ \/ forgiven'[k] = forgiven[k]
              \/ /\ effects[k].state = "ambiguous" /\ effects'[k].state = "failed"
                 /\ effects'[k].attempt = effects[k].attempt
                 /\ forgiven'[k] = forgiven[k] \cup {effects[k].attempt}
<1>1. Acquires(c, calls[c], y, remote[c], n) /\ k = Key(c) =>
          /\ effects[k].state \in {"new", "failed"} /\ effects'[k].state = "reserved"
  BY AcquireWrites DEF Acquires, Key, Free, CallInv
<1> QED
  BY <1>1, DeedMoves DEF MovesOn, DeclaredFailed, Unfinished

LEMMA OutsideSettles ==
    ASSUME CallInv, Outside, NEW k \in Keys
    PROVE  \/ effects'[k] = effects[k] /\ forgiven'[k] = forgiven[k]
           \/ /\ effects[k].state = "ambiguous" /\ effects'[k].state = "committed"
              /\ effects'[k].attempt = effects[k].attempt /\ forgiven'[k] = forgiven[k]
              /\ effects'[k].action = effects[k].action
           \/ /\ effects[k].state = "ambiguous" /\ effects'[k].state = "failed"
              /\ effects'[k].attempt = effects[k].attempt /\ effects'[k].resolvedBy = "human"
              /\ effects'[k].action = effects[k].action
              /\ forgiven'[k] = forgiven[k] \cup {effects[k].attempt}
<1>0. TypeOK /\ KernelTyped
  BY DEF CallInv
<1>1. CASE Still
  BY <1>1 DEF Still
<1>2. CASE \E j \in Keys, s \in Resolutions : ResolveEffect(j, s, "human") /\ Forgive(j, s)
  <2>1. PICK j \in Keys, s \in Resolutions : ResolveEffect(j, s, "human") /\ Forgive(j, s)
    BY <1>2
  <2>2. effects[j].state = "ambiguous" /\ Wrote(j, s) /\ effects'[j].resolvedBy = "human"
    BY <1>0, <2>1, ResolveWrites DEF Resolvers
  <2>3. /\ s = "failed" => forgiven'[j] = forgiven[j] \cup {effects[j].attempt}
        /\ s # "failed" => forgiven'[j] = forgiven[j]
        /\ \A i \in Keys \ {j} : forgiven'[i] = forgiven[i]
    BY <1>0, <2>1 DEF Forgive, KernelTyped
  <2> QED
    BY <2>1, <2>2, <2>3 DEF Wrote, Resolutions
<1> QED
  BY <1>1, <1>2 DEF Outside

-----------------------------------------------------------------------------
(* A record is named for the call whose attempt it is at *)

LEMMA SoloFollowed == Solo => Followed
  BY DEF Solo, Followed, Asking, Led

LEMMA InitNamed == KernelInit => Named
  BY DEF KernelInit, Named, Owns, Owner, IdleCall, Secures, Everyone

LEMMA StepNamed ==
    ASSUME CallInv, CallInv', Numbered, Followed, Named, NEW c \in Everyone, Stepped(c)
    PROVE  Named'
<1>1. PICK y \in CallState, n \in Legs, h \in Results : StepOf(c, y, n, h)
  BY DEF Stepped
<1> DEFINE x == calls[c]
           m == remote[c]
<1>2. /\ calls'[c] = y /\ remote'[c] = n
      /\ \A d \in Everyone \ {c} : calls'[d] = calls[d] /\ remote'[d] = remote[d]
      /\ Calls \subseteq Everyone /\ Resumers \subseteq Everyone
  BY <1>1 DEF StepOf, CallInv, KernelTyped, Everyone
<1>3. Deed(c, x, y, m, n)
  BY <1>1 DEF StepOf
<1>4. \A d \in Everyone : (Owns(d))' =>
          \/ Owns(d) /\ Same(calls[d], calls'[d])
          \/ d = c /\ (Acquires(c, x, y, m, n) \/ TakesUp(c, x, y, m, n))
  BY <1>2, <1>3, DeedRecord DEF Owns, Same
<1>5. \A k \in Keys :
          \/ effects'[k].attempt = effects[k].attempt /\ effects'[k].action = effects[k].action
          \/ /\ Acquires(c, x, y, m, n) /\ k = Key(c)
             /\ effects'[k].attempt = effects[k].attempt + 1
             /\ effects'[k].action = Action(c)
  BY <1>3, DeedRecord
<1>6. Acquires(c, x, y, m, n) =>
          /\ c \in Calls /\ m = "idle" /\ ~Owns(c) /\ Action(c) = ActionOf[c]
          /\ y.key \in Keys /\ y.key = x.key /\ y.action = x.action
          /\ y.attempt = effects[y.key].attempt + 1
          /\ effects'[y.key].attempt = effects[y.key].attempt + 1
          /\ effects'[y.key].action = y.action
  BY AcquireWrites DEF Acquires, CallInv, Owns, Action
<1>7. TakesUp(c, x, y, m, n) =>
          /\ c \in Resumers /\ c \notin Calls /\ y.key \in Keys
          /\ y.attempt = effects[y.key].attempt /\ effects' = effects
  BY KernelConstants DEF TakesUp, TakeContinuation
<1>8. ASSUME NEW d \in Calls, (Owns(d))'
      PROVE  effects'[calls'[d].key].action = calls'[d].action
                 <=> calls'[d].attempt = effects'[calls'[d].key].attempt
  <2>1. CASE d = c /\ Acquires(c, x, y, m, n)
    BY <1>2, <1>6, <2>1
  <2>2. CASE Owns(d) /\ Same(calls[d], calls'[d])
    <3>1. /\ effects[Key(d)].action = Action(d) <=> calls[d].attempt = effects[Key(d)].attempt
          /\ calls[d].attempt <= effects[Key(d)].attempt
      BY <1>2, <1>8, <2>2 DEF Named, Numbered, Record
    <3>2. /\ Key(d) \in Keys /\ calls[d].attempt \in Nat /\ Action(d) = ActionOf[d]
          /\ effects[Key(d)].attempt \in Nat
      BY <1>2, <1>8, <2>2, OwnersAreMade DEF CallInv, TypeOK, EffectRecord
    <3>3. CASE /\ effects'[Key(d)].attempt = effects[Key(d)].attempt
               /\ effects'[Key(d)].action = effects[Key(d)].action
      BY <2>2, <3>1, <3>3 DEF Same, Key, Action
    <3>4. CASE /\ Acquires(c, x, y, m, n)
               /\ effects'[Key(d)].attempt = effects[Key(d)].attempt + 1
               /\ effects'[Key(d)].action = Action(c)
      <4>1. d # c
        BY <1>6, <2>2, <3>4
      <4>2. Action(d) # Action(c)
        BY <1>6, <1>8, <3>2, <3>4, <4>1, OneCallPerAction
      <4> QED
        BY <2>2, <3>1, <3>2, <3>4, <4>2 DEF Same, Key, Action
    <3> QED
      BY <1>5, <3>2, <3>3, <3>4
  <2> QED
    BY <1>2, <1>4, <1>7, <1>8, <2>1, <2>2
<1>9. ASSUME NEW d \in Resumers, (Owns(d))', effects'[calls'[d].key].action = calls'[d].action
      PROVE  calls'[d].attempt = effects'[calls'[d].key].attempt
  <2>1. CASE d = c /\ TakesUp(c, x, y, m, n)
    BY <1>2, <1>7, <2>1
  <2>2. CASE Owns(d) /\ Same(calls[d], calls'[d])
    <3>1. effects[Key(d)].action = Action(d) => calls[d].attempt = effects[Key(d)].attempt
      BY <1>9, <2>2 DEF Named, Record
    <3>2. Key(d) \in Keys /\ Led(Action(d))
      BY <1>2, <1>9, <2>2, OwnersAreMade DEF Followed
    <3>3. CASE /\ effects'[Key(d)].attempt = effects[Key(d)].attempt
               /\ effects'[Key(d)].action = effects[Key(d)].action
      BY <1>9, <2>2, <3>1, <3>3 DEF Same, Key, Action
    <3>4. CASE /\ Acquires(c, x, y, m, n) /\ effects'[Key(d)].action = Action(c)
      <4>1. ~Led(Action(c))
        BY <1>6, <3>4, OneCallPerAction DEF Led
      <4> QED
        BY <1>9, <2>2, <3>2, <3>4, <4>1 DEF Same, Key, Action
    <3> QED
      BY <1>5, <3>2, <3>3, <3>4
  <2>3. c \in Calls => d # c
    BY KernelConstants
  <2> QED
    BY <1>2, <1>4, <1>6, <1>9, <2>1, <2>2, <2>3
<1> QED
  BY <1>8, <1>9 DEF Named, Record, Key, Action

LEMMA OutsideNamed == ASSUME CallInv, Named, Outside PROVE Named'
<1>1. /\ \A k \in Keys : effects'[k].attempt = effects[k].attempt /\ effects'[k].action = effects[k].action
      /\ calls' = calls /\ remote' = remote
  BY OutsideRecord
<1>2. \A d \in Everyone : Owns(d) => Key(d) \in Keys
  BY DEF Owns, Owner, Key
<1> QED
  BY <1>1, <1>2 DEF Named, Owns, Owner, Record, Key, Action, Everyone

(* The record names a call's action exactly as long as that call's attempt is the    *)
(* last, so a holder that was superseded finds out whenever it looks.                *)
THEOREM RecordsAreNamed == KernelSpec => []Named
<1>1. CallInv /\ CallInv' /\ Numbered /\ Solo /\ Named /\ [KernelNext]_kernelVars => Named'
  <2> SUFFICES ASSUME CallInv, CallInv', Numbered, Solo, Named, [KernelNext]_kernelVars PROVE Named'
    OBVIOUS
  <2> QED
    BY SomebodySteps, SoloFollowed, StepNamed, OutsideNamed
<1> QED
  BY <1>1, InitNamed, CallsAreOrderly, AttemptsAreNumbered, LegsAreSolo, PTL DEF KernelSpec

-----------------------------------------------------------------------------
(* A leg whose attempt is over was pardoned *)

LEMMA InitPardoned == KernelInit => Pardoned
  BY FS_EmptySet DEF KernelInit, Pardoned, Owns, Owner, IdleCall, Secures, Everyone

(* What is forgiven are attempts that were, and the last one only as it failed. *)
Excused(k) ==
    /\ IsFiniteSet(forgiven[k])
    /\ \A i \in forgiven[k] :
          /\ i <= effects[k].attempt
          /\ i = effects[k].attempt => effects[k].state = "failed"

LEMMA ExcusedMore ==
    ASSUME CallInv, NEW k \in Keys, Excused(k),
           effects'[k].attempt = effects[k].attempt, effects'[k].state = "failed",
           forgiven'[k] = forgiven[k] \cup {effects[k].attempt}
    PROVE  (Excused(k))'
<1>1. IsFiniteSet(forgiven'[k])
  BY FS_AddElement DEF Excused
<1>2. effects[k].attempt \in Nat
  BY DEF CallInv, TypeOK, EffectRecord
<1> QED
  BY <1>1, <1>2 DEF Excused

(* What a call does to its record excuses no attempt that is still the last. *)
LEMMA StepExcused ==
    ASSUME CallInv, NEW c \in Everyone, Stepped(c), NEW k \in Keys, Excused(k)
    PROVE  (Excused(k))'
<1>1. PICK y \in CallState, n \in Legs, h \in Results : StepOf(c, y, n, h)
  BY DEF Stepped
<1> DEFINE x == calls[c]
           m == remote[c]
<1>2. Deed(c, x, y, m, n)
  BY <1>1 DEF StepOf
<1>3. \/ effects'[k].attempt = effects[k].attempt
      \/ /\ Acquires(c, x, y, m, n) /\ k = Key(c)
         /\ effects'[k].attempt = effects[k].attempt + 1
  BY <1>2, DeedRecord
<1>4. effects[k].attempt \in Nat /\ forgiven[k] \in SUBSET Nat
  BY DEF CallInv, TypeOK, EffectRecord, KernelTyped
<1>5. effects[k].state = "failed" =>
          effects'[k] = effects[k] \/ effects'[k].attempt = effects[k].attempt + 1
  <2> SUFFICES ASSUME effects[k].state = "failed", effects'[k] # effects[k]
               PROVE  effects'[k].attempt = effects[k].attempt + 1
    OBVIOUS
  <2>1. Acquires(c, x, y, m, n) /\ k = Key(c)
    BY <1>2, DeedSettles
  <2> QED
    BY <2>1, AcquireWrites DEF Acquires, CallInv, Key
<1>6. CASE forgiven'[k] = forgiven[k]
  <2>1. ASSUME NEW i \in forgiven[k]
        PROVE  i <= effects'[k].attempt /\ (i = effects'[k].attempt => effects'[k].state = "failed")
    <3>0. i \in Nat
      BY <1>4, <2>1
    <3>1. i <= effects[k].attempt /\ (i = effects[k].attempt => effects[k].state = "failed")
      BY <2>1 DEF Excused
    <3>2. CASE effects'[k].attempt = effects[k].attempt
      <4>1. effects[k].attempt # effects[k].attempt + 1
        BY <1>4
      <4>2. effects[k].state = "failed" => effects'[k] = effects[k]
        BY <1>5, <3>2, <4>1
      <4> QED
        BY <3>1, <3>2, <4>2
    <3>3. CASE effects'[k].attempt = effects[k].attempt + 1
      BY <1>4, <3>0, <3>1, <3>3
    <3> QED
      BY <1>3, <3>2, <3>3
  <2> QED
    BY <1>6, <2>1 DEF Excused
<1>7. CASE /\ effects[k].state = "ambiguous" /\ effects'[k].state = "failed"
           /\ effects'[k].attempt = effects[k].attempt
           /\ forgiven'[k] = forgiven[k] \cup {effects[k].attempt}
  BY <1>7, ExcusedMore
<1> QED
  BY <1>2, <1>6, <1>7, DeedSettles

LEMMA OutsideExcused ==
    ASSUME CallInv, Outside, NEW k \in Keys, Excused(k)
    PROVE  (Excused(k))'
<1>1. CASE effects'[k] = effects[k] /\ forgiven'[k] = forgiven[k]
  BY <1>1 DEF Excused
<1>2. CASE /\ effects[k].state = "ambiguous" /\ effects'[k].state = "committed"
           /\ effects'[k].attempt = effects[k].attempt /\ forgiven'[k] = forgiven[k]
  BY <1>2 DEF Excused
<1>3. CASE /\ effects'[k].state = "failed" /\ effects'[k].attempt = effects[k].attempt
           /\ forgiven'[k] = forgiven[k] \cup {effects[k].attempt}
  BY <1>3, ExcusedMore
<1> QED
  BY <1>1, <1>2, <1>3, OutsideSettles

(* A leg of a call of execute, before the step that it is a leg after. *)
LEMMA LegBefore ==
    ASSUME CallInv, NEW c \in Everyone, Stepped(c), NEW d \in Calls, (Owns(d))', (Runs(d))'
    PROVE  /\ Owns(d) /\ calls'[d].key = Key(d) /\ calls'[d].action = Action(d)
           /\ calls'[d].attempt = calls[d].attempt
           /\ \/ Runs(d)
              \/ /\ d = c /\ effects[Key(d)].action = Action(d)
                 /\ effects'[Key(d)].state = "executing"
                 /\ effects'[Key(d)].attempt = effects[Key(d)].attempt
<1>1. PICK y \in CallState, n \in Legs, h \in Results : StepOf(c, y, n, h)
  BY DEF Stepped
<1>2. /\ calls'[c] = y /\ remote'[c] = n /\ receipts'[c] = h
      /\ \A e \in Everyone \ {c} : calls'[e] = calls[e] /\ remote'[e] = remote[e]
      /\ Calls \subseteq Everyone /\ Resumers \subseteq Everyone
  BY <1>1 DEF StepOf, CallInv, KernelTyped, Everyone
<1>3. CASE d # c
  BY <1>2, <1>3 DEF Owns, Runs, Key, Action
<1>4. CASE d = c
  <2>1. Owner(y, n) /\ Leg(n) /\ Deed(c, calls[c], y, remote[c], n)
    BY <1>1, <1>2, <1>4 DEF Owns, Runs, StepOf
  <2>2. CASE Starts(c, calls[c], y, remote[c], n)
    <3>1. /\ Key(c) \in Keys /\ effects[Key(c)].action = Action(c)
          /\ effects' = [effects EXCEPT ![Key(c)] = Transitioned(effects[Key(c)], "executing")]
      BY <2>2 DEF Starts, Owner, BeginExecution, HeldIn, Key, Action
    <3>2. Wrote(Key(c), "executing")
      BY <3>1, TransitionWrites DEF CallInv, EffectStates, Unfinished
    <3> QED
      BY <1>2, <1>4, <2>2, <3>1, <3>2 DEF Starts, Same, Owns, Key, Action, Wrote
  <2>3. CASE ~Starts(c, calls[c], y, remote[c], n)
    <3>1. ~Prepares(c, calls[c], y, remote[c], n) /\ ~Acquires(c, calls[c], y, remote[c], n)
          /\ ~TakesUp(c, calls[c], y, remote[c], n)
      BY <1>4, <2>1, KernelConstants DEF Prepares, Acquires, TakesUp, Leg
    <3>2. Same(calls[c], y) /\ Leg(remote[c])
      BY <2>1, <2>3, <3>1
      DEF Deed, Continues, Withdraws, Concludes, Parks, Declares, Adjudicates, Leg
    <3>3. Owns(c)
      BY <2>1, <3>2 DEF Owns, Owner, Same, Leg
    <3> QED
      BY <1>2, <1>4, <3>2, <3>3 DEF Same, Runs, Key, Action
  <2> QED
    BY <2>2, <2>3
<1> QED
  BY <1>3, <1>4

(* Who withdraws its attempt was the only leg of it, and is one no more. *)
LEMMA WithdrawnIsAlone ==
    ASSUME CallInv, Solo, NEW c \in Everyone, NEW y, NEW n, Leg(n) => n # "refused",
           Withdraws(c, calls[c], y, remote[c], n), NEW d \in Everyone, d # c, Runs(d)
    PROVE  Action(d) # Action(c)
<1>1. CASE remote[c] = "idle"
  <2>1. c \in Calls /\ Action(c) = ActionOf[c]
    BY <1>1, OwnersAreMade DEF Withdraws, Owns
  <2> QED
    BY <1>1, <2>1, FirstOfItsAction
<1>2. CASE remote[c] = "sent"
  BY <1>2 DEF Solo, Runs, Leg
<1> QED
  BY <1>1, <1>2 DEF Withdraws

LEMMA StepPardoned ==
    ASSUME CallInv, CallInv', RecordsAgree, Numbered, Solo, Named, Pardoned,
           NEW c \in Everyone, Stepped(c)
    PROVE  Pardoned'
<1>1. PICK y \in CallState, n \in Legs, h \in Results : StepOf(c, y, n, h)
  BY DEF Stepped
<1> DEFINE x == calls[c]
           m == remote[c]
<1>2. /\ calls'[c] = y /\ remote'[c] = n /\ Deed(c, x, y, m, n)
      /\ Calls \subseteq Everyone
  BY <1>1 DEF StepOf, CallInv, KernelTyped, Everyone
<1>3. \A k \in Keys :
          \/ effects'[k].attempt = effects[k].attempt
          \/ /\ Acquires(c, x, y, m, n) /\ k = Key(c)
             /\ effects'[k].attempt = effects[k].attempt + 1
  BY <1>2, DeedRecord
<1>4. \A k \in Keys : effects[k].attempt \in Nat /\ forgiven[k] \in SUBSET Nat
  BY DEF CallInv, TypeOK, EffectRecord, KernelTyped
<1>5. ASSUME NEW k \in Keys PROVE (Excused(k))'
  BY StepExcused DEF Pardoned, Excused
<1>6. \A k \in Keys : forgiven[k] \subseteq forgiven'[k]
  BY <1>2, DeedSettles
<1>7. ASSUME NEW d \in Calls, (Owns(d))', (Runs(d))'
      PROVE  \/ calls'[d].attempt \in forgiven'[calls'[d].key]
             \/ /\ calls'[d].attempt = effects'[calls'[d].key].attempt
                /\ effects'[calls'[d].key].state # "failed"
  <2>1. /\ d \in Everyone /\ Owns(d) /\ calls'[d].key = Key(d)
        /\ calls'[d].action = Action(d) /\ calls'[d].attempt = calls[d].attempt
        /\ \/ Runs(d)
           \/ /\ d = c /\ effects[Key(d)].action = Action(d)
              /\ effects'[Key(d)].state = "executing"
              /\ effects'[Key(d)].attempt = effects[Key(d)].attempt
    BY <1>2, <1>7, LegBefore
  <2>2. Key(d) \in Keys /\ calls[d].attempt >= 1 /\ calls[d].attempt \in Nat
    BY <2>1, OwnersAreMade DEF Numbered
  <2>3. CASE ~Runs(d)
    BY <2>1, <2>3 DEF Named, Record
  <2>4. CASE calls[d].attempt \in forgiven[Key(d)]
    BY <1>6, <2>1, <2>2, <2>4
  <2>5. CASE Runs(d) /\ calls[d].attempt = effects[Key(d)].attempt /\ effects[Key(d)].state # "failed"
    <3>1. effects[Key(d)].state # "new"
      BY <2>2, <2>5 DEF RecordsAgree
    <3>2. effects'[Key(d)].attempt = effects[Key(d)].attempt
      <4>1. Acquires(c, x, y, m, n) /\ Key(d) = Key(c) => Free(effects[Key(d)])
        BY AcquireWrites DEF Acquires, CallInv, Key
      <4> QED
        BY <1>3, <2>2, <2>5, <3>1, <4>1 DEF Free
    <3>3. CASE effects'[Key(d)].state = "failed"
      <4>1. \/ calls[d].attempt \in forgiven'[Key(d)]
            \/ /\ Withdraws(c, x, y, m, n) /\ effects[Key(d)].action = Action(c)
        BY <1>2, <2>2, <2>5, <3>3, DeedSettles
      <4>2. ASSUME Withdraws(c, x, y, m, n), effects[Key(d)].action = Action(c) PROVE FALSE
        <5>1. d # c
          BY <1>2, <1>7, <2>5, <4>2 DEF Withdraws, Runs, Leg
        <5>2. Action(d) = Action(c)
          BY <2>1, <2>5, <4>2 DEF Named, Record
        <5>3. Leg(n) => n # "refused"
          BY DEF Leg
        <5> QED
          BY <2>1, <2>5, <4>2, <5>1, <5>2, <5>3, WithdrawnIsAlone
      <4> QED
        BY <2>1, <4>1, <4>2
    <3> QED
      BY <2>1, <2>5, <3>2, <3>3
  <2> QED
    BY <2>1, <2>3, <2>4, <2>5 DEF Pardoned, Record
<1>8. \A k \in Keys : /\ IsFiniteSet(forgiven'[k])
                      /\ \A i \in forgiven'[k] :
                            /\ i <= effects'[k].attempt
                            /\ i = effects'[k].attempt => effects'[k].state = "failed"
  BY <1>5 DEF Excused
<1>10. \A d \in Calls : (Owns(d))' /\ (Runs(d))' =>
          \/ calls'[d].attempt \in forgiven'[calls'[d].key]
          \/ /\ calls'[d].attempt = effects'[calls'[d].key].attempt
             /\ effects'[calls'[d].key].state # "failed"
  BY <1>7
<1> QED
  BY <1>8, <1>10 DEF Pardoned, Record, Key

LEMMA OutsidePardoned == ASSUME CallInv, Pardoned, Outside PROVE Pardoned'
<1>1. calls' = calls /\ remote' = remote
  BY OutsideRecord
<1>2. ASSUME NEW k \in Keys PROVE (Excused(k))'
  BY OutsideExcused DEF Pardoned, Excused
<1>3. ASSUME NEW d \in Calls, Owns(d), Runs(d)
      PROVE  \/ calls[d].attempt \in forgiven'[Key(d)]
             \/ calls[d].attempt = effects'[Key(d)].attempt /\ effects'[Key(d)].state # "failed"
  <2>1. Key(d) \in Keys
    BY <1>3 DEF Owns, Owner, Key
  <2>2. \/ calls[d].attempt \in forgiven[Key(d)]
        \/ calls[d].attempt = effects[Key(d)].attempt /\ effects[Key(d)].state # "failed"
    BY <1>3 DEF Pardoned, Record
  <2> QED
    BY <2>1, <2>2, OutsideSettles
<1>4. \A k \in Keys : /\ IsFiniteSet(forgiven'[k])
                      /\ \A i \in forgiven'[k] :
                            /\ i <= effects'[k].attempt
                            /\ i = effects'[k].attempt => effects'[k].state = "failed"
  BY <1>2 DEF Excused
<1>5. \A d \in Calls : (Owns(d))' /\ (Runs(d))' =>
          \/ calls'[d].attempt \in forgiven'[calls'[d].key]
          \/ /\ calls'[d].attempt = effects'[calls'[d].key].attempt
             /\ effects'[calls'[d].key].state # "failed"
  BY <1>1, <1>3 DEF Owns, Runs, Key
<1> QED
  BY <1>4, <1>5 DEF Pardoned, Record, Key

(* A call whose attempt the record gave up while its request may still be carried    *)
(* out is one whose attempt somebody pardoned.                                       *)
THEOREM LegsArePardoned == KernelSpec => []Pardoned
<1>1. CallInv /\ CallInv' /\ RecordsAgree /\ Numbered /\ Solo /\ Named /\ Pardoned
        /\ [KernelNext]_kernelVars => Pardoned'
  <2> SUFFICES ASSUME CallInv, CallInv', RecordsAgree, Numbered, Solo, Named, Pardoned,
                      [KernelNext]_kernelVars
               PROVE  Pardoned'
    OBVIOUS
  <2> QED
    BY SomebodySteps, StepPardoned, OutsidePardoned
<1>2. KernelSpec => []RecordsAgree
  BY KernelUsesStore, RecordsAlwaysAgree, PTL DEF KernelImplementsStore
<1> QED
  BY <1>1, <1>2, InitPardoned, CallsAreOrderly, AttemptsAreNumbered, LegsAreSolo, RecordsAreNamed,
     PTL DEF KernelSpec

-----------------------------------------------------------------------------
(* A record that is FAILED by the holder's own word *)

(* A leg that begins, begins on a record that is executing. *)
LEMMA FreshLegs ==
    ASSUME CallInv, NEW c \in Everyone, NEW y, NEW n, Deed(c, calls[c], y, remote[c], n),
           Leg(n), y.key \in Keys
    PROVE  (Runs(c) /\ Same(calls[c], y)) \/ effects'[y.key].state = "executing"
<1>1. CASE Starts(c, calls[c], y, remote[c], n)
  <2>1. y.key = Key(c) /\ Key(c) \in Keys
        /\ effects' = [effects EXCEPT ![Key(c)] = Transitioned(effects[Key(c)], "executing")]
    BY <1>1 DEF Starts, Same, Owner, BeginExecution, Key
  <2> QED
    BY <2>1, TransitionWrites DEF CallInv, EffectStates, Unfinished, Wrote
<1>2. CASE TakesUp(c, calls[c], y, remote[c], n)
  BY <1>2 DEF TakesUp, TakeContinuation
<1>3. CASE ~Starts(c, calls[c], y, remote[c], n) /\ ~TakesUp(c, calls[c], y, remote[c], n)
  BY <1>3
  DEF Deed, Prepares, Continues, Acquires, Withdraws, Concludes, Parks, Declares, Adjudicates,
      Leg, Runs, Owner
<1> QED
  BY <1>1, <1>2, <1>3

LEMMA StepProvesNothing ==
    ASSUME CallInv, CallInv', Solo, FailedProvesNothing, NEW c \in Everyone, Stepped(c)
    PROVE  FailedProvesNothing'
<1>1. PICK y \in CallState, n \in Legs, h \in Results : StepOf(c, y, n, h)
  BY DEF Stepped
<1>2. /\ calls'[c] = y /\ remote'[c] = n /\ Deed(c, calls[c], y, remote[c], n)
      /\ \A d \in Everyone \ {c} : calls'[d] = calls[d] /\ remote'[d] = remote[d]
  BY <1>1 DEF StepOf, CallInv, KernelTyped
<1>3. ASSUME NEW k \in Keys, effects'[k].state = "failed", effects'[k].resolvedBy = NoResolver,
             NEW d \in Everyone, calls'[d].key = k, calls'[d].action = effects'[k].action,
             calls'[d].attempt = effects'[k].attempt, Leg(remote'[d])
      PROVE  FALSE
  <2>1. CASE effects'[k] = effects[k]
    <3>1. ~(Runs(d) /\ Same(calls[d], calls'[d]))
      BY <1>3, <2>1 DEF FailedProvesNothing, OfAttempt, Runs, Leg, Same, Key, Action
    <3>2. CASE d # c
      BY <1>2, <1>3, <3>1, <3>2 DEF Runs, Same
    <3>3. CASE d = c
      BY <1>2, <1>3, <3>1, <3>3, FreshLegs
    <3> QED
      BY <3>2, <3>3
  <2>2. CASE /\ Withdraws(c, calls[c], y, remote[c], n) /\ k = Key(c)
             /\ effects[k].state = "executing" /\ effects[k].action = Action(c)
    <3>1. d # c
      BY <1>2, <1>3, <2>2 DEF Withdraws, Leg
    <3>2. Runs(d) /\ Action(d) = effects'[k].action
      BY <1>2, <1>3, <3>1 DEF Runs, Action
    <3>3. effects'[k].action = Action(c)
      <4>1. \/ effects'[k].action = effects[k].action
            \/ effects'[k].action = Action(c)
        BY <1>2, <1>3, DeedRecord
      <4> QED
        BY <2>2, <4>1
    <3>4. Leg(n) => n # "refused"
      BY DEF Leg
    <3> QED
      BY <1>3, <2>2, <3>1, <3>2, <3>3, <3>4, WithdrawnIsAlone
  <2>3. effects'[k].resolvedBy # "hook"
    BY <1>3 DEF NoResolver
  <2> QED
    BY <1>2, <1>3, <2>1, <2>2, <2>3, DeedSettles
<1> QED
  BY <1>3 DEF FailedProvesNothing, OfAttempt, Key, Action, Leg

LEMMA OutsideProvesNothing ==
    ASSUME CallInv, FailedProvesNothing, Outside PROVE FailedProvesNothing'
<1>1. calls' = calls /\ remote' = remote
  BY OutsideRecord
<1>2. ASSUME NEW k \in Keys, effects'[k].state = "failed", effects'[k].resolvedBy = NoResolver
      PROVE  effects'[k] = effects[k]
  BY <1>2, OutsideSettles DEF NoResolver
<1>3. ASSUME NEW k \in Keys, effects'[k].state = "failed", effects'[k].resolvedBy = NoResolver,
             NEW d \in Everyone, calls'[d].key = k, calls'[d].action = effects'[k].action,
             calls'[d].attempt = effects'[k].attempt
      PROVE  remote'[d] \notin {"sent", "acted"}
  BY <1>1, <1>2, <1>3 DEF FailedProvesNothing, OfAttempt, Key, Action
<1> QED
  BY <1>3 DEF FailedProvesNothing, OfAttempt, Key, Action

(* A record that is FAILED on the kernel's own word names an attempt whose request   *)
(* the remote never carried out: whoever withdrew it was the only leg of its action. *)
THEOREM FailuresAreProven == KernelSpec => []FailedProvesNothing
<1>1. CallInv /\ CallInv' /\ Solo /\ FailedProvesNothing /\ [KernelNext]_kernelVars
          => FailedProvesNothing'
  <2> SUFFICES ASSUME CallInv, CallInv', Solo, FailedProvesNothing, [KernelNext]_kernelVars
               PROVE  FailedProvesNothing'
    OBVIOUS
  <2> QED
    BY SomebodySteps, StepProvesNothing, OutsideProvesNothing
<1>2. KernelInit => FailedProvesNothing
  BY DEF KernelInit, Init, NoRecord, FailedProvesNothing
<1> QED
  BY <1>1, <1>2, CallsAreOrderly, LegsAreSolo, PTL DEF KernelSpec

-----------------------------------------------------------------------------
(* What a receipt claims is what the record has *)

LEMMA StepTruthful ==
    ASSUME CallInv, CallInv', Named, Truthful, NEW c \in Everyone, Stepped(c)
    PROVE  Truthful'
<1>1. PICK y \in CallState, n \in Legs, h \in Results : StepOf(c, y, n, h)
  BY DEF Stepped
<1>2. /\ calls'[c] = y /\ remote'[c] = n /\ receipts'[c] = h
      /\ \A d \in Everyone \ {c} : calls'[d] = calls[d] /\ receipts'[d] = receipts[d]
      /\ Deed(c, calls[c], y, remote[c], n) /\ CallOK(c, y, n, h)
      /\ Tells(calls[c], y, receipts[c], h)
  BY <1>1 DEF StepOf, CallInv, KernelTyped
<1>3. ASSUME NEW d \in Everyone, Claims(calls[d], receipts[d]), Key(d) # NoKey
      PROVE  /\ Key(d) \in Keys /\ effects'[Key(d)] = effects[Key(d)]
             /\ effects'[Key(d)].state = "committed" /\ effects'[Key(d)].action = Action(d)
             /\ effects'[Key(d)].attempt = calls[d].attempt
  <2>1. Key(d) \in Keys
    BY <1>3 DEF CallInv, KernelTyped, CallState, Key
  <2>2. /\ effects[Key(d)].state = "committed" /\ effects[Key(d)].action = Action(d)
        /\ effects[Key(d)].attempt = calls[d].attempt
    BY <1>3 DEF Truthful, Keyed, Record
  <2>3. effects'[Key(d)] = effects[Key(d)]
    BY <1>2, <2>1, <2>2, DeedSettles
  <2> QED
    BY <2>1, <2>2, <2>3
<1>4. ASSUME Claims(y, h), y.key # NoKey
      PROVE  /\ effects'[y.key].state = "committed" /\ effects'[y.key].action = y.action
             /\ effects'[y.key].attempt = y.attempt
  <2>1. n = "acted" /\ y.key \in Keys
    BY <1>2, <1>4 DEF CallOK, IsRecorded, Claims, CallState
  <2>2. Same(calls[c], y) /\ Leg(remote[c])
    BY <1>2, <2>1
    DEF Deed, Prepares, Continues, Acquires, Starts, Withdraws, Concludes, Parks, TakesUp,
        Declares, Adjudicates, Leg
  <2>3. CASE Claims(calls[c], receipts[c])
    BY <1>3, <1>4, <2>2, <2>3 DEF Same, Key, Action
  <2>4. CASE CommitEffect(Key(c), Action(c))
    <3>1. Key(c) \in Keys /\ Owns(c)
      BY <2>1, <2>2 DEF Same, Key, Owns, Owner, Leg
    <3>2. /\ effects[Key(c)].action = Action(c)
          /\ effects' = [effects EXCEPT ![Key(c)] = Transitioned(effects[Key(c)], "committed")]
      BY <2>4 DEF CommitEffect, HeldIn
    <3>3. calls[c].attempt = effects[Key(c)].attempt
      BY <3>1, <3>2 DEF Named, Record, Everyone
    <3>4. Wrote(Key(c), "committed")
      BY <3>1, <3>2, TransitionWrites DEF CallInv, EffectStates, Resolutions
    <3> QED
      BY <2>2, <3>2, <3>3, <3>4 DEF Wrote, Same, Key, Action
  <2> QED
    BY <1>2, <1>4, <2>1, <2>2, <2>3, <2>4 DEF Tells, Same, Key, Action
<1>5. ASSUME NEW d \in Everyone, Claims(calls'[d], receipts'[d]), calls'[d].key # NoKey
      PROVE  /\ effects'[calls'[d].key].state = "committed"
             /\ effects'[calls'[d].key].action = calls'[d].action
             /\ effects'[calls'[d].key].attempt = calls'[d].attempt
  <2>1. CASE d = c
    BY <1>2, <1>4, <1>5, <2>1
  <2>2. CASE d # c
    BY <1>2, <1>3, <1>5, <2>2 DEF Key, Action
  <2> QED
    BY <2>1, <2>2
<1> QED
  BY <1>5 DEF Truthful, Claims, Keyed, Record, Key, Action

LEMMA OutsideTruthful == ASSUME CallInv, Truthful, Outside PROVE Truthful'
<1>1. calls' = calls /\ receipts' = receipts
  BY OutsideRecord
<1>2. ASSUME NEW k \in Keys, effects[k].state = "committed" PROVE effects'[k] = effects[k]
  BY <1>2, OutsideSettles
<1>3. \A d \in Everyone : Key(d) # NoKey => Key(d) \in Keys
  BY DEF CallInv, KernelTyped, CallState, Key
<1> QED
  BY <1>1, <1>2, <1>3 DEF Truthful, Claims, Keyed, Record, Key, Action

LEMMA TruthfulReceipts == CallInv /\ Truthful => ReceiptsAreTrue
<1> SUFFICES ASSUME CallInv, Truthful, NEW c \in Everyone
             PROVE  /\ receipts[c] = "committed" =>
                          /\ remote[c] = "acted"
                          /\ Keyed(c) => /\ effects[Key(c)].state = "committed"
                                         /\ effects[Key(c)].action = Action(c)
                                         /\ effects[Key(c)].attempt = calls[c].attempt
                    /\ receipts[c] = "failed" => remote[c] = "refused"
                    /\ receipts[c] \in {"blocked", "denied"} => ~Ran(c)
                    /\ At(c, "over") /\ Ran(c) => receipts[c] # "none"
  BY DEF ReceiptsAreTrue
<1>1. IsRecorded(calls[c], remote[c], receipts[c])
  BY OfCall DEF CallOK
<1>2. receipts[c] = "committed" /\ Keyed(c) =>
          /\ effects[Key(c)].state = "committed" /\ effects[Key(c)].action = Action(c)
          /\ effects[Key(c)].attempt = calls[c].attempt
  BY DEF Truthful, Claims, Record
<1> QED
  BY <1>1, <1>2 DEF IsRecorded, Ran, At

(* A receipt is true of the record and of the remote when it is written and ever *)
(* after: nothing moves a committed record, and no leg that ended starts again.  *)
THEOREM ReceiptsStayTrue == KernelSpec => []ReceiptsAreTrue
<1>1. CallInv /\ CallInv' /\ Named /\ Truthful /\ [KernelNext]_kernelVars => Truthful'
  <2> SUFFICES ASSUME CallInv, CallInv', Named, Truthful, [KernelNext]_kernelVars
               PROVE  Truthful'
    OBVIOUS
  <2> QED
    BY SomebodySteps, StepTruthful, OutsideTruthful
<1>2. KernelInit => Truthful
  BY DEF KernelInit, Truthful, Claims, IdleCall
<1> QED
  BY <1>1, <1>2, TruthfulReceipts, CallsAreOrderly, RecordsAreNamed, PTL DEF KernelSpec

-----------------------------------------------------------------------------
(* What is charged stays charged to the attempt it was charged for *)

SameCharge(q, row) ==
    q.line = row.line /\ q.key = row.key /\ q.attempt = row.attempt /\ q.amount = row.amount

(* A row may be released; it never disappears, and never becomes another charge. *)
LEMMA RowsPersist ==
    ASSUME TypeOK, [Next]_vars, NEW row \in ledger
    PROVE  \E q \in ledger' : SameCharge(q, row)
<1>1. CASE ledger' = ledger
  BY <1>1 DEF SameCharge
<1>2. CASE ledger \subseteq ledger'
  BY <1>2 DEF SameCharge
<1>3. ASSUME NEW k \in Keys, ledger' = ReleasedFor(k)
      PROVE  \E q \in ledger' : SameCharge(q, row)
  <2>1. PICK q : q = IF row.key = k THEN [row EXCEPT !.held = FALSE] ELSE row
    OBVIOUS
  <2>2. row \in Consumption
    BY DEF TypeOK
  <2>3. SameCharge(q, row)
    BY <2>1, <2>2 DEF SameCharge, Consumption
  <2>4. q \in ledger'
    BY <1>3, <2>1 DEF ReleasedFor
  <2> QED
    BY <2>3, <2>4
<1>4. SomeKind
  BY StepKinds
<1> QED
  BY <1>1, <1>2, <1>3, <1>4
  DEF SomeKind, Leaves, Takes, TakeKey, Moves, Fails, Extends, Resolves, ResolveEffect

LEMMA StepPaid ==
    ASSUME CallInv, CallInv', Paid, NEW c \in Everyone, Stepped(c)
    PROVE  Paid'
<1>1. PICK y \in CallState, n \in Legs, h \in Results : StepOf(c, y, n, h)
  BY DEF Stepped
<1>2. /\ calls'[c] = y /\ remote'[c] = n /\ Deed(c, calls[c], y, remote[c], n)
      /\ \A d \in Everyone \ {c} : calls'[d] = calls[d] /\ remote'[d] = remote[d]
      /\ TypeOK /\ [Next]_vars /\ Calls \subseteq Everyone
  BY <1>1 DEF StepOf, CallInv, KernelTyped, Everyone
<1>3. ASSUME NEW d \in Calls, NEW l \in Lines, (Owns(d))', Cost[HashOf[d]][l] > 0
      PROVE  \E row \in ledger' : /\ row.line = l /\ row.key = calls'[d].key
                                 /\ row.attempt = calls'[d].attempt
                                 /\ row.amount = Cost[HashOf[d]][l]
  <2>1. CASE Owns(d) /\ Same(calls[d], calls'[d])
    <3>1. PICK row \in ledger : /\ row.line = l /\ row.key = Key(d)
                               /\ row.attempt = calls[d].attempt
                               /\ row.amount = Cost[HashOf[d]][l]
      BY <1>3, <2>1 DEF Paid
    <3>2. PICK q \in ledger' : SameCharge(q, row)
      BY <1>2, <3>1, RowsPersist
    <3> QED
      BY <2>1, <3>1, <3>2 DEF SameCharge, Same, Key
  <2>2. CASE d = c /\ Acquires(c, calls[c], y, remote[c], n)
    <3>1. PICK t \in Readings : TakeKey(Key(c), Action(c), HashOf[c], t)
      BY <2>2 DEF Acquires, Key, Action
    <3>2. /\ ledger' = ledger \cup Rows(HashOf[c], Key(c), effects[Key(c)].attempt + 1, t)
          /\ y.key = Key(c) /\ y.attempt = effects[Key(c)].attempt + 1
      BY <2>2, <3>1 DEF TakeKey, Acquires, Key
    <3>3. PICK row \in Rows(HashOf[c], Key(c), effects[Key(c)].attempt + 1, t) :
              /\ row.line = l /\ row.key = Key(c) /\ row.attempt = effects[Key(c)].attempt + 1
              /\ row.amount = Cost[HashOf[c]][l]
      <4>1. PICK row : row = [line |-> l, key |-> Key(c), attempt |-> effects[Key(c)].attempt + 1,
                              amount |-> Cost[HashOf[c]][l], at |-> t, held |-> TRUE]
        OBVIOUS
      <4>2. l \in {m \in Lines : Cost[HashOf[c]][m] > 0}
        BY <1>3, <2>2
      <4>3. row \in Rows(HashOf[c], Key(c), effects[Key(c)].attempt + 1, t)
        BY <4>1, <4>2 DEF Rows
      <4> QED
        BY <4>1, <4>3
    <3> QED
      BY <1>2, <2>2, <3>2, <3>3
  <2>3. \/ Owns(d) /\ Same(calls[d], calls'[d])
        \/ d = c /\ Acquires(c, calls[c], y, remote[c], n)
    <3>1. CASE d # c
      BY <1>2, <1>3, <3>1 DEF Owns, Same
    <3>2. CASE d = c
      <4>1. ~TakesUp(c, calls[c], y, remote[c], n)
        BY <1>3, <3>2, KernelConstants DEF TakesUp
      <4>2. Owner(y, n)
        BY <1>2, <1>3, <3>2 DEF Owns
      <4>3. \/ Owner(y, n) => Owns(c) /\ Same(calls[c], y)
            \/ Acquires(c, calls[c], y, remote[c], n) \/ TakesUp(c, calls[c], y, remote[c], n)
        BY <1>2, DeedRecord
      <4> QED
        BY <1>2, <3>2, <4>1, <4>2, <4>3
    <3> QED
      BY <3>1, <3>2
  <2> QED
    BY <2>1, <2>2, <2>3
<1> QED
  BY <1>3 DEF Paid, Key

LEMMA OutsidePaid == ASSUME CallInv, Paid, Outside PROVE Paid'
<1>1. calls' = calls /\ remote' = remote /\ [Next]_vars /\ TypeOK
  BY DEF Outside, CallInv
<1>2. ASSUME NEW d \in Calls, NEW l \in Lines, Owns(d), Cost[HashOf[d]][l] > 0
      PROVE  \E row \in ledger' : /\ row.line = l /\ row.key = Key(d)
                                 /\ row.attempt = calls[d].attempt
                                 /\ row.amount = Cost[HashOf[d]][l]
  <2>1. PICK row \in ledger : /\ row.line = l /\ row.key = Key(d)
                             /\ row.attempt = calls[d].attempt
                             /\ row.amount = Cost[HashOf[d]][l]
    BY <1>2 DEF Paid
  <2> QED
    BY <1>1, <2>1, RowsPersist DEF SameCharge
<1> QED
  BY <1>1, <1>2 DEF Paid, Owns, Key

(* Whatever ran was charged, in the transaction that gave it its number, and a charge *)
(* is given back only for an attempt that never acted or that somebody pardoned.      *)
THEOREM ChargesAreAlwaysEarned == KernelSpec => []ChargesAreEarned
<1>1. CallInv /\ CallInv' /\ Paid /\ [KernelNext]_kernelVars => Paid'
  <2> SUFFICES ASSUME CallInv, CallInv', Paid, [KernelNext]_kernelVars PROVE Paid'
    OBVIOUS
  <2> QED
    BY SomebodySteps, StepPaid, OutsidePaid
<1>2. KernelInit => Paid
  BY DEF KernelInit, Paid, Owns, Owner, IdleCall, Secures, Everyone
<1>3. CallInv /\ Paid /\ Pardoned /\ ChargesFollowEffects => ChargesAreEarned
  <2> SUFFICES ASSUME CallInv, Paid, Pardoned, ChargesFollowEffects PROVE ChargesAreEarned
    OBVIOUS
  <2>1. ASSUME NEW c \in Calls, NEW l \in Lines, Ran(c), Cost[HashOf[c]][l] > 0
        PROVE  \E row \in ledger : /\ row.line = l /\ row.key = Key(c)
                                  /\ row.attempt = calls[c].attempt
                                  /\ row.amount = Cost[HashOf[c]][l]
    <3>1. c \in Everyone /\ IsSecured(c, calls[c], remote[c]) /\ calls[c] \in CallState
      BY OfCall DEF Everyone, CallOK
    <3>2. Key(c) # NoKey
      BY <2>1, <3>1 DEF IsSecured, Unkeyed, Ran, Key
    <3>3. Owns(c)
      BY <2>1, <3>1, <3>2 DEF CallState, Owns, Owner, Ran, Key
    <3> QED
      BY <2>1, <3>3 DEF Paid
  <2>2. ASSUME NEW row \in ledger, ~row.held, NEW c \in ActedOn(row.key) \cap Calls,
               calls[c].attempt = row.attempt
        PROVE  row.attempt \in forgiven[row.key]
    <3>1. row.key \in Keys
      BY DEF CallInv, TypeOK, Consumption
    <3>2. Owns(c) /\ Runs(c) /\ Key(c) = row.key
      BY <3>1 DEF ActedOn, Owns, Owner, Runs, Leg, Key
    <3> QED
      BY <2>2, <3>2 DEF Pardoned, ChargesFollowEffects, Record
  <2> QED
    BY <2>1, <2>2 DEF ChargesAreEarned
<1>4. KernelSpec => []ChargesFollowEffects
  BY KernelUsesStore, ChargesAlwaysFollow, PTL DEF KernelImplementsStore
<1> QED
  BY <1>1, <1>2, <1>3, <1>4, CallsAreOrderly, LegsArePardoned, PTL DEF KernelSpec

-----------------------------------------------------------------------------
(* How many legs there may be *)

LEMMA Fewer ==
    ASSUME NEW S, NEW T, IsFiniteSet(S), T \subseteq S, NEW e, e \in S, e \notin T
    PROVE  IsFiniteSet(T) /\ Cardinality(T) + 1 <= Cardinality(S)
<1>1. IsFiniteSet(S \ {e}) /\ Cardinality(S \ {e}) = Cardinality(S) - 1
  BY FS_RemoveElement
<1>2. IsFiniteSet(T) /\ Cardinality(T) <= Cardinality(S \ {e})
  BY <1>1, FS_Subset
<1> QED
  BY <1>1, <1>2, FS_CardinalityType

LEMMA More ==
    ASSUME NEW S, NEW T, IsFiniteSet(S), NEW e, T \subseteq S \cup {e}
    PROVE  IsFiniteSet(T) /\ Cardinality(T) <= Cardinality(S) + 1
<1>0. Cardinality(S) \in Nat
  BY FS_CardinalityType
<1>1. IsFiniteSet(S \cup {e}) /\ Cardinality(S \cup {e}) <= Cardinality(S) + 1
  <2>1. CASE e \in S
    <3>1. S \cup {e} = S
      BY <2>1
    <3> QED
      BY <1>0, <3>1
  <2>2. CASE e \notin S
    <3>1. /\ IsFiniteSet(S \cup {e})
          /\ Cardinality(S \cup {e}) = IF e \in S THEN Cardinality(S) ELSE Cardinality(S) + 1
      BY FS_AddElement
    <3> QED
      BY <1>0, <2>2, <3>1
  <2> QED
    BY <2>1, <2>2
<1>2. IsFiniteSet(T) /\ Cardinality(T) <= Cardinality(S \cup {e})
  BY <1>1, FS_Subset
<1> QED
  BY <1>1, <1>2, FS_CardinalityType

(* Who has a stake in a key had one before, or took the key, or a value held for it. *)
LEMMA StakesBegin ==
    ASSUME CallInv, NEW c \in Everyone, NEW y, NEW n, Deed(c, calls[c], y, remote[c], n),
           calls'[c] = y, remote'[c] = n,
           \A e \in Everyone \ {c} : calls'[e] = calls[e] /\ remote'[e] = remote[e],
           NEW k \in Keys, NEW d \in Everyone, Staked(k, effects'[k], calls'[d], remote'[d])
    PROVE  \/ Staked(k, effects[k], calls[d], remote[d])
           \/ Acquires(c, calls[c], y, remote[c], n) /\ k = Key(c) /\ d = c
           \/ TakesUp(c, calls[c], y, remote[c], n) /\ k = y.key /\ d = c
<1>1. \/ effects'[k].state \in Unfinished =>
            effects[k].state \in Unfinished /\ effects'[k].action = effects[k].action
      \/ Acquires(c, calls[c], y, remote[c], n) /\ k = Key(c)
  BY DeedMoves DEF MovesOn, DeclaredFailed, Unfinished
<1>2. CASE d # c
  <2>1. calls'[d] = calls[d] /\ remote'[d] = remote[d]
    BY <1>2
  <2>2. CASE Leg(remote[d])
    BY <2>1, <2>2 DEF Staked
  <2>3. CASE ~Leg(remote[d]) /\ Acquires(c, calls[c], y, remote[c], n) /\ k = Key(c)
    <3>1. effects'[k].action = ActionOf[c] /\ c \in Calls
      BY <2>3, AcquireWrites DEF Acquires, CallInv, Key
    <3>2. /\ remote[d] = "idle" /\ calls[d].pc \in Secures /\ Key(d) = k
          /\ effects'[k].action = Action(d)
      BY <2>1, <2>3 DEF Staked, Key, Action
    <3>3. Owns(d)
      BY <3>2 DEF Owns, Owner, Key
    <3>4. d \in Calls
      BY <3>2, OfCall DEF CallOK, IsItsOwn, Secures, Started, Everyone
    <3>5. ActionOf[d] = ActionOf[c]
      BY <3>1, <3>2, <3>3, <3>4, OwnersAreMade
    <3> QED
      BY <1>2, <3>1, <3>4, <3>5, OneCallPerAction
  <2> QED
    BY <1>1, <2>1, <2>2, <2>3 DEF Staked
<1>3. CASE d = c
  <2> DEFINE x == calls[c]
             m == remote[c]
  <2>0. Staked(k, effects'[k], y, n)
    BY <1>3
  <2>1. CASE Prepares(c, x, y, m, n)
    BY <2>0, <2>1 DEF Prepares, Staked, Owner, Leg
  <2>2. CASE Continues(c, x, y, m, n)
    BY <1>3, <2>0, <2>2 DEF Continues, Staked, Same, Owner, Leg, Still
  <2>3. CASE Acquires(c, x, y, m, n)
    BY <1>3, <2>0, <2>3 DEF Acquires, Staked, Key
  <2>4. CASE Starts(c, x, y, m, n)
    BY <1>3, <2>0, <2>4 DEF Starts, BeginExecution, HeldIn, Unfinished, Staked, Same, Owner
  <2>5. CASE Withdraws(c, x, y, m, n)
    BY <1>3, <2>0, <2>5 DEF Withdraws, FailEffect, HeldIn, Unfinished, Staked, Same, Owner, Leg
  <2>6. CASE Concludes(c, x, y, m, n) \/ Parks(c, x, y, m, n)
    BY <1>3, <2>0, <2>6 DEF Concludes, Parks, Staked, Same, Leg
  <2>7. CASE TakesUp(c, x, y, m, n)
    BY <1>3, <2>0, <2>7 DEF Staked
  <2>8. CASE Declares(c, x, y, m, n) \/ Adjudicates(c, x, y, m, n)
    BY <1>1, <1>3, <2>0, <2>8 DEF Declares, Adjudicates, Staked, Same, Owner, Leg
  <2> QED
    BY <2>1, <2>2, <2>3, <2>4, <2>5, <2>6, <2>7, <2>8 DEF Deed
<1> QED
  BY <1>2, <1>3

(* Who withdraws its attempt or leaves a value to be resumed with gives up its stake. *)
LEMMA StakesEnd ==
    ASSUME CallInv, NEW c \in Everyone, NEW y, NEW n,
           Withdraws(c, calls[c], y, remote[c], n) \/ Parks(c, calls[c], y, remote[c], n)
    PROVE  /\ Key(c) \in Keys
           /\ Staked(Key(c), effects[Key(c)], calls[c], remote[c])
           /\ ~Staked(Key(c), effects'[Key(c)], y, n)
<1>1. CASE Withdraws(c, calls[c], y, remote[c], n)
  BY <1>1 DEF Withdraws, FailEffect, HeldIn, Unfinished, Staked, Same, Owner, Leg, Key
<1>2. CASE Parks(c, calls[c], y, remote[c], n)
  BY <1>2 DEF Parks, Staked, Leg, Key
<1> QED
  BY <1>1, <1>2

(* What a deed leaves alone keeps its count. *)
LEMMA KeepsCount ==
    ASSUME NEW k \in Keys, CountedOn(k), (Stakes(k))' \subseteq Stakes(k),
           continuations'[k].token # NoToken => continuations[k].token # NoToken,
           IsFiniteSet(forgiven[k]),
           \/ forgiven'[k] = forgiven[k] /\ (Free(effects'[k]) => Free(effects[k]))
           \/ /\ forgiven'[k] = forgiven[k] \cup {effects[k].attempt}
              /\ effects[k].attempt \notin forgiven[k]
    PROVE  (CountedOn(k))'
<1> DEFINE S == Stakes(k)
           T == (Stakes(k))'
<1>1. /\ IsFiniteSet(S) /\ IsFiniteSet(T) /\ Cardinality(T) <= Cardinality(S)
      /\ Cardinality(T) \in Nat /\ Cardinality(S) \in Nat /\ Cardinality(forgiven[k]) \in Nat
  BY FS_Subset, FS_CardinalityType DEF CountedOn
<1>2. Cardinality(S) + Tokens1(k) <= Cardinality(forgiven[k]) + Taken1(k)
  BY DEF CountedOn
<1>3. IF continuations'[k].token # NoToken THEN Tokens1(k) = 1 ELSE Tokens1(k) \in {0, 1}
  BY DEF Tokens1
<1>4. CASE forgiven'[k] = forgiven[k] /\ (Free(effects'[k]) => Free(effects[k]))
  <2>1. Taken1(k) <= (IF Free(effects'[k]) THEN 0 ELSE 1) /\ Taken1(k) \in {0, 1}
    BY <1>4 DEF Taken1
  <2> QED
    BY <1>1, <1>2, <1>3, <1>4, <2>1 DEF CountedOn, Tokens1, Taken1
<1>5. CASE /\ forgiven'[k] = forgiven[k] \cup {effects[k].attempt}
           /\ effects[k].attempt \notin forgiven[k]
  <2>1. Cardinality(forgiven'[k]) = Cardinality(forgiven[k]) + 1
    BY <1>5, FS_AddElement
  <2>2. Taken1(k) \in {0, 1}
    BY DEF Taken1
  <2> QED
    BY <1>1, <1>2, <1>3, <2>1, <2>2 DEF CountedOn, Tokens1, Taken1
<1> QED
  BY <1>4, <1>5

LEMMA StepCounted ==
    ASSUME CallInv, CallInv', Pardoned, Counted, NEW c \in Everyone, Stepped(c)
    PROVE  Counted'
<1>1. PICK y \in CallState, n \in Legs, h \in Results : StepOf(c, y, n, h)
  BY DEF Stepped
<1> DEFINE x == calls[c]
           m == remote[c]
<1>2. /\ calls'[c] = y /\ remote'[c] = n /\ Deed(c, x, y, m, n)
      /\ \A d \in Everyone \ {c} : calls'[d] = calls[d] /\ remote'[d] = remote[d]
      /\ TypeOK
  BY <1>1 DEF StepOf, CallInv, KernelTyped
<1>3. ASSUME NEW k \in Keys PROVE (CountedOn(k))'
  <2> DEFINE S == Stakes(k)
             T == {d \in Everyone : Staked(k, effects'[k], calls'[d], remote'[d])}
             v == IF continuations'[k].token # NoToken THEN 1 ELSE 0
             w == IF Free(effects'[k]) THEN 0 ELSE 1
             f == Cardinality(forgiven[k])
  <2>0. /\ IsFiniteSet(S) /\ IsFiniteSet(forgiven[k]) /\ f \in Nat /\ Cardinality(S) \in Nat
        /\ Cardinality(S) + Tokens1(k) <= f + Taken1(k)
        /\ Tokens1(k) \in {0, 1} /\ Taken1(k) \in {0, 1} /\ v \in {0, 1} /\ w \in {0, 1}
        /\ (CountedOn(k))' <=> /\ IsFiniteSet(T)
                               /\ Cardinality(T) + v <= Cardinality(forgiven'[k]) + w
    <3>1. IsFiniteSet(S) /\ IsFiniteSet(forgiven[k]) /\ Cardinality(S) + Tokens1(k) <= f + Taken1(k)
      BY <1>3 DEF Counted, CountedOn, Pardoned
    <3> QED
      BY <3>1, FS_CardinalityType DEF Tokens1, Taken1, CountedOn, Stakes
  <2>1. ASSUME NEW d \in T
        PROVE  \/ d \in S
               \/ Acquires(c, x, y, m, n) /\ k = Key(c) /\ d = c
               \/ TakesUp(c, x, y, m, n) /\ k = y.key /\ d = c
    BY <1>2, <1>3, <2>1, StakesBegin DEF Stakes
  <2>2. IsFiniteSet(T) => Cardinality(T) \in Nat
    BY FS_CardinalityType
  <2>3. CASE Acquires(c, x, y, m, n) /\ k = Key(c)
    <3>1. T \subseteq S \cup {c}
      BY <2>1
    <3>2. IsFiniteSet(T) /\ Cardinality(T) <= Cardinality(S) + 1
      BY <2>0, <3>1, More
    <3>3. PICK t \in Readings : TakeKey(k, Action(c), HashOf[c], t)
      BY <2>3 DEF Acquires, Key, Action
    <3>4. Free(effects[k]) /\ effects'[k].state = "reserved"
      BY <1>2, <1>3, <3>3, AcquireWrites
    <3>5. /\ Taken1(k) = 0 /\ w = 1 /\ v = Tokens1(k) /\ forgiven'[k] = forgiven[k]
      BY <2>3, <3>4 DEF Taken1, Free, Tokens1, Acquires
    <3> QED
      BY <2>0, <2>2, <3>2, <3>5
  <2>4. CASE TakesUp(c, x, y, m, n) /\ k = y.key
    <3>1. T \subseteq S \cup {c}
      BY <2>1
    <3>2. IsFiniteSet(T) /\ Cardinality(T) <= Cardinality(S) + 1
      BY <2>0, <3>1, More
    <3>3. PICK tok \in Tokens : TakeContinuation(k, tok)
      BY <2>4 DEF TakesUp
    <3>4. /\ Tokens1(k) = 1 /\ v = 0 /\ effects' = effects
      BY <1>2, <1>3, <3>3, TakeContinuationWrites DEF Tokens1
    <3>5. /\ w = Taken1(k) /\ forgiven'[k] = forgiven[k]
      BY <2>4, <3>4 DEF TakesUp, Taken1
    <3> QED
      BY <2>0, <2>2, <3>2, <3>4, <3>5
  <2>5. CASE (Withdraws(c, x, y, m, n) \/ Parks(c, x, y, m, n)) /\ k = Key(c)
    <3>1. c \in S /\ c \notin T
      BY <1>2, <2>5, StakesEnd DEF Stakes
    <3>2. ~Acquires(c, x, y, m, n) /\ ~TakesUp(c, x, y, m, n)
      BY <2>5 DEF Withdraws, Parks, Acquires, TakesUp
    <3>3. T \subseteq S
      BY <2>1, <3>2
    <3>4. IsFiniteSet(T) /\ Cardinality(T) + 1 <= Cardinality(S)
      BY <2>0, <3>1, <3>3, Fewer
    <3>5. forgiven'[k] = forgiven[k]
      BY <2>5 DEF Withdraws, Parks
    <3>6. CASE Withdraws(c, x, y, m, n)
      <4>1. v = Tokens1(k)
        BY <3>6 DEF Withdraws, FailEffect, Tokens1
      <4> QED
        BY <2>0, <2>2, <3>4, <3>5, <4>1
    <3>7. CASE Parks(c, x, y, m, n)
      <4>1. x.action \in Actions
        BY <3>7, RunnersAreMade DEF Parks, Action
      <4>2. effects[k].state = "executing" /\ effects'[k].state = "executing"
        BY <1>2, <1>3, <2>5, <3>7, <4>1, HoldWrites DEF Parks, Key, Wrote
      <4>3. w = 1 /\ Taken1(k) = 1
        BY <4>2 DEF Free, Taken1
      <4> QED
        BY <2>0, <2>2, <3>4, <3>5, <4>3
    <3> QED
      BY <2>5, <3>6, <3>7
  <2>6. CASE /\ ~(Acquires(c, x, y, m, n) /\ k = Key(c))
             /\ ~(TakesUp(c, x, y, m, n) /\ k = y.key)
             /\ ~(Withdraws(c, x, y, m, n) /\ k = Key(c))
             /\ ~(Parks(c, x, y, m, n) /\ k = Key(c))
    <3>1. (Stakes(k))' \subseteq S
      BY <2>1, <2>6 DEF Stakes
    <3>2. continuations'[k] = continuations[k]
      <4>1. \/ continuations' = continuations
            \/ /\ Parks(c, x, y, m, n)
               /\ \A j \in Keys \ {Key(c)} : continuations'[j] = continuations[j]
            \/ /\ TakesUp(c, x, y, m, n)
               /\ \A j \in Keys \ {y.key} : continuations'[j] = continuations[j]
        BY <1>2, ValuesMove
      <4>2. k \in Keys
        BY <1>3
      <4> QED
        BY <2>6, <4>1, <4>2
    <3>3. CASE forgiven'[k] = forgiven[k] /\ (effects'[k] = effects[k] \/ MovesOn(k))
      <4>1. Free(effects'[k]) => Free(effects[k])
        BY <3>3 DEF MovesOn, Free, Unfinished
      <4> QED
        BY <1>3, <2>0, <3>1, <3>2, <3>3, <4>1, KeepsCount DEF Counted
    <3>4. CASE DeclaredFailed(k, "hook")
      <4>1. effects[k].attempt \notin forgiven[k]
        BY <1>3, <3>4 DEF Pardoned, DeclaredFailed
      <4> QED
        BY <1>3, <2>0, <3>1, <3>2, <3>4, <4>1, KeepsCount DEF Counted, DeclaredFailed
    <3> QED
      BY <1>2, <1>3, <2>6, <3>3, <3>4, DeedMoves
  <2> QED
    BY <2>3, <2>4, <2>5, <2>6
<1> QED
  BY <1>3 DEF Counted

LEMMA OutsideCounted == ASSUME CallInv, Pardoned, Counted, Outside PROVE Counted'
<1>1. calls' = calls /\ remote' = remote /\ continuations' = continuations
  BY OutsideRecord
<1>2. ASSUME NEW k \in Keys PROVE (CountedOn(k))'
  <2>1. IsFiniteSet(forgiven[k]) /\ CountedOn(k)
    BY <1>2 DEF Pardoned, Counted
  <2>2. effects'[k].state \in Unfinished => effects'[k] = effects[k]
    BY <1>2, OutsideSettles DEF Unfinished
  <2>3. (Stakes(k))' \subseteq Stakes(k)
    BY <1>1, <2>2 DEF Stakes, Staked
  <2>4. \/ forgiven'[k] = forgiven[k] /\ (Free(effects'[k]) => Free(effects[k]))
        \/ /\ forgiven'[k] = forgiven[k] \cup {effects[k].attempt}
           /\ effects[k].attempt \notin forgiven[k]
    BY <1>2, OutsideSettles DEF Pardoned, Free
  <2> QED
    BY <1>1, <1>2, <2>1, <2>3, <2>4, KeepsCount
<1> QED
  BY <1>2 DEF Counted

(* An effect happens at most once more than somebody pardoned an attempt of it, and of *)
(* two calls that both did it the earlier was pardoned: whatever crashes, lapses,      *)
(* comes late, is retried or resumed.  Legs that run or may still run, and values held *)
(* to resume with, never outnumber the pardons and the one attempt that is taken.      *)
THEOREM ActsAreAlwaysPardoned == KernelSpec => []ActsArePardoned
<1>1. CallInv /\ CallInv' /\ Pardoned /\ Counted /\ [KernelNext]_kernelVars => Counted'
  <2> SUFFICES ASSUME CallInv, CallInv', Pardoned, Counted, [KernelNext]_kernelVars
               PROVE  Counted'
    OBVIOUS
  <2> QED
    BY SomebodySteps, StepCounted, OutsideCounted
<1>2. KernelInit => Counted
  <2> SUFFICES ASSUME KernelInit, NEW k \in Keys PROVE CountedOn(k)
    BY DEF Counted
  <2>1. Stakes(k) = {} /\ forgiven[k] = {}
    BY DEF KernelInit, Stakes, Staked, IdleCall, Leg, Secures
  <2>2. Tokens1(k) = 0 /\ Taken1(k) = 0
    BY DEF KernelInit, Init, NoRecord, Tokens1, Taken1, Free
  <2> QED
    BY <2>1, <2>2, FS_EmptySet DEF CountedOn
<1>3. CallInv /\ Numbered /\ Pardoned /\ Counted => ActsArePardoned
  <2> SUFFICES ASSUME CallInv, Numbered, Pardoned, Counted, NEW k \in Keys
               PROVE  /\ Cardinality(ActedOn(k)) <= 1 + Cardinality(forgiven[k])
                      /\ \A c, d \in ActedOn(k) \cap Calls :
                            c # d => /\ calls[c].attempt # calls[d].attempt
                                     /\ calls[c].attempt < calls[d].attempt =>
                                            calls[c].attempt \in forgiven[k]
    BY DEF ActsArePardoned
  <2>1. Cardinality(ActedOn(k)) <= 1 + Cardinality(forgiven[k])
    <3>1. /\ IsFiniteSet(Stakes(k)) /\ IsFiniteSet(forgiven[k])
          /\ Cardinality(Stakes(k)) + Tokens1(k) <= Cardinality(forgiven[k]) + Taken1(k)
      BY DEF Counted, CountedOn, Pardoned
    <3>2. ActedOn(k) \subseteq Stakes(k)
      BY DEF ActedOn, Stakes, Staked, Leg, Key
    <3>3. IsFiniteSet(ActedOn(k)) /\ Cardinality(ActedOn(k)) <= Cardinality(Stakes(k))
      BY <3>1, <3>2, FS_Subset
    <3>4. Tokens1(k) \in {0, 1} /\ Taken1(k) \in {0, 1}
      BY DEF Tokens1, Taken1
    <3> QED
      BY <3>1, <3>3, <3>4, FS_CardinalityType
  <2>2. ASSUME NEW c \in ActedOn(k) \cap Calls, NEW d \in ActedOn(k) \cap Calls, c # d
        PROVE  /\ calls[c].attempt # calls[d].attempt
               /\ calls[c].attempt < calls[d].attempt => calls[c].attempt \in forgiven[k]
    <3>1. /\ c \in Everyone /\ d \in Everyone /\ c \in Calls /\ d \in Calls
          /\ Key(c) = k /\ Key(d) = k /\ Owns(c) /\ Owns(d) /\ Runs(c)
      BY <2>2 DEF ActedOn, Everyone, Owns, Owner, Runs, Leg, Key
    <3>2. calls[c].attempt # calls[d].attempt
      BY <2>2, <3>1 DEF Numbered
    <3>3. calls[d].attempt <= effects[k].attempt /\ calls[d].attempt \in Nat
          /\ calls[c].attempt \in Nat /\ effects[k].attempt \in Nat
      BY <3>1, OwnersAreMade DEF Numbered, Record, CallInv, TypeOK, EffectRecord
    <3>4. calls[c].attempt \in forgiven[k] \/ calls[c].attempt = effects[k].attempt
      BY <3>1 DEF Pardoned, Record
    <3> QED
      BY <3>2, <3>3, <3>4
  <2> QED
    BY <2>1, <2>2
<1> QED
  BY <1>1, <1>2, <1>3, CallsAreOrderly, AttemptsAreNumbered, LegsArePardoned, PTL DEF KernelSpec
=============================================================================
