----------------------------- MODULE Kernel_proofs -----------------------------
(***************************************************************************)
(* The kernel over the store, for every number of calls, keys, approvals   *)
(* and attempts: every step is taken by one call, keeps what that call's   *)
(* program counter says of it (CallOK), and treats the effect it is about  *)
(* in one of a few ways (Deed).  What is said of the store's tables is     *)
(* proved deed by deed.                                                    *)
(***************************************************************************)
EXTENDS Kernel, EffectStore_proofs, FiniteSetTheorems

Legs == {"idle", "sent", "acted", "refused", "asking"}

(* What the program counter says of a call x, of what the remote did with its *)
(* request (m) and of the receipt it left (g).                                *)
Started == {"run", "eager", "settle", "record", "over", "suspended", "crashed"}
Secures == {"spend", "ceiling", "release", "unrun", "begin"}
NeedsKey == {"hook", "resolve", "eager", "settle", "ceiling", "release", "unrun", "begin"}

IsItsOwn(c, x) ==
    /\ x.pc # "idle" => x.action \in Actions
    /\ c \in Calls /\ x.pc # "idle" => x.action = ActionOf[c] /\ x.key = KeyOf[c]
    /\ c \in Resumers =>
          /\ x.decision = "none" /\ x.spent = NoApproval
          /\ x.pc # "idle" => x.pc \in Started \ {"eager", "settle"} /\ x.key \in Keys /\ x.asked

IsPlaced(x) ==
    /\ x.pc \in NeedsKey => x.key \in Keys
    /\ x.pc = "spend" => x.decision # "approve" /\ x.presented \in Approvals
    /\ x.pc \in {"take", "spend", "idle", "ask", "hook", "resolve"} => x.spent = NoApproval
    /\ x.pc \in {"take", "hook", "resolve"} /\ x.decision = "approve" => x.presented \in Approvals

IsSent(x, m) ==
    /\ m # "idle" => x.pc \in Started
    /\ x.pc = "idle" => x.key = NoKey /\ x.decision = "none"
    /\ x.pc \in {"run", "eager", "settle"} => m \in {"sent", "acted"}
    /\ x.pc = "suspended" => m \in {"asking", "acted"}

IsSecured(c, x, m) ==
    /\ c \in Calls /\ x.key \in Keys /\ (x.pc = "begin" \/ m # "idle") => x.attempt <= Ceiling
    /\ x.decision = "approve" /\ (x.pc \in Secures \/ m # "idle") => x.spent # NoApproval
    /\ (c \in Calls /\ x.key = NoKey /\ (x.pc \in {"ask", "take", "spend"} \/ m # "idle")) =>
           ~Unkeyed(HashOf[c], NoKey)

IsRecorded(x, m, g) ==
    /\ x.pc = "record" =>
          /\ x.result # "none"
          /\ x.result \in {"blocked", "denied"} => m = "idle"
          /\ x.result = "failed" => m = "refused"
          /\ x.result = "committed" => m = "acted"
    /\ g # "none" => x.pc \in {"release", "unrun", "over", "crashed"}
    /\ g \in {"blocked", "denied"} => m = "idle"
    /\ g = "failed" => m = "refused"
    /\ g = "committed" => m = "acted"
    /\ x.pc \in {"release", "unrun"} => g = "blocked"
    /\ x.pc = "over" /\ m # "idle" => g # "none"

CallOK(c, x, m, g) ==
    /\ x \in CallState /\ m \in Legs /\ g \in Results
    /\ IsItsOwn(c, x) /\ IsPlaced(x) /\ IsSent(x, m) /\ IsSecured(c, x, m)
    /\ IsRecorded(x, m, g)

(* A value held for an action is held for an action. *)
Tokened == \A k \in Keys : continuations[k].token # NoToken => continuations[k].action \in Actions

KernelTyped ==
    /\ calls \in [Everyone -> CallState] /\ remote \in [Everyone -> Legs]
    /\ receipts \in [Everyone -> Results] /\ forgiven \in [Keys -> SUBSET Nat]

CallInv ==
    /\ TypeOK /\ Tokened /\ KernelTyped
    /\ \A c \in Everyone : CallOK(c, calls[c], remote[c], receipts[c])

-----------------------------------------------------------------------------
(* What a step does to the effect the call is about: x is the call and m what the *)
(* remote did with it, y and n the same after the step.                           *)

Owner(x, m) == x.key \in Keys /\ (m # "idle" \/ x.pc \in Secures)
Leg(m) == m \in {"sent", "acted"}

(* The call is about what it was about. *)
Same(x, y) == y.key = x.key /\ y.action = x.action /\ y.attempt = x.attempt

Still == UNCHANGED <<effects, ledger, continuations, forgiven>>

(* It proposes, is refused, or goes on without a key. *)
Prepares(c, x, y, m, n) ==
    /\ c \in Calls /\ m = "idle" /\ ~Owner(x, m) /\ Still
    /\ n \in {"idle", "sent"} /\ ~Owner(y, n)

(* It goes on, or comes to an end, without a word to the store. *)
Continues(c, x, y, m, n) ==
    /\ Same(x, y) /\ Still
    /\ n = m \/ (m = "sent" /\ n \in {"acted", "refused", "asking"})
    /\ Owner(y, n) => Owner(x, m)

(* It takes its key, in one transaction with what it charges. *)
Acquires(c, x, y, m, n) ==
    /\ c \in Calls /\ m = "idle" /\ n = "idle" /\ ~Owner(x, m) /\ x.pc = "take"
    /\ x.key \in Keys /\ x.action = ActionOf[c]
    /\ y.key = x.key /\ y.action = x.action /\ y.attempt = effects[x.key].attempt + 1
    /\ \E t \in Readings : TakeKey(x.key, x.action, HashOf[c], t)
    /\ UNCHANGED <<continuations, forgiven>>

(* It begins: to execute, or to give back what it will not execute. *)
Starts(c, x, y, m, n) ==
    /\ c \in Calls /\ Same(x, y) /\ Owner(x, m) /\ m = "idle"
    /\ n = "idle" => Owner(y, n)
    /\ n \in {"idle", "sent"}
    /\ BeginExecution(x.key, x.action) /\ UNCHANGED forgiven

(* It proves that nothing happened: it was not executed, or never sent. *)
Withdraws(c, x, y, m, n) ==
    /\ Same(x, y) /\ Owner(x, m)
    /\ \/ m = "idle" /\ n = "idle" /\ c \in Calls /\ ~Owner(y, n)
       \/ m = "sent" /\ n = "refused"
    /\ FailEffect(x.key, x.action) /\ UNCHANGED forgiven

(* It says that it happened, or that nobody knows. *)
Concludes(c, x, y, m, n) ==
    /\ Same(x, y) /\ Leg(m) /\ x.key \in Keys
    /\ \/ n = m /\ CommitEffect(x.key, x.action)
       \/ /\ n = m \/ (m = "sent" /\ n \in {"refused", "asking"})
          /\ MarkAmbiguous(x.key, x.action)
    /\ UNCHANGED forgiven

(* It leaves a value to be resumed with. *)
Parks(c, x, y, m, n) ==
    /\ Same(x, y) /\ m = "sent" /\ n = "asking" /\ x.key \in Keys
    /\ \E tok \in Tokens : HoldContinuation(x.key, x.action, tok)
    /\ UNCHANGED forgiven

TakesUp(c, x, y, m, n) ==
    /\ c \in Resumers /\ m = "idle" /\ n = "sent" /\ ~Owner(x, m)
    /\ \E k \in Keys, tok \in Tokens :
          /\ TakeContinuation(k, tok)
          /\ y.key = k /\ y.action = continuations[k].action /\ y.attempt = effects[k].attempt
    /\ UNCHANGED forgiven

(* It finds the lease of the record lapsed. *)
Declares(c, x, y, m, n) ==
    /\ Same(x, y) /\ n = m /\ (Owner(y, n) => Owner(x, m)) /\ x.key \in Keys
    /\ AmbiguateLapsed(x.key) /\ UNCHANGED forgiven

(* It applies what the hook said. *)
Adjudicates(c, x, y, m, n) ==
    /\ Same(x, y) /\ n = m /\ (Owner(y, n) => Owner(x, m)) /\ x.key \in Keys
    /\ \E s \in Resolutions : ResolveEffect(x.key, s, "hook") /\ Forgive(x.key, s)

Deed(c, x, y, m, n) ==
    \/ Prepares(c, x, y, m, n) \/ Continues(c, x, y, m, n) \/ Acquires(c, x, y, m, n)
    \/ Starts(c, x, y, m, n) \/ Withdraws(c, x, y, m, n) \/ Concludes(c, x, y, m, n)
    \/ Parks(c, x, y, m, n) \/ TakesUp(c, x, y, m, n) \/ Declares(c, x, y, m, n)
    \/ Adjudicates(c, x, y, m, n)

(* What it does to the approvals: it consumes one for itself, or none. *)
ConsumesNone ==
    \A id \in Approvals : approvals'[id].status = "consumed" => approvals[id].status = "consumed"

Spends(c, x, y) ==
    \/ y.spent = x.spent /\ ConsumesNone
    \/ /\ c \in Calls /\ x.spent = NoApproval /\ y.spent \in Approvals
       /\ GrantedFor(y.spent, HashOf[c])
       /\ approvals' = [approvals EXCEPT ![y.spent].status = "consumed"]

(* It claims a commitment only as it writes one, or where there is no record. *)
Claims(x, g) == (x.pc = "record" /\ x.result = "committed") \/ g = "committed"

Tells(x, y, g, h) ==
    Claims(y, h) /\ x.key \in Keys =>
        Claims(x, g) \/ CommitEffect(x.key, x.action)

(* One step of one call. *)
StepOf(c, y, n, h) ==
    /\ calls' = [calls EXCEPT ![c] = y]
    /\ remote' = [remote EXCEPT ![c] = n]
    /\ receipts' = [receipts EXCEPT ![c] = h]
    /\ CallOK(c, y, n, h)
    /\ Deed(c, calls[c], y, remote[c], n)
    /\ Spends(c, calls[c], y)
    /\ Tells(calls[c], y, receipts[c], h)
    /\ [Next]_vars

Stepped(c) == \E y \in CallState, n \in Legs, h \in Results : StepOf(c, y, n, h)

-----------------------------------------------------------------------------
(* How a step writes the state of its call *)

AsBefore(x, y) ==
    /\ y.decision = x.decision /\ y.presented = x.presented /\ y.spent = x.spent
    /\ y.action = x.action /\ y.key = x.key /\ y.attempt = x.attempt /\ y.asked = x.asked

LEMMA GotoGives ==
    ASSUME CallInv, NEW c \in Everyone, NEW pc \in Counters, Goto(c, pc)
    PROVE  \E y \in CallState : /\ calls' = [calls EXCEPT ![c] = y] /\ y.pc = pc
                                /\ AsBefore(calls[c], y) /\ y.result = calls[c].result
<1>1. PICK x \in CallState : x = calls[c]
  BY DEF CallInv, KernelTyped
<1>2. PICK y : y = [x EXCEPT !.pc = pc]
  OBVIOUS
<1>3. y \in CallState /\ y.pc = pc /\ AsBefore(x, y) /\ y.result = x.result
  BY <1>2 DEF CallState, AsBefore
<1>4. calls' = [calls EXCEPT ![c] = y]
  BY <1>1, <1>2 DEF Goto
<1> QED
  BY <1>1, <1>3, <1>4

LEMMA RefuseGives ==
    ASSUME CallInv, NEW c \in Everyone, NEW result \in Results, Refuse(c, result)
    PROVE  \E y \in CallState : /\ calls' = [calls EXCEPT ![c] = y] /\ y.pc = "record"
                                /\ AsBefore(calls[c], y) /\ y.result = result
<1>1. PICK x \in CallState : x = calls[c]
  BY DEF CallInv, KernelTyped
<1>2. PICK y : y = [x EXCEPT !.pc = "record", !.result = result]
  OBVIOUS
<1>3. "record" \in Counters
  BY DEF Counters
<1>4. y \in CallState /\ y.pc = "record" /\ AsBefore(x, y) /\ y.result = result
  BY <1>2, <1>3 DEF CallState, AsBefore
<1>5. calls' = [calls EXCEPT ![c] = y]
  BY <1>1, <1>2 DEF Refuse, KernelTyped, CallInv
<1> QED
  BY <1>1, <1>4, <1>5

LEMMA StaysPut ==
    ASSUME CallInv, NEW c \in Everyone
    PROVE  /\ remote' = remote => remote' = [remote EXCEPT ![c] = remote[c]]
           /\ receipts' = receipts => receipts' = [receipts EXCEPT ![c] = receipts[c]]
           /\ remote[c] \in Legs /\ receipts[c] \in Results
  BY DEF CallInv, KernelTyped

(* The step of a call that leaves the effect alone. *)
LEMMA SilentStep ==
    ASSUME CallInv, NEW c \in Everyone,
           NEW y \in CallState, NEW n \in Legs, NEW h \in Results,
           calls' = [calls EXCEPT ![c] = y],
           remote' = [remote EXCEPT ![c] = n],
           receipts' = [receipts EXCEPT ![c] = h],
           CallOK(c, y, n, h), AsBefore(calls[c], y), Still, ConsumesNone,
           n = remote[c] \/ (remote[c] = "sent" /\ n \in {"acted", "refused", "asking"}),
           Owner(y, n) => Owner(calls[c], remote[c]),
           Claims(y, h) /\ y.key \in Keys => Claims(calls[c], receipts[c]), [Next]_vars
    PROVE  Stepped(c)
<1>1. Continues(c, calls[c], y, remote[c], n)
  BY DEF Continues, Same, AsBefore
<1>2. Deed(c, calls[c], y, remote[c], n)
  BY <1>1 DEF Deed
<1>3. Spends(c, calls[c], y) /\ Tells(calls[c], y, receipts[c], h)
  BY DEF Spends, Tells, AsBefore
<1>4. StepOf(c, y, n, h)
  BY <1>2, <1>3 DEF StepOf
<1> QED
  BY <1>4 DEF Stepped

(* One that writes nothing but its own state. *)
LEMMA LocalStep ==
    ASSUME CallInv, NEW c \in Everyone, NEW y \in CallState,
           calls' = [calls EXCEPT ![c] = y], UNCHANGED <<vars, localVars>>,
           CallOK(c, y, remote[c], receipts[c]), AsBefore(calls[c], y),
           y.pc \in Secures => calls[c].pc \in Secures,
           y.pc = "record" => y.result # "committed" \/ y.key \notin Keys
    PROVE  Stepped(c)
<1>1. /\ remote' = [remote EXCEPT ![c] = remote[c]] /\ receipts' = [receipts EXCEPT ![c] = receipts[c]]
      /\ remote[c] \in Legs /\ receipts[c] \in Results
  BY StaysPut DEF localVars
<1>2. Still /\ ConsumesNone /\ [Next]_vars
  BY DEF vars, localVars, Still, ConsumesNone
<1>3. Owner(y, remote[c]) => Owner(calls[c], remote[c])
  BY DEF Owner, AsBefore
<1>4. Claims(y, receipts[c]) /\ y.key \in Keys => Claims(calls[c], receipts[c])
  BY DEF Claims
<1> QED
  BY <1>1, <1>2, <1>3, <1>4, SilentStep

(* What the invariant says of the call. *)
LEMMA OfCall ==
    ASSUME CallInv, NEW c \in Everyone
    PROVE  CallOK(c, calls[c], remote[c], receipts[c])
  BY DEF CallInv

LEMMA CrashSteps == ASSUME CallInv, NEW c \in Everyone, Crash(c) PROVE Stepped(c)
<1>1. PICK y \in CallState : /\ calls' = [calls EXCEPT ![c] = y] /\ y.pc = "crashed"
                             /\ AsBefore(calls[c], y) /\ y.result = calls[c].result
  BY GotoGives DEF Crash, Counters
<1>2. CallOK(c, y, remote[c], receipts[c])
  BY <1>1, OfCall
  DEF CallOK, IsItsOwn, IsPlaced, IsSent, IsSecured, IsRecorded, AsBefore, Started, Secures,
      NeedsKey, Ended, Crash
<1>3. y.pc \notin Secures /\ y.pc # "record"
  BY <1>1 DEF Secures
<1> QED
  BY <1>1, <1>2, <1>3, LocalStep DEF Crash
LEMMA DuplicateRefusedSteps == ASSUME CallInv, NEW c \in Everyone, DuplicateRefused(c) PROVE Stepped(c)
<1>1. PICK result \in {"blocked"} : Refuse(c, result)
  BY DEF DuplicateRefused
<1>2. PICK y \in CallState : /\ calls' = [calls EXCEPT ![c] = y] /\ y.pc = "record"
                             /\ AsBefore(calls[c], y) /\ y.result = result
  BY <1>1, RefuseGives DEF Results
<1>3. CallOK(c, y, remote[c], receipts[c])
  BY <1>1, <1>2, OfCall
  DEF CallOK, IsItsOwn, IsPlaced, IsSent, IsSecured, IsRecorded, AsBefore, Started, Secures,
      NeedsKey, DuplicateRefused, At
<1>4. y.pc \notin Secures /\ y.result # "committed"
  BY <1>1, <1>2 DEF Secures
<1> QED
  BY <1>2, <1>3, <1>4, LocalStep DEF DuplicateRefused

LEMMA BudgetRefusedSteps == ASSUME CallInv, NEW c \in Everyone, BudgetRefused(c) PROVE Stepped(c)
<1>1. PICK result \in {"denied"} : Refuse(c, result)
  BY DEF BudgetRefused
<1>2. PICK y \in CallState : /\ calls' = [calls EXCEPT ![c] = y] /\ y.pc = "record"
                             /\ AsBefore(calls[c], y) /\ y.result = result
  BY <1>1, RefuseGives DEF Results
<1>3. CallOK(c, y, remote[c], receipts[c])
  BY <1>1, <1>2, OfCall
  DEF CallOK, IsItsOwn, IsPlaced, IsSent, IsSecured, IsRecorded, AsBefore, Started, Secures,
      NeedsKey, BudgetRefused, At
<1>4. y.pc \notin Secures /\ y.result # "committed"
  BY <1>1, <1>2 DEF Secures
<1> QED
  BY <1>2, <1>3, <1>4, LocalStep DEF BudgetRefused

LEMMA ApprovalRefusedSteps ==
    ASSUME CallInv, NEW c \in Everyone, ApprovalRefused(c) PROVE Stepped(c)
<1>1. PICK result \in {"blocked", "denied"} : Refuse(c, result)
  BY DEF ApprovalRefused
<1>2. PICK y \in CallState : /\ calls' = [calls EXCEPT ![c] = y] /\ y.pc = "record"
                             /\ AsBefore(calls[c], y) /\ y.result = result
  BY <1>1, RefuseGives DEF Results
<1>3. CallOK(c, y, remote[c], receipts[c])
  BY <1>1, <1>2, OfCall
  DEF CallOK, IsItsOwn, IsPlaced, IsSent, IsSecured, IsRecorded, AsBefore, Started, Secures,
      NeedsKey, ApprovalRefused, At
<1>4. y.pc \notin Secures /\ y.result # "committed"
  BY <1>1, <1>2 DEF Secures
<1>5. CASE UNCHANGED vars
  BY <1>2, <1>3, <1>4, <1>5, LocalStep DEF ApprovalRefused
<1>6. CASE ExpireApproval(calls[c].presented)
  <2>1. calls[c].presented \in Approvals
    BY OfCall DEF CallOK, IsPlaced, ApprovalRefused, At, Approving
  <2>2. Still /\ ConsumesNone /\ [Next]_vars
    <3>1. ApprovalStep(calls[c].presented)
      BY <1>6 DEF ApprovalStep
    <3>2. ConsumesNone
      BY <1>6, <2>1 DEF ExpireApproval, ConsumesNone, CallInv, TypeOK, ApprovalRecord
    <3> QED
      BY <1>6, <2>1, <3>1, <3>2 DEF Next, Still, ExpireApproval, ApprovalRefused, localVars
  <2>3. Owner(y, remote[c]) => Owner(calls[c], remote[c])
    BY <1>2, <1>4 DEF Owner, AsBefore
  <2>4. Claims(y, receipts[c]) /\ y.key \in Keys => Claims(calls[c], receipts[c])
    BY <1>4 DEF Claims
  <2>5. /\ remote' = [remote EXCEPT ![c] = remote[c]]
        /\ receipts' = [receipts EXCEPT ![c] = receipts[c]]
        /\ remote[c] \in Legs /\ receipts[c] \in Results
    BY StaysPut DEF ApprovalRefused, localVars
  <2> QED
    BY <1>2, <1>3, <2>2, <2>3, <2>4, <2>5, SilentStep
<1> QED
  BY <1>5, <1>6 DEF ApprovalRefused

LEMMA AskHumanSteps == ASSUME CallInv, NEW c \in Everyone, AskHuman(c) PROVE Stepped(c)
<1>1. PICK y \in CallState : /\ calls' = [calls EXCEPT ![c] = y] /\ y.pc = "waiting"
                             /\ AsBefore(calls[c], y) /\ y.result = calls[c].result
  BY GotoGives DEF AskHuman, Counters
<1>2. CallOK(c, y, remote[c], receipts[c])
  BY <1>1, OfCall
  DEF CallOK, IsItsOwn, IsPlaced, IsSent, IsSecured, IsRecorded, AsBefore, Started, Secures,
      NeedsKey, AskHuman, At
<1>3. PICK id \in Approvals, n \in 1..MaxNeeded : PutApprovalRequest(id, HashOf[c], n)
  BY DEF AskHuman
<1>4. c \in Calls /\ HashOf[c] \in Hashes
  BY OfCall, KernelConstants DEF CallOK, IsItsOwn, AskHuman, At, Started, Everyone
<1>5. Still /\ ConsumesNone /\ [Next]_vars
  <2>1. ApprovalStep(id)
    BY <1>3, <1>4 DEF ApprovalStep
  <2>2. ConsumesNone
    BY <1>3 DEF PutApprovalRequest, ConsumesNone, CallInv, TypeOK
  <2> QED
    BY <1>3, <2>1, <2>2 DEF Next, Still, PutApprovalRequest, AskHuman, localVars
<1>6. Owner(y, remote[c]) => Owner(calls[c], remote[c])
  BY <1>1 DEF Owner, AsBefore, Secures
<1>7. Claims(y, receipts[c]) => Claims(calls[c], receipts[c])
  BY <1>1 DEF Claims
<1>8. /\ remote' = [remote EXCEPT ![c] = remote[c]] /\ receipts' = [receipts EXCEPT ![c] = receipts[c]]
      /\ remote[c] \in Legs /\ receipts[c] \in Results
  BY StaysPut DEF AskHuman, localVars
<1> QED
  BY <1>1, <1>2, <1>5, <1>6, <1>7, <1>8, SilentStep

LEMMA AskHookSteps == ASSUME CallInv, NEW c \in Everyone, AskHook(c) PROVE Stepped(c)
<1>1. PICK ans \in Answers, pc \in {"resolve", "settle"} :
          /\ pc = IF At(c, "hook") THEN "resolve" ELSE "settle"
          /\ calls' = [calls EXCEPT ![c].pc = pc, ![c].asked = TRUE, ![c].answer = ans]
  BY DEF AskHook, HookAnswers, Answers, Resolutions
<1>2. PICK x \in CallState : x = calls[c]
  BY DEF CallInv, KernelTyped
<1>3. PICK y : y = [x EXCEPT !.pc = pc, !.asked = TRUE, !.answer = ans]
  OBVIOUS
<1>4. pc \in Counters
  BY DEF Counters
<1>5. /\ y \in CallState /\ y.pc = pc /\ y.decision = x.decision /\ y.presented = x.presented
      /\ y.spent = x.spent /\ y.action = x.action /\ y.key = x.key /\ y.attempt = x.attempt
      /\ y.asked
  BY <1>3, <1>4 DEF CallState
<1>6. calls' = [calls EXCEPT ![c] = y]
  BY <1>1, <1>2, <1>3 DEF CallInv, KernelTyped
<1>7. CallOK(c, y, remote[c], receipts[c])
  BY <1>1, <1>2, <1>5, OfCall
  DEF CallOK, IsItsOwn, IsPlaced, IsSent, IsSecured, IsRecorded, AsBefore, Started, Secures,
      NeedsKey, AskHook, At
<1>8. /\ remote' = [remote EXCEPT ![c] = remote[c]] /\ receipts' = [receipts EXCEPT ![c] = receipts[c]]
      /\ remote[c] \in Legs /\ receipts[c] \in Results
  BY StaysPut DEF AskHook, localVars
<1>9. Still /\ ConsumesNone /\ [Next]_vars
  BY DEF vars, localVars, Still, ConsumesNone, AskHook
<1>10. Continues(c, calls[c], y, remote[c], remote[c])
  BY <1>1, <1>2, <1>5, <1>9 DEF Continues, Same, Owner, Secures
<1>11. Deed(c, calls[c], y, remote[c], remote[c])
  BY <1>10 DEF Deed
<1>12. Spends(c, calls[c], y) /\ Tells(calls[c], y, receipts[c], receipts[c])
  BY <1>1, <1>2, <1>5, <1>9 DEF Spends, Tells, Claims
<1> QED
  BY <1>5, <1>6, <1>7, <1>8, <1>9, <1>11, <1>12 DEF StepOf, Stepped
(* The step of a call that writes to the store, but consumes no approval. *)
LEMMA WritingStep ==
    ASSUME CallInv, NEW c \in Everyone,
           NEW y \in CallState, NEW n \in Legs,
           calls' = [calls EXCEPT ![c] = y],
           remote' = [remote EXCEPT ![c] = n], UNCHANGED <<receipts, approvals>>,
           CallOK(c, y, n, receipts[c]), AsBefore(calls[c], y),
           Deed(c, calls[c], y, remote[c], n),
           y.pc = "record" /\ y.result = "committed" =>
               CommitEffect(calls[c].key, calls[c].action),
           [Next]_vars
    PROVE  Stepped(c)
<1>1. receipts' = [receipts EXCEPT ![c] = receipts[c]] /\ receipts[c] \in Results
  BY StaysPut
<1>2. Spends(c, calls[c], y)
  BY DEF Spends, AsBefore, ConsumesNone
<1>3. Tells(calls[c], y, receipts[c], receipts[c])
  BY DEF Tells, Claims
<1>4. StepOf(c, y, n, receipts[c])
  BY <1>1, <1>2, <1>3 DEF StepOf
<1> QED
  BY <1>1, <1>4 DEF Stepped

(* What a holder writes to its own record is a step of the store. *)
LEMMA HolderWrites ==
    ASSUME CallInv, NEW c \in Everyone, calls[c].pc # "idle", calls[c].key \in Keys,
           \/ BeginExecution(calls[c].key, calls[c].action)
           \/ CommitEffect(calls[c].key, calls[c].action)
           \/ FailEffect(calls[c].key, calls[c].action)
           \/ MarkAmbiguous(calls[c].key, calls[c].action)
           \/ \E tok \in Tokens : HoldContinuation(calls[c].key, calls[c].action, tok)
    PROVE  [Next]_vars /\ UNCHANGED approvals
<1>1. calls[c].action \in Actions
  BY OfCall DEF CallOK, IsItsOwn
<1>2. HolderStep(calls[c].key, calls[c].action)
  BY DEF HolderStep
<1> QED
  BY <1>1, <1>2
  DEF Next, BeginExecution, CommitEffect, FailEffect, MarkAmbiguous, HoldContinuation

LEMMA AmbiguousRefusedSteps ==
    ASSUME CallInv, NEW c \in Everyone, AmbiguousRefused(c) PROVE Stepped(c)
<1>1. PICK pc \in {"hook", "record"}, y \in CallState :
          /\ calls' = [calls EXCEPT ![c] = y] /\ y.pc = pc /\ AsBefore(calls[c], y)
          /\ pc = "record" => y.result = "blocked"
  <2>1. CASE Goto(c, "hook")
    BY <2>1, GotoGives DEF Counters
  <2>2. CASE Refuse(c, "blocked")
    BY <2>2, RefuseGives DEF Results
  <2> QED
    BY <2>1, <2>2 DEF AmbiguousRefused
<1>2. At(c, "take") /\ calls[c].key \in Keys
  BY DEF AmbiguousRefused, Keyed, Key, CallInv, KernelTyped, CallState
<1>3. CallOK(c, y, remote[c], receipts[c])
  BY <1>1, <1>2, OfCall
  DEF CallOK, IsItsOwn, IsPlaced, IsSent, IsSecured, IsRecorded, AsBefore, Started, Secures,
      NeedsKey, At
<1>4. y.pc \notin Secures /\ (y.pc = "record" => y.result # "committed")
  BY <1>1 DEF Secures
<1>5. CASE UNCHANGED vars
  BY <1>1, <1>3, <1>4, <1>5, LocalStep DEF AmbiguousRefused
<1>6. CASE AmbiguateLapsed(calls[c].key)
  <2>1. [Next]_vars /\ UNCHANGED approvals
    BY <1>2, <1>6 DEF Next, KeyStep, AmbiguateLapsed
  <2>2. Declares(c, calls[c], y, remote[c], remote[c])
    BY <1>1, <1>2, <1>4, <1>6 DEF Declares, Same, AsBefore, Owner, AmbiguousRefused, localVars
  <2>3. Deed(c, calls[c], y, remote[c], remote[c])
    BY <2>2 DEF Deed
  <2>4. remote' = [remote EXCEPT ![c] = remote[c]] /\ remote[c] \in Legs /\ receipts' = receipts
    BY StaysPut DEF AmbiguousRefused, localVars
  <2> QED
    BY <1>1, <1>3, <1>4, <2>1, <2>3, <2>4, WritingStep
<1> QED
  BY <1>5, <1>6 DEF AmbiguousRefused, Key

(* The hook's answer is applied to the record, or the record has moved on. *)
LEMMA AnswerSteps ==
    ASSUME CallInv, NEW c \in Everyone, ApplyAnswer(c) \/ SettleAnswer(c) PROVE Stepped(c)
<1>1. calls[c].pc \in {"resolve", "settle"} /\ calls[c].key \in Keys
  BY OfCall DEF ApplyAnswer, SettleAnswer, At, CallOK, IsPlaced, NeedsKey
<1>2. PICK y \in CallState :
          /\ calls' = [calls EXCEPT ![c] = y] /\ AsBefore(calls[c], y)
          /\ \/ y.pc = "take" /\ At(c, "resolve")
             \/ y.pc = "record" /\ y.result = "blocked" /\ At(c, "resolve")
             \/ y.pc = "record" /\ y.result = "ambiguous" /\ At(c, "settle")
  <2>1. CASE Goto(c, "take") /\ At(c, "resolve")
    BY <2>1, GotoGives DEF Counters
  <2>2. CASE Refuse(c, "blocked") /\ At(c, "resolve")
    BY <2>2, RefuseGives DEF Results
  <2>3. CASE Refuse(c, "ambiguous") /\ At(c, "settle")
    BY <2>3, RefuseGives DEF Results
  <2> QED
    BY <2>1, <2>2, <2>3 DEF ApplyAnswer, SettleAnswer
<1>3. CallOK(c, y, remote[c], receipts[c])
  BY <1>1, <1>2, OfCall, KernelConstants
  DEF CallOK, IsItsOwn, IsPlaced, IsSent, IsSecured, IsRecorded, AsBefore, Started, Secures,
      NeedsKey, At
<1>4. y.pc \notin Secures /\ (y.pc = "record" => y.result # "committed")
  BY <1>2 DEF Secures
<1>5. CASE Dropped(c)
  BY <1>2, <1>3, <1>4, <1>5, LocalStep DEF ApplyAnswer, SettleAnswer, Dropped, localVars
<1>6. CASE Applies(c)
  <2>1. PICK s \in Resolutions : ResolveEffect(calls[c].key, s, "hook") /\ Forgive(calls[c].key, s)
    BY <1>6 DEF Applies, Key
  <2>2. [Next]_vars /\ UNCHANGED approvals
    BY <1>1, <2>1 DEF Next, KeyStep, ResolveEffect, Resolvers
  <2>3. Adjudicates(c, calls[c], y, remote[c], remote[c])
    BY <1>1, <1>2, <1>4, <2>1 DEF Adjudicates, Same, AsBefore, Owner
  <2>4. Deed(c, calls[c], y, remote[c], remote[c])
    BY <2>3 DEF Deed
  <2>5. remote' = [remote EXCEPT ![c] = remote[c]] /\ remote[c] \in Legs /\ receipts' = receipts
    BY StaysPut DEF ApplyAnswer, SettleAnswer
  <2> QED
    BY <1>2, <1>3, <1>4, <2>2, <2>4, <2>5, WritingStep
<1> QED
  BY <1>5, <1>6 DEF ApplyAnswer, SettleAnswer

LEMMA RefuseCeilingSteps ==
    ASSUME CallInv, NEW c \in Everyone, RefuseCeiling(c) PROVE Stepped(c)
<1>1. PICK y \in CallState : /\ calls' = [calls EXCEPT ![c] = y] /\ y.pc = "release"
                             /\ AsBefore(calls[c], y) /\ y.result = calls[c].result
  BY GotoGives DEF RefuseCeiling, Counters
<1>2. CallOK(c, y, remote[c], "blocked")
  BY <1>1, OfCall
  DEF CallOK, IsItsOwn, IsPlaced, IsSent, IsSecured, IsRecorded, AsBefore, Started, Secures,
      NeedsKey, RefuseCeiling, At, Results
<1>3. /\ remote' = [remote EXCEPT ![c] = remote[c]] /\ remote[c] \in Legs
      /\ receipts' = [receipts EXCEPT ![c] = "blocked"] /\ "blocked" \in Results
  BY StaysPut DEF RefuseCeiling, Results
<1>4. Still /\ ConsumesNone /\ [Next]_vars
  BY DEF vars, localVars, Still, ConsumesNone, RefuseCeiling
<1>5. Owner(y, remote[c]) => Owner(calls[c], remote[c])
  BY <1>1 DEF Owner, AsBefore, RefuseCeiling, At, Secures
<1>6. ~Claims(y, "blocked")
  BY <1>1 DEF Claims
<1> QED
  BY <1>1, <1>2, <1>3, <1>4, <1>5, <1>6, SilentStep

LEMMA RecordReceiptSteps ==
    ASSUME CallInv, NEW c \in Everyone, RecordReceipt(c) PROVE Stepped(c)
<1>1. PICK y \in CallState : /\ calls' = [calls EXCEPT ![c] = y] /\ y.pc = "over"
                             /\ AsBefore(calls[c], y) /\ y.result = calls[c].result
  BY GotoGives DEF RecordReceipt, Counters
<1>2. PICK h \in Results : h = calls[c].result
  BY DEF CallInv, KernelTyped, CallState
<1>3. CallOK(c, y, remote[c], h)
  BY <1>1, <1>2, OfCall
  DEF CallOK, IsItsOwn, IsPlaced, IsSent, IsSecured, IsRecorded, AsBefore, Started, Secures,
      NeedsKey, RecordReceipt, At
<1>4. /\ remote' = [remote EXCEPT ![c] = remote[c]] /\ remote[c] \in Legs
      /\ receipts' = [receipts EXCEPT ![c] = h]
  BY <1>2, StaysPut DEF RecordReceipt
<1>5. Still /\ ConsumesNone /\ [Next]_vars
  BY DEF vars, localVars, Still, ConsumesNone, RecordReceipt
<1>6. Owner(y, remote[c]) => Owner(calls[c], remote[c])
  BY <1>1 DEF Owner, AsBefore, Secures
<1>7. Claims(y, h) => Claims(calls[c], receipts[c])
  BY <1>1, <1>2 DEF Claims, RecordReceipt, At
<1> QED
  BY <1>1, <1>3, <1>4, <1>5, <1>6, <1>7, SilentStep
(* A call that has its key and has not begun is a call of execute. *)
LEMMA Securing ==
    ASSUME CallInv, NEW c \in Everyone, calls[c].pc \in {"ceiling", "release", "unrun", "begin"}
    PROVE  /\ c \in Calls /\ remote[c] = "idle" /\ calls[c].key \in Keys
           /\ Owner(calls[c], remote[c]) /\ calls[c].pc # "idle"
  BY OfCall DEF CallOK, IsItsOwn, IsPlaced, IsSent, Started, NeedsKey, Everyone, Owner, Secures

LEMMA ReleaseSteps == ASSUME CallInv, NEW c \in Everyone, Release(c) PROVE Stepped(c)
<1>0. calls[c].pc = "release"
  BY DEF Release, At
<1>1. CASE Goto(c, "over") /\ UNCHANGED vars
  <2>1. PICK y \in CallState : /\ calls' = [calls EXCEPT ![c] = y] /\ y.pc = "over"
                               /\ AsBefore(calls[c], y) /\ y.result = calls[c].result
    BY <1>1, GotoGives DEF Counters
  <2>2. CallOK(c, y, remote[c], receipts[c])
    BY <1>0, <2>1, OfCall
    DEF CallOK, IsItsOwn, IsPlaced, IsSent, IsSecured, IsRecorded, AsBefore, Started, Secures,
      NeedsKey
  <2>3. y.pc \notin Secures /\ y.pc # "record"
    BY <2>1 DEF Secures
  <2> QED
    BY <1>1, <2>1, <2>2, <2>3, LocalStep DEF Release
<1>2. CASE Goto(c, "unrun") /\ BeginExecution(calls[c].key, calls[c].action)
  <2>1. PICK y \in CallState : /\ calls' = [calls EXCEPT ![c] = y] /\ y.pc = "unrun"
                               /\ AsBefore(calls[c], y) /\ y.result = calls[c].result
    BY <1>2, GotoGives DEF Counters
  <2>2. CallOK(c, y, remote[c], receipts[c])
    BY <1>0, <2>1, OfCall
    DEF CallOK, IsItsOwn, IsPlaced, IsSent, IsSecured, IsRecorded, AsBefore, Started, Secures,
      NeedsKey
  <2>3. Starts(c, calls[c], y, remote[c], remote[c])
    BY <1>0, <1>2, <2>1, Securing DEF Starts, Same, AsBefore, Owner, Secures, Release, localVars
  <2>4. Deed(c, calls[c], y, remote[c], remote[c])
    BY <2>3 DEF Deed
  <2>5. [Next]_vars /\ UNCHANGED approvals
    BY <1>0, <1>2, Securing, HolderWrites
  <2>6. remote' = [remote EXCEPT ![c] = remote[c]] /\ remote[c] \in Legs /\ receipts' = receipts
    BY StaysPut DEF Release, localVars
  <2> QED
    BY <2>1, <2>2, <2>4, <2>5, <2>6, WritingStep
<1> QED
  BY <1>1, <1>2 DEF Release, Key, Action

LEMMA UnrunSteps == ASSUME CallInv, NEW c \in Everyone, Unrun(c) PROVE Stepped(c)
<1>0. calls[c].pc = "unrun"
  BY DEF Unrun, At
<1>1. PICK y \in CallState : /\ calls' = [calls EXCEPT ![c] = y] /\ y.pc = "over"
                             /\ AsBefore(calls[c], y) /\ y.result = calls[c].result
  BY GotoGives DEF Counters, Unrun
<1>2. CallOK(c, y, remote[c], receipts[c])
  BY <1>0, <1>1, OfCall
  DEF CallOK, IsItsOwn, IsPlaced, IsSent, IsSecured, IsRecorded, AsBefore, Started, Secures,
      NeedsKey
<1>3. y.pc \notin Secures /\ y.pc # "record"
  BY <1>1 DEF Secures
<1>4. CASE UNCHANGED vars
  BY <1>1, <1>2, <1>3, <1>4, LocalStep DEF Unrun
<1>5. CASE FailEffect(calls[c].key, calls[c].action)
  <2>1. Withdraws(c, calls[c], y, remote[c], remote[c])
    BY <1>0, <1>1, <1>3, <1>5, Securing DEF Withdraws, Same, AsBefore, Owner, Unrun, localVars
  <2>2. Deed(c, calls[c], y, remote[c], remote[c])
    BY <2>1 DEF Deed
  <2>3. [Next]_vars /\ UNCHANGED approvals
    BY <1>0, <1>5, Securing, HolderWrites
  <2>4. remote' = [remote EXCEPT ![c] = remote[c]] /\ remote[c] \in Legs /\ receipts' = receipts
    BY StaysPut DEF Unrun, localVars
  <2> QED
    BY <1>1, <1>2, <1>3, <2>2, <2>3, <2>4, WritingStep
<1> QED
  BY <1>4, <1>5 DEF Unrun, Key, Action

LEMMA BeginSteps == ASSUME CallInv, NEW c \in Everyone, Begin(c) PROVE Stepped(c)
<1>0. calls[c].pc = "begin"
  BY DEF Begin, At
<1>1. PICK y \in CallState : /\ calls' = [calls EXCEPT ![c] = y] /\ y.pc = "run"
                             /\ AsBefore(calls[c], y) /\ y.result = calls[c].result
  BY GotoGives DEF Counters, Begin
<1>2. CallOK(c, y, "sent", receipts[c])
  BY <1>0, <1>1, OfCall, KernelConstants
  DEF CallOK, IsItsOwn, IsPlaced, IsSent, IsSecured, IsRecorded, AsBefore, Started, Secures,
      NeedsKey, Legs
<1>3. Starts(c, calls[c], y, remote[c], "sent")
  BY <1>0, <1>1, Securing DEF Starts, Same, AsBefore, Begin, Key, Action
<1>4. Deed(c, calls[c], y, remote[c], "sent")
  BY <1>3 DEF Deed
<1>5. [Next]_vars /\ UNCHANGED approvals
  BY <1>0, Securing, HolderWrites DEF Begin, Key, Action
<1> QED
  BY <1>1, <1>2, <1>4, <1>5, WritingStep DEF Begin, Legs

LEMMA BeginRefusedSteps == ASSUME CallInv, NEW c \in Everyone, BeginRefused(c) PROVE Stepped(c)
<1>0. calls[c].pc = "begin" /\ UNCHANGED <<vars, localVars>>
  BY DEF BeginRefused, At
<1>1. PICK y \in CallState :
          /\ calls' = [calls EXCEPT ![c] = y] /\ AsBefore(calls[c], y)
          /\ y.pc = "over" \/ (y.pc = "record" /\ y.result = "blocked")
  <2>1. CASE Refuse(c, "blocked")
    BY <2>1, RefuseGives DEF Results
  <2>2. CASE Goto(c, "over")
    BY <2>2, GotoGives DEF Counters
  <2> QED
    BY <2>1, <2>2 DEF BeginRefused
<1>2. CallOK(c, y, remote[c], receipts[c])
  BY <1>0, <1>1, OfCall
  DEF CallOK, IsItsOwn, IsPlaced, IsSent, IsSecured, IsRecorded, AsBefore, Started, Secures,
      NeedsKey
<1>3. y.pc \notin Secures /\ (y.pc = "record" => y.result # "committed")
  BY <1>1 DEF Secures
<1> QED
  BY <1>0, <1>1, <1>2, <1>3, LocalStep

LEMMA RemoteActsSteps == ASSUME CallInv, NEW c \in Everyone, RemoteActs(c) PROVE Stepped(c)
<1>1. PICK y \in CallState : y = calls[c]
  BY DEF CallInv, KernelTyped
<1>2. /\ calls' = [calls EXCEPT ![c] = y] /\ receipts' = [receipts EXCEPT ![c] = receipts[c]]
      /\ receipts[c] \in Results /\ remote' = [remote EXCEPT ![c] = "acted"] /\ "acted" \in Legs
  BY <1>1, StaysPut DEF RemoteActs, CallInv, KernelTyped, Legs
<1>3. CallOK(c, y, "acted", receipts[c])
  BY <1>1, OfCall
  DEF CallOK, IsItsOwn, IsPlaced, IsSent, IsSecured, IsRecorded, AsBefore, Started, Secures,
      NeedsKey, Legs, RemoteActs
<1>4. Still /\ ConsumesNone /\ [Next]_vars
  BY DEF vars, Still, ConsumesNone, RemoteActs
<1>5. AsBefore(calls[c], y) /\ (Owner(y, "acted") => Owner(calls[c], remote[c]))
  BY <1>1 DEF AsBefore, Owner, RemoteActs
<1>6. Claims(y, receipts[c]) => Claims(calls[c], receipts[c])
  BY <1>1
<1> QED
  BY <1>2, <1>3, <1>4, <1>5, <1>6, SilentStep DEF RemoteActs

(* A call that runs has its action, and an outcome it reports is a receipt to be. *)
LEMMA Running ==
    ASSUME CallInv, NEW c \in Everyone, At(c, "run")
    PROVE  /\ calls[c].pc = "run" /\ remote[c] \in {"sent", "acted"} /\ calls[c].action \in Actions
           /\ calls[c].key \in Keys <=> Keyed(c)
  BY OfCall, KernelConstants
  DEF CallOK, CallState, IsItsOwn, IsSent, At, Keyed, Key

LEMMA Reports ==
    ASSUME CallInv, NEW c \in Everyone, At(c, "run"),
           NEW result \in {"committed", "failed", "ambiguous"}, Refuse(c, result),
           NEW n \in Legs,
           n \in {remote[c], "refused", "asking"}, result = "failed" => n = "refused",
           result = "committed" => n = "acted"
    PROVE  \E y \in CallState :
               /\ calls' = [calls EXCEPT ![c] = y] /\ AsBefore(calls[c], y)
               /\ y.pc = "record" /\ y.result = result
               /\ CallOK(c, y, n, receipts[c])
<1>1. PICK y \in CallState : /\ calls' = [calls EXCEPT ![c] = y] /\ y.pc = "record"
                             /\ AsBefore(calls[c], y) /\ y.result = result
  BY RefuseGives DEF Results
<1>2. CallOK(c, y, n, receipts[c])
  BY <1>1, Running, OfCall
  DEF CallOK, IsItsOwn, IsPlaced, IsSent, IsSecured, IsRecorded, AsBefore, Started, Secures,
      NeedsKey, At, Legs
<1> QED
  BY <1>1, <1>2

LEMMA ReturnsSteps == ASSUME CallInv, NEW c \in Everyone, Returns(c) PROVE Stepped(c)
<1>0. At(c, "run") /\ remote[c] = "acted" /\ remote' = remote /\ receipts' = receipts /\ forgiven' = forgiven
  BY DEF Returns, localVars
<1>9. remote[c] \in Legs /\ "committed" \in {"committed", "failed", "ambiguous"}
  BY <1>0 DEF Legs
<1>8. Refuse(c, "committed") =>
          \E y \in CallState : /\ calls' = [calls EXCEPT ![c] = y] /\ AsBefore(calls[c], y)
                               /\ y.pc = "record" /\ y.result = "committed"
                               /\ CallOK(c, y, remote[c], receipts[c])
  <2> SUFFICES ASSUME Refuse(c, "committed")
               PROVE  \E y \in CallState :
                          /\ calls' = [calls EXCEPT ![c] = y] /\ AsBefore(calls[c], y)
                          /\ y.pc = "record" /\ y.result = "committed"
                          /\ CallOK(c, y, remote[c], receipts[c])
    OBVIOUS
  <2>1. remote[c] = "acted" /\ remote[c] \in {remote[c], "refused", "asking"}
    BY <1>0
  <2> QED
    BY ONLY <1>0, <1>9, <2>1, CallInv, c \in Everyone, Refuse(c, "committed"), Reports
<1>1. CASE Keyed(c) /\ CommitEffect(calls[c].key, calls[c].action) /\ Refuse(c, "committed")
  <2>1. PICK y \in CallState : /\ calls' = [calls EXCEPT ![c] = y] /\ AsBefore(calls[c], y)
                               /\ y.pc = "record" /\ y.result = "committed"
                               /\ CallOK(c, y, remote[c], receipts[c])
    BY <1>1, <1>8
  <2>2. Concludes(c, calls[c], y, remote[c], remote[c])
    BY <1>0, <1>1, <2>1, Running DEF Concludes, Same, AsBefore, Leg
  <2>3. Deed(c, calls[c], y, remote[c], remote[c])
    BY <2>2 DEF Deed
  <2>4. [Next]_vars /\ UNCHANGED approvals
    BY <1>0, <1>1, Running, HolderWrites
  <2>5. remote' = [remote EXCEPT ![c] = remote[c]] /\ remote[c] \in Legs
    BY <1>0, StaysPut
  <2> QED
    BY <1>0, <1>1, <2>1, <2>3, <2>4, <2>5, WritingStep
<1>2. CASE ~Keyed(c) /\ UNCHANGED vars /\ Refuse(c, "committed")
  <2>1. PICK y \in CallState : /\ calls' = [calls EXCEPT ![c] = y] /\ AsBefore(calls[c], y)
                               /\ y.pc = "record" /\ y.result = "committed"
                               /\ CallOK(c, y, remote[c], receipts[c])
    BY <1>2, <1>8
  <2>2. y.key \notin Keys /\ y.pc \notin Secures
    BY <1>0, <1>2, <2>1, Running DEF AsBefore, Secures
  <2> QED
    BY <1>0, <1>2, <2>1, <2>2, LocalStep DEF localVars
<1>3. CASE UNCHANGED vars /\ Refuse(c, "ambiguous")
  <2>1. PICK y \in CallState : /\ calls' = [calls EXCEPT ![c] = y] /\ AsBefore(calls[c], y)
                               /\ y.pc = "record" /\ y.result = "ambiguous"
                               /\ CallOK(c, y, remote[c], receipts[c])
    BY <1>0, <1>3, <1>9, Reports
  <2>2. y.pc \notin Secures
    BY <2>1 DEF Secures
  <2> QED
    BY <1>0, <1>3, <2>1, <2>2, LocalStep DEF localVars
<1> QED
  BY <1>1, <1>2, <1>3 DEF Returns, Outcome, Key, Action

LEMMA RaisesNotExecutedSteps ==
    ASSUME CallInv, NEW c \in Everyone, RaisesNotExecuted(c) PROVE Stepped(c)
<1>0. /\ At(c, "run") /\ remote[c] = "sent" /\ receipts' = receipts /\ forgiven' = forgiven
      /\ remote' = [remote EXCEPT ![c] = "refused"] /\ "refused" \in Legs
  BY DEF RaisesNotExecuted, Legs
<1>1. CASE Keyed(c) /\ FailEffect(calls[c].key, calls[c].action) /\ Refuse(c, "failed")
  <2>1. PICK y \in CallState : /\ calls' = [calls EXCEPT ![c] = y] /\ AsBefore(calls[c], y)
                               /\ y.pc = "record" /\ y.result = "failed"
                               /\ CallOK(c, y, "refused", receipts[c])
    BY <1>0, <1>1, Reports
  <2>2. Withdraws(c, calls[c], y, remote[c], "refused")
    BY <1>0, <1>1, <2>1, Running DEF Withdraws, Same, AsBefore, Owner
  <2>3. Deed(c, calls[c], y, remote[c], "refused")
    BY <2>2 DEF Deed
  <2>4. [Next]_vars /\ UNCHANGED approvals
    BY <1>0, <1>1, Running, HolderWrites
  <2> QED
    BY <1>0, <2>1, <2>3, <2>4, WritingStep
<1>2. CASE UNCHANGED vars /\ (Refuse(c, "failed") \/ Refuse(c, "ambiguous"))
  <2>1. PICK y \in CallState : /\ calls' = [calls EXCEPT ![c] = y] /\ AsBefore(calls[c], y)
                               /\ y.pc = "record" /\ y.result # "committed"
                               /\ CallOK(c, y, "refused", receipts[c])
    <3>1. CASE Refuse(c, "failed")
      BY <1>0, <3>1, Reports
    <3>2. CASE Refuse(c, "ambiguous")
      BY <1>0, <3>2, Reports
    <3> QED
      BY <1>2, <3>1, <3>2
  <2>2. receipts' = [receipts EXCEPT ![c] = receipts[c]] /\ receipts[c] \in Results
    BY <1>0, StaysPut
  <2>3. Still /\ ConsumesNone /\ [Next]_vars
    BY <1>0, <1>2 DEF vars, Still, ConsumesNone
  <2>4. Owner(y, "refused") => Owner(calls[c], remote[c])
    BY <1>0, <2>1 DEF Owner, AsBefore
  <2>5. Claims(y, receipts[c]) => Claims(calls[c], receipts[c])
    BY <2>1 DEF Claims
  <2> QED
    BY <1>0, <2>1, <2>2, <2>3, <2>4, <2>5, SilentStep
<1> QED
  BY <1>1, <1>2 DEF RaisesNotExecuted, Outcome, Key, Action

LEMMA RaisesOtherSteps == ASSUME CallInv, NEW c \in Everyone, RaisesOther(c) PROVE Stepped(c)
<1>0. At(c, "run") /\ remote' = remote /\ receipts' = receipts /\ forgiven' = forgiven
  BY DEF RaisesOther, localVars
<1>1. CASE UNCHANGED vars /\ Refuse(c, "ambiguous")
  <2>1. PICK y \in CallState : /\ calls' = [calls EXCEPT ![c] = y] /\ AsBefore(calls[c], y)
                               /\ y.pc = "record" /\ y.result = "ambiguous"
                               /\ CallOK(c, y, remote[c], receipts[c])
    BY <1>0, <1>1, Reports, StaysPut
  <2>2. y.pc \notin Secures
    BY <2>1 DEF Secures
  <2> QED
    BY <1>0, <1>1, <2>1, <2>2, LocalStep DEF localVars
<1>2. CASE /\ Keyed(c) /\ MarkAmbiguous(calls[c].key, calls[c].action)
           /\ Refuse(c, "ambiguous") \/ (Goto(c, "eager") /\ HookAvailable(c))
  <2>1. PICK y \in CallState : /\ calls' = [calls EXCEPT ![c] = y] /\ AsBefore(calls[c], y)
                               /\ y.pc = "record" => y.result # "committed"
                               /\ CallOK(c, y, remote[c], receipts[c])
    <3>1. CASE Refuse(c, "ambiguous")
      BY <1>0, <3>1, Reports, StaysPut
    <3>2. CASE Goto(c, "eager") /\ HookAvailable(c)
      <4>1. PICK y \in CallState : /\ calls' = [calls EXCEPT ![c] = y] /\ y.pc = "eager"
                                   /\ AsBefore(calls[c], y) /\ y.result = calls[c].result
        BY <3>2, GotoGives DEF Counters
      <4>2. CallOK(c, y, remote[c], receipts[c])
        BY <1>0, <1>2, <3>2, <4>1, Running, OfCall
        DEF CallOK, IsItsOwn, IsPlaced, IsSent, IsSecured, IsRecorded, AsBefore, Started, Secures,
      NeedsKey, HookAvailable, Everyone
      <4> QED
        BY <4>1, <4>2
    <3> QED
      BY <1>2, <3>1, <3>2
  <2>2. Concludes(c, calls[c], y, remote[c], remote[c])
    BY <1>0, <1>2, <2>1, Running DEF Concludes, Same, AsBefore, Leg
  <2>3. Deed(c, calls[c], y, remote[c], remote[c])
    BY <2>2 DEF Deed
  <2>4. [Next]_vars /\ UNCHANGED approvals
    BY <1>0, <1>2, Running, HolderWrites
  <2>5. remote' = [remote EXCEPT ![c] = remote[c]] /\ remote[c] \in Legs
    BY <1>0, StaysPut
  <2> QED
    BY <1>0, <2>1, <2>3, <2>4, <2>5, WritingStep
<1> QED
  BY <1>1, <1>2 DEF RaisesOther, Outcome, Key, Action, HookAvailable

LEMMA SuspendsSteps == ASSUME CallInv, NEW c \in Everyone, Suspends(c) PROVE Stepped(c)
<1>0. /\ At(c, "run") /\ remote[c] = "sent" /\ receipts' = receipts /\ forgiven' = forgiven
      /\ remote' = [remote EXCEPT ![c] = "asking"] /\ "asking" \in Legs
  BY DEF Suspends, Legs
<1>1. PICK y \in CallState : /\ calls' = [calls EXCEPT ![c] = y] /\ y.pc = "suspended"
                             /\ AsBefore(calls[c], y) /\ y.result = calls[c].result
  BY GotoGives DEF Suspends, Counters
<1>2. CallOK(c, y, "asking", receipts[c])
  BY <1>0, <1>1, Running, OfCall
  DEF CallOK, IsItsOwn, IsPlaced, IsSent, IsSecured, IsRecorded, AsBefore, Started, Secures,
      NeedsKey, Legs
<1>3. CASE UNCHANGED vars
  <2>1. receipts' = [receipts EXCEPT ![c] = receipts[c]] /\ receipts[c] \in Results
    BY <1>0, StaysPut
  <2>2. Still /\ ConsumesNone /\ [Next]_vars
    BY <1>0, <1>3 DEF vars, Still, ConsumesNone
  <2>3. Owner(y, "asking") => Owner(calls[c], remote[c])
    BY <1>0, <1>1 DEF Owner, AsBefore
  <2>4. Claims(y, receipts[c]) => Claims(calls[c], receipts[c])
    BY <1>1 DEF Claims
  <2> QED
    BY <1>0, <1>1, <1>2, <2>1, <2>2, <2>3, <2>4, SilentStep
<1>4. CASE Keyed(c) /\ \E tok \in Tokens : HoldContinuation(calls[c].key, calls[c].action, tok)
  <2>1. Parks(c, calls[c], y, remote[c], "asking")
    BY <1>0, <1>1, <1>4, Running DEF Parks, Same, AsBefore
  <2>2. Deed(c, calls[c], y, remote[c], "asking")
    BY <2>1 DEF Deed
  <2>3. [Next]_vars /\ UNCHANGED approvals
    BY <1>0, <1>4, Running, HolderWrites
  <2>4. y.pc # "record"
    BY <1>1
  <2> QED
    BY <1>0, <1>1, <1>2, <2>2, <2>3, <2>4, WritingStep
<1> QED
  BY <1>3, <1>4 DEF Suspends, Key, Action

-----------------------------------------------------------------------------
(* How a call gets what it came for *)

(* A call that is taking its key or spending its approval is a call of execute. *)
LEMMA Taking ==
    ASSUME CallInv, NEW c \in Everyone, calls[c].pc \in {"take", "spend"}
    PROVE  /\ c \in Calls /\ remote[c] = "idle" /\ calls[c].pc # "idle" /\ receipts[c] = "none"
           /\ calls[c].action = ActionOf[c] /\ ActionOf[c] \in Actions /\ HashOf[c] \in Hashes
           /\ calls[c].key \in Keys <=> Keyed(c)
           /\ calls[c].spent = NoApproval
           /\ calls[c].pc = "take" /\ Approving(c) => calls[c].presented \in Approvals
  BY OfCall, KernelConstants
  DEF CallOK, CallState, IsItsOwn, IsPlaced, IsSent, IsRecorded, Started, Everyone, Keyed, Key,
      Approving, Secures

LEMMA TookGives ==
    ASSUME CallInv, NEW c \in Everyone, At(c, "take"),
           NEW spent \in Approvals \cup {NoApproval}, NEW n \in Nat, Took(c, spent, n),
           Approving(c) <=> spent # NoApproval
    PROVE  \E y \in CallState, m \in Legs :
               /\ calls' = [calls EXCEPT ![c] = y] /\ remote' = [remote EXCEPT ![c] = m]
               /\ receipts' = receipts /\ forgiven' = forgiven
               /\ y.key = calls[c].key /\ y.action = calls[c].action
               /\ y.attempt = n /\ y.spent = spent /\ y.pc # "record"
               /\ Keyed(c) => y.pc \in Secures /\ m = "idle"
               /\ ~Keyed(c) => m \in {"idle", "sent"}
               /\ CallOK(c, y, m, receipts[c])
<1> DEFINE next == IF ~Approving(c) /\ calls[c].presented # NoApproval
                   THEN "spend" ELSE Secured(Key(c), n)
           m == IF next = "run" THEN "sent" ELSE remote[c]
<1>1. PICK x \in CallState : x = calls[c]
  BY DEF CallInv, KernelTyped
<1>2. PICK y : y = [x EXCEPT !.pc = next, !.spent = spent, !.attempt = n]
  OBVIOUS
<1>3. next \in {"spend", "run", "ceiling", "begin"}
  BY DEF Secured
<1>4. next \in Counters
  BY <1>3 DEF Counters
<1>5. /\ y \in CallState /\ y.pc = next /\ y.spent = spent /\ y.attempt = n
      /\ y.decision = x.decision /\ y.presented = x.presented
      /\ y.action = x.action /\ y.key = x.key /\ y.asked = x.asked
  BY <1>2, <1>4 DEF CallState
<1>6. calls' = [calls EXCEPT ![c] = y]
  BY <1>1, <1>2 DEF Took, CallInv, KernelTyped
<1>7. /\ remote' = [remote EXCEPT ![c] = m] /\ m \in Legs
      /\ receipts' = receipts /\ forgiven' = forgiven
  BY StaysPut DEF Took, Legs
<1>8. remote[c] = "idle"
  BY Taking DEF At
<1>9. /\ Keyed(c) => next # "run"
      /\ next = "begin" => n <= Ceiling
      /\ next = "run" => ~Keyed(c)
      /\ next \in {"begin", "ceiling"} => Keyed(c)
      /\ next = "spend" <=> (~Approving(c) /\ calls[c].presented # NoApproval)
  BY KernelConstants DEF Secured, Keyed, Key
<1>10. IsItsOwn(c, y)
  BY <1>1, <1>3, <1>5, Taking, KernelConstants, OfCall DEF CallOK, IsItsOwn, At
<1>11. IsPlaced(y)
  BY <1>1, <1>3, <1>5, <1>9, Taking DEF IsPlaced, At, CallState, NeedsKey, Approving
<1>12. IsSent(y, m)
  BY <1>1, <1>3, <1>5, <1>8, OfCall DEF CallOK, IsSent, At, Started
<1>13. IsSecured(c, y, m)
  BY <1>1, <1>3, <1>5, <1>8, <1>9, Taking, OfCall
  DEF CallOK, IsSecured, At, Secures, Approving, Keyed, Key
<1>14. IsRecorded(y, m, receipts[c])
  BY <1>1, <1>3, <1>5, <1>8, Taking, OfCall DEF CallOK, IsRecorded, At
<1>15. CallOK(c, y, m, receipts[c])
  BY <1>5, <1>7, <1>10, <1>11, <1>12, <1>13, <1>14, StaysPut DEF CallOK
<1>16. /\ Keyed(c) => y.pc \in Secures /\ m = "idle"
       /\ m \in {"idle", "sent"} /\ y.pc # "record"
  BY <1>3, <1>5, <1>8, <1>9 DEF Secures
<1> QED
  BY <1>1, <1>5, <1>6, <1>7, <1>15, <1>16

(* One that takes its key: alone, or with its approval. *)
LEMMA TakeKeySteps ==
    ASSUME CallInv, NEW c \in Everyone, TakeKeyOnly(c) \/ TakeApprovalAndKey(c) PROVE Stepped(c)
<1>1. /\ calls[c].pc = "take" /\ At(c, "take") /\ Keyed(c) /\ UNCHANGED continuations
      /\ calls[c].key \in Keys /\ c \in Calls /\ HashOf[c] \in Hashes
      /\ calls[c].action = ActionOf[c] /\ ActionOf[c] \in Actions /\ remote[c] = "idle"
  BY Taking DEF TakeKeyOnly, TakeApprovalAndKey, ReserveEffect, ConsumeApprovalAndReserve, At
<1>2. PICK id \in Approvals \cup {NoApproval} :
          /\ Took(c, id, effects[calls[c].key].attempt + 1)
          /\ Approving(c) <=> id # NoApproval
          /\ \E t \in Readings : TakeKey(calls[c].key, calls[c].action, HashOf[c], t)
          /\ id = NoApproval => approvals' = approvals
          /\ id # NoApproval => /\ GrantedFor(id, HashOf[c])
                                /\ approvals' = [approvals EXCEPT ![id].status = "consumed"]
          /\ [Next]_vars
  <2>1. CASE TakeKeyOnly(c)
    <3>1. HolderStep(calls[c].key, calls[c].action)
      BY <1>1, <2>1 DEF TakeKeyOnly, HolderStep, Key, Action
    <3>2. [Next]_vars
      BY <1>1, <3>1 DEF Next
    <3> QED
      BY <2>1, <3>2 DEF TakeKeyOnly, ReserveEffect, Key, Action
  <2>2. CASE TakeApprovalAndKey(c)
    <3>1. calls[c].presented \in Approvals
      BY <1>1, <2>2, Taking DEF TakeApprovalAndKey
    <3>2. HolderStep(calls[c].key, calls[c].action)
      BY <1>1, <2>2, <3>1 DEF TakeApprovalAndKey, HolderStep, Key, Action
    <3>3. [Next]_vars
      BY <1>1, <3>2 DEF Next
    <3> QED
      BY <2>2, <3>1, <3>3, KernelConstants
      DEF TakeApprovalAndKey, ConsumeApprovalAndReserve, Consumable, Key, Action
  <2> QED
    BY <2>1, <2>2
<1>3. effects[calls[c].key].attempt + 1 \in Nat
  BY <1>1 DEF CallInv, TypeOK, EffectRecord
<1>4. PICK y \in CallState, m \in Legs :
          /\ calls' = [calls EXCEPT ![c] = y] /\ remote' = [remote EXCEPT ![c] = m]
          /\ receipts' = receipts /\ forgiven' = forgiven
          /\ y.key = calls[c].key /\ y.action = calls[c].action
          /\ y.attempt = effects[calls[c].key].attempt + 1 /\ y.spent = id /\ y.pc # "record"
          /\ y.pc \in Secures /\ m = "idle"
          /\ CallOK(c, y, m, receipts[c])
  BY <1>1, <1>2, <1>3, TookGives
<1>5. Acquires(c, calls[c], y, remote[c], m)
  BY <1>1, <1>2, <1>4 DEF Acquires, Owner, Secures
<1>6. Deed(c, calls[c], y, remote[c], m)
  BY <1>5 DEF Deed
<1>7. Spends(c, calls[c], y)
  BY <1>1, <1>2, <1>4, Taking DEF Spends, ConsumesNone
<1>8. Tells(calls[c], y, receipts[c], receipts[c])
  BY <1>4 DEF Tells, Claims
<1>9. receipts' = [receipts EXCEPT ![c] = receipts[c]] /\ receipts[c] \in Results
  BY <1>4, StaysPut
<1> QED
  BY <1>2, <1>4, <1>6, <1>7, <1>8, <1>9 DEF StepOf, Stepped

LEMMA TakeApprovalSteps ==
    ASSUME CallInv, NEW c \in Everyone, TakeApproval(c) PROVE Stepped(c)
<1>1. /\ calls[c].pc = "take" /\ At(c, "take") /\ Approving(c) /\ ~Keyed(c)
      /\ calls[c].key \notin Keys /\ c \in Calls /\ HashOf[c] \in Hashes
      /\ remote[c] = "idle" /\ calls[c].presented \in Approvals
      /\ calls[c].spent = NoApproval /\ NoApproval \notin Approvals
  BY Taking, KernelConstants DEF TakeApproval, At
<1>2. Took(c, calls[c].presented, 1) /\ ConsumeApproval(calls[c].presented, HashOf[c])
  BY DEF TakeApproval
<1>3. PICK id \in Approvals : id = calls[c].presented
  BY <1>1
<1>4. PICK y \in CallState, m \in Legs :
          /\ calls' = [calls EXCEPT ![c] = y] /\ remote' = [remote EXCEPT ![c] = m]
          /\ receipts' = receipts /\ forgiven' = forgiven
          /\ y.key = calls[c].key /\ y.spent = id /\ y.pc # "record" /\ m \in {"idle", "sent"}
          /\ CallOK(c, y, m, receipts[c])
  <2>1. id \in Approvals \cup {NoApproval} /\ 1 \in Nat /\ Took(c, id, 1)
        /\ (Approving(c) <=> id # NoApproval)
    BY <1>1, <1>2, <1>3
  <2> QED
    BY <1>1, <2>1, TookGives
<1>5. Prepares(c, calls[c], y, remote[c], m)
  BY <1>1, <1>2, <1>4 DEF Prepares, Owner, Still, ConsumeApproval
<1>6. Deed(c, calls[c], y, remote[c], m)
  BY <1>5 DEF Deed
<1>7. Spends(c, calls[c], y)
  BY <1>1, <1>2, <1>3, <1>4 DEF Spends, ConsumeApproval, Consumable
<1>8. Tells(calls[c], y, receipts[c], receipts[c])
  BY <1>4 DEF Tells, Claims
<1>9. receipts' = [receipts EXCEPT ![c] = receipts[c]] /\ receipts[c] \in Results
  BY <1>4, StaysPut
<1>10. [Next]_vars
  BY <1>1, <1>2 DEF Next, ApprovalStep
<1> QED
  BY <1>4, <1>6, <1>7, <1>8, <1>9, <1>10 DEF StepOf, Stepped

LEMMA SpendUnneededSteps ==
    ASSUME CallInv, NEW c \in Everyone, SpendUnneeded(c) PROVE Stepped(c)
<1> DEFINE next == Secured(Key(c), calls[c].attempt)
           m == IF next = "run" THEN "sent" ELSE remote[c]
<1>1. /\ calls[c].pc = "spend" /\ c \in Calls /\ HashOf[c] \in Hashes /\ remote[c] = "idle"
      /\ calls[c].spent = NoApproval /\ receipts[c] = "none"
      /\ calls[c].key \in Keys <=> Keyed(c)
  BY Taking DEF SpendUnneeded, At
<1>2. calls[c].presented \in Approvals /\ calls[c].decision # "approve"
  BY <1>1, OfCall DEF CallOK, IsPlaced
<1>3. PICK x \in CallState : x = calls[c]
  BY DEF CallInv, KernelTyped
<1>4. /\ next \in Counters /\ next \in {"run", "begin", "ceiling"}
      /\ next = "run" <=> ~Keyed(c)
      /\ next = "begin" => x.attempt <= Ceiling
  BY <1>3, KernelConstants DEF Secured, Counters, Keyed, Key, CallState
<1>5. PICK y : /\ calls' = [calls EXCEPT ![c] = y]
               /\ y \in CallState /\ y.pc = next /\ y.decision = x.decision
               /\ y.presented = x.presented /\ y.action = x.action /\ y.key = x.key
               /\ y.attempt = x.attempt /\ y.asked = x.asked /\ y.result = x.result
               /\ \/ y.spent = calls[c].presented
                     /\ ConsumeApproval(calls[c].presented, HashOf[c])
                  \/ y.spent = x.spent /\ (UNCHANGED vars \/ ExpireApproval(calls[c].presented))
  <2>1. CASE /\ ConsumeApproval(calls[c].presented, HashOf[c])
             /\ calls' = [calls EXCEPT ![c].pc = next, ![c].spent = calls[c].presented]
    <3>1. PICK y : y = [x EXCEPT !.pc = next, !.spent = calls[c].presented]
      OBVIOUS
    <3>2. /\ y \in CallState /\ y.pc = next /\ y.decision = x.decision
          /\ y.presented = x.presented /\ y.action = x.action /\ y.key = x.key
          /\ y.attempt = x.attempt /\ y.asked = x.asked /\ y.result = x.result
          /\ y.spent = calls[c].presented
      BY <1>2, <1>4, <3>1 DEF CallState
    <3>3. calls' = [calls EXCEPT ![c] = y]
      BY <1>3, <2>1, <3>1 DEF CallInv, KernelTyped
    <3> QED
      BY <2>1, <3>2, <3>3
  <2>2. CASE (UNCHANGED vars \/ ExpireApproval(calls[c].presented)) /\ Goto(c, next)
    BY <1>3, <1>4, <2>2, GotoGives DEF AsBefore
  <2> QED
    BY <2>1, <2>2 DEF SpendUnneeded
<1>6. /\ remote' = [remote EXCEPT ![c] = m] /\ m \in Legs /\ m \in {"idle", "sent"}
      /\ receipts' = [receipts EXCEPT ![c] = receipts[c]] /\ receipts[c] \in Results
      /\ forgiven' = forgiven
  BY <1>1, StaysPut DEF SpendUnneeded, Legs
<1>7. m = "sent" <=> ~Keyed(c)
  BY <1>1, <1>4
<1>8. CallOK(c, y, m, receipts[c])
  <2>1. IsItsOwn(c, y)
    BY <1>1, <1>3, <1>4, <1>5, KernelConstants, OfCall DEF CallOK, IsItsOwn
  <2>2. IsPlaced(y)
    BY <1>1, <1>3, <1>4, <1>5 DEF IsPlaced, NeedsKey
  <2>3. IsSent(y, m)
    BY <1>1, <1>3, <1>4, <1>5 DEF IsSent, Started
  <2>4. IsSecured(c, y, m)
    BY <1>1, <1>2, <1>3, <1>4, <1>5, <1>7, OfCall DEF CallOK, IsSecured
  <2>5. IsRecorded(y, m, receipts[c])
    BY <1>1, <1>4, <1>5 DEF IsRecorded
  <2> QED
    BY <1>5, <1>6, <2>1, <2>2, <2>3, <2>4, <2>5 DEF CallOK
<1>9. Still /\ [Next]_vars
  BY <1>1, <1>2, <1>5, <1>6
  DEF Still, vars, Next, ApprovalStep, ExpireApproval, ConsumeApproval
<1>10. Deed(c, calls[c], y, remote[c], m)
  <2>1. CASE Keyed(c)
    <3>1. Continues(c, calls[c], y, remote[c], m)
      BY <1>1, <1>3, <1>5, <1>6, <1>7, <1>9, <2>1 DEF Continues, Same, Owner, Secures
    <3> QED
      BY <3>1 DEF Deed
  <2>2. CASE ~Keyed(c)
    <3>1. Prepares(c, calls[c], y, remote[c], m)
      BY <1>1, <1>3, <1>5, <1>6, <1>9, <2>2 DEF Prepares, Owner
    <3> QED
      BY <3>1 DEF Deed
  <2> QED
    BY <2>1, <2>2
<1>11. Spends(c, calls[c], y)
  <2>1. CASE y.spent = calls[c].presented /\ ConsumeApproval(calls[c].presented, HashOf[c])
    BY <1>1, <1>2, <2>1 DEF Spends, ConsumeApproval, Consumable
  <2>2. CASE y.spent = x.spent /\ UNCHANGED vars
    BY <1>3, <2>2 DEF Spends, ConsumesNone, vars
  <2>3. CASE y.spent = x.spent /\ ExpireApproval(calls[c].presented)
    <3>1. ConsumesNone
      BY <1>2, <2>3 DEF ConsumesNone, ExpireApproval, CallInv, TypeOK, ApprovalRecord
    <3> QED
      BY <1>3, <2>3, <3>1 DEF Spends
  <2> QED
    BY <1>5, <2>1, <2>2, <2>3
<1>12. Tells(calls[c], y, receipts[c], receipts[c])
  BY <1>4, <1>5 DEF Tells, Claims
<1> QED
  BY <1>5, <1>6, <1>8, <1>9, <1>10, <1>11, <1>12 DEF StepOf, Stepped

LEMMA ProposeSteps ==
    ASSUME CallInv, NEW c \in Calls, NEW d \in {"allow", "approve", "deny"},
           NEW id \in Approvals \cup {NoApproval}, Propose(c, d, id)
    PROVE  Stepped(c)
<1> DEFINE k == KeyOf[c]
           refused == IF d = "deny" THEN "denied"
                      ELSE IF PastCeiling(k) THEN "blocked"
                      ELSE IF Unkeyed(HashOf[c], k) THEN "denied" ELSE "none"
           next == IF refused # "none" THEN "record"
                   ELSE IF d = "approve" /\ id = NoApproval THEN "ask"
                   ELSE IF d = "allow" /\ k = NoKey
                        THEN (IF id = NoApproval THEN "run" ELSE "spend")
                   ELSE "take"
           m == IF next = "run" THEN "sent" ELSE remote[c]
<1>1. /\ c \in Everyone /\ c \notin Resumers /\ k \in Keys \cup {NoKey} /\ NoKey \notin Keys
      /\ ActionOf[c] \in Actions /\ HashOf[c] \in Hashes /\ NoApproval \notin Approvals
  BY KernelConstants DEF Everyone
<1>2. /\ calls[c].pc = "idle" /\ calls[c].key = NoKey /\ remote[c] = "idle"
      /\ receipts[c] = "none" /\ calls[c].spent = NoApproval
  BY <1>1, OfCall DEF Propose, At, CallOK, IsSent, IsPlaced, IsRecorded, Started
<1>3. PICK y : y = [IdleCall EXCEPT !.pc = next, !.decision = d, !.presented = id, !.attempt = 1,
                                    !.action = ActionOf[c], !.key = k, !.result = refused]
  OBVIOUS
<1>4. /\ next \in Counters /\ refused \in Results
      /\ next \in {"record", "ask", "run", "spend", "take"}
      /\ refused \in {"denied", "blocked", "none"}
      /\ next = "record" <=> refused # "none"
      /\ next \in {"run", "spend"} => k = NoKey /\ d = "allow"
      /\ next = "spend" => id # NoApproval
      /\ next = "take" /\ d = "approve" => id # NoApproval
      /\ next # "record" /\ k = NoKey => ~Unkeyed(HashOf[c], NoKey)
  BY DEF Counters, Results
<1>5. /\ y \in CallState /\ y.pc = next /\ y.decision = d /\ y.presented = id /\ y.attempt = 1
      /\ y.action = ActionOf[c] /\ y.key = k /\ y.result = refused /\ y.spent = NoApproval
  BY <1>1, <1>3, <1>4 DEF IdleCall, CallState, Answers
<1>6. calls' = [calls EXCEPT ![c] = y]
  BY <1>3 DEF Propose
<1>7. /\ remote' = [remote EXCEPT ![c] = m] /\ m \in Legs /\ m \in {"idle", "sent"}
      /\ m = "sent" <=> next = "run"
      /\ receipts' = [receipts EXCEPT ![c] = receipts[c]] /\ receipts[c] \in Results
  BY <1>1, <1>2, StaysPut DEF Propose, Legs
<1>8. CallOK(c, y, m, receipts[c])
  <2>1. IsItsOwn(c, y)
    BY <1>1, <1>5 DEF IsItsOwn
  <2>2. IsPlaced(y)
    BY <1>1, <1>4, <1>5 DEF IsPlaced, NeedsKey
  <2>3. IsSent(y, m)
    BY <1>4, <1>5, <1>7 DEF IsSent, Started
  <2>4. IsSecured(c, y, m)
    BY <1>1, <1>4, <1>5, <1>7 DEF IsSecured, Secures
  <2>5. IsRecorded(y, m, receipts[c])
    BY <1>2, <1>4, <1>5, <1>7 DEF IsRecorded
  <2> QED
    BY <1>5, <1>7, <2>1, <2>2, <2>3, <2>4, <2>5 DEF CallOK
<1>9. Prepares(c, calls[c], y, remote[c], m)
  BY <1>1, <1>2, <1>4, <1>5, <1>7 DEF Prepares, Owner, Still, Propose, Secures, vars
<1>10. Deed(c, calls[c], y, remote[c], m)
  BY <1>9 DEF Deed
<1>11. Spends(c, calls[c], y) /\ [Next]_vars
  BY <1>2, <1>5 DEF Spends, ConsumesNone, Propose, vars
<1>12. Tells(calls[c], y, receipts[c], receipts[c])
  BY <1>1, <1>2 DEF Tells
<1> QED
  BY <1>5, <1>6, <1>7, <1>8, <1>10, <1>11, <1>12 DEF StepOf, Stepped

LEMMA ResumeSteps ==
    ASSUME CallInv, NEW c \in Resumers, NEW k \in Keys, NEW tok \in Tokens, Resume(c, k, tok)
    PROVE  Stepped(c)
<1>1. c \in Everyone /\ c \notin Calls /\ NoKey \notin Keys /\ NoToken \notin Tokens
  BY KernelConstants, StoreConstants DEF Everyone
<1>2. /\ calls[c].pc = "idle" /\ calls[c].key = NoKey /\ remote[c] = "idle"
      /\ receipts[c] = "none" /\ calls[c].spent = NoApproval
  BY <1>1, OfCall DEF Resume, At, CallOK, IsSent, IsPlaced, IsRecorded, Started
<1>3. continuations[k].action \in Actions /\ effects[k].attempt \in Nat
  BY <1>1 DEF Resume, TakeContinuation, CallInv, Tokened, TypeOK, EffectRecord
<1>4. PICK y : y = [IdleCall EXCEPT !.pc = "run", !.action = continuations[k].action,
                                    !.key = k, !.attempt = effects[k].attempt, !.asked = TRUE]
  OBVIOUS
<1>5. /\ y \in CallState /\ y.pc = "run" /\ y.action = continuations[k].action /\ y.key = k
      /\ y.attempt = effects[k].attempt /\ y.asked /\ y.decision = "none"
      /\ y.spent = NoApproval
  BY <1>3, <1>4 DEF IdleCall, CallState, Answers, Results, Counters
<1>6. calls' = [calls EXCEPT ![c] = y] /\ forgiven' = forgiven
  BY <1>4 DEF Resume
<1>7. /\ remote' = [remote EXCEPT ![c] = "sent"] /\ "sent" \in Legs
      /\ receipts' = [receipts EXCEPT ![c] = receipts[c]] /\ receipts[c] \in Results
  BY <1>1, StaysPut DEF Resume, Legs
<1>8. CallOK(c, y, "sent", receipts[c])
  BY <1>1, <1>2, <1>3, <1>5, <1>7
  DEF CallOK, IsItsOwn, IsPlaced, IsSent, IsSecured, IsRecorded, Started, NeedsKey, Secures
<1>9. TakesUp(c, calls[c], y, remote[c], "sent")
  BY <1>1, <1>2, <1>5, <1>6 DEF TakesUp, Owner, Resume
<1>10. Deed(c, calls[c], y, remote[c], "sent")
  BY <1>9 DEF Deed
<1>11. Spends(c, calls[c], y)
  BY <1>2, <1>5 DEF Spends, ConsumesNone, Resume, TakeContinuation
<1>12. Tells(calls[c], y, receipts[c], receipts[c])
  BY <1>1, <1>2 DEF Tells
<1>13. [Next]_vars
  BY DEF Resume, Next, KeyStep
<1> QED
  BY <1>5, <1>6, <1>7, <1>8, <1>10, <1>11, <1>12, <1>13 DEF StepOf, Stepped

-----------------------------------------------------------------------------
(* Every step of the kernel is a step of one call, or of somebody outside it *)

Outside ==
    /\ UNCHANGED <<calls, remote, receipts>> /\ ConsumesNone /\ [Next]_vars
    /\ \/ Still
       \/ \E k \in Keys, s \in Resolutions : ResolveEffect(k, s, "human") /\ Forgive(k, s)

LEMMA ProgressSteps ==
    ASSUME CallInv, NEW c \in Everyone, Progress(c)
    PROVE  Stepped(c)
<1>1. CASE Executes(c)
  BY <1>1, ReturnsSteps, RaisesNotExecutedSteps, RaisesOtherSteps, SuspendsSteps DEF Executes
<1>2. CASE AskHuman(c)
  BY <1>2, AskHumanSteps
<1>3. CASE TakeApprovalAndKey(c) \/ TakeApproval(c) \/ TakeKeyOnly(c)
  BY <1>3, TakeKeySteps, TakeApprovalSteps
<1>4. CASE ApprovalRefused(c) \/ DuplicateRefused(c) \/ AmbiguousRefused(c) \/ BudgetRefused(c)
  BY <1>4, ApprovalRefusedSteps, DuplicateRefusedSteps, AmbiguousRefusedSteps, BudgetRefusedSteps
<1>5. CASE AskHook(c) \/ ApplyAnswer(c) \/ SettleAnswer(c) \/ SpendUnneeded(c)
  BY <1>5, AskHookSteps, AnswerSteps, SpendUnneededSteps
<1>6. CASE RefuseCeiling(c) \/ Release(c) \/ Unrun(c)
  BY <1>6, RefuseCeilingSteps, ReleaseSteps, UnrunSteps
<1>7. CASE Begin(c) \/ BeginRefused(c) \/ RecordReceipt(c)
  BY <1>7, BeginSteps, BeginRefusedSteps, RecordReceiptSteps
<1> QED
  BY <1>1, <1>2, <1>3, <1>4, <1>5, <1>6, <1>7 DEF Progress, Decides

LEMMA AnswerIsOutside ==
    ASSUME CallInv, NEW id \in Approvals, HumanAnswers(id)
    PROVE  Outside
<1>1. PICK v \in Principals \cup {Nobody} : GrantApproval(id, v) \/ DenyApproval(id, v)
  BY DEF HumanAnswers
<1>2. [Next]_vars
  BY <1>1 DEF Next, ApprovalStep
<1>3. approvals[id] \in ApprovalRecord
  BY DEF CallInv, TypeOK
<1>4. approvals'[id].status # "consumed" /\ \A j \in Approvals \ {id} : approvals'[j] = approvals[j]
  BY <1>1, <1>3 DEF GrantApproval, DenyApproval, CallInv, TypeOK, ApprovalRecord
<1>5. ConsumesNone
  BY <1>4 DEF ConsumesNone
<1> QED
  BY <1>1, <1>2, <1>5 DEF Outside, Still, HumanAnswers, localVars, GrantApproval, DenyApproval

LEMMA SomebodySteps ==
    ASSUME CallInv, [KernelNext]_kernelVars
    PROVE  (\E c \in Everyone : Stepped(c)) \/ Outside
<1>1. CASE \E c \in Calls, d \in {"allow", "approve", "deny"}, id \in Approvals \cup {NoApproval} :
               Propose(c, d, id)
  BY <1>1, ProposeSteps DEF Everyone
<1>2. CASE \E c \in Resumers, k \in Keys, tok \in Tokens : Resume(c, k, tok)
  BY <1>2, ResumeSteps DEF Everyone
<1>3. CASE \E c \in Everyone : Progress(c) \/ RemoteActs(c) \/ Crash(c)
  BY <1>3, ProgressSteps, RemoteActsSteps, CrashSteps
<1>4. CASE \E k \in Keys, s \in Resolutions : HumanResolves(k, s)
  <2>1. PICK k \in Keys, s \in Resolutions : HumanResolves(k, s)
    BY <1>4
  <2>2. [Next]_vars /\ ConsumesNone
    BY <2>1 DEF HumanResolves, ResolveEffect, Next, KeyStep, Resolvers, ConsumesNone
  <2> QED
    BY <2>1, <2>2 DEF Outside, HumanResolves
<1>5. CASE \E id \in Approvals : HumanAnswers(id)
  BY <1>5, AnswerIsOutside
<1>6. CASE TimePasses
  BY <1>6 DEF TimePasses, Tick, Next, Outside, Still, ConsumesNone, localVars
<1>7. CASE UNCHANGED kernelVars
  BY <1>7 DEF kernelVars, vars, Outside, Still, ConsumesNone
<1> QED
  BY <1>1, <1>2, <1>3, <1>4, <1>5, <1>6, <1>7 DEF KernelNext

-----------------------------------------------------------------------------
(* What holds of every call, always *)

LEMMA InitCalls == KernelInit => CallInv
<1> SUFFICES ASSUME KernelInit PROVE CallInv
  OBVIOUS
<1>1. TypeOK
  BY InitType DEF KernelInit
<1>2. Tokened
  BY DEF KernelInit, Init, Tokened
<1>3. IdleCall \in CallState
  BY DEF IdleCall, CallState, Counters, Answers, Results
<1>4. KernelTyped
  BY <1>3 DEF KernelInit, KernelTyped, Legs, Results
<1>5. ASSUME NEW c \in Everyone PROVE CallOK(c, IdleCall, "idle", "none")
  BY <1>3
  DEF CallOK, IsItsOwn, IsPlaced, IsSent, IsSecured, IsRecorded, NeedsKey, Started, Secures,
      Legs, Results, IdleCall
<1> QED
  BY <1>1, <1>2, <1>4, <1>5 DEF CallInv, KernelInit

LEMMA ForgiveTyped ==
    ASSUME TypeOK, KernelTyped, NEW k \in Keys, NEW s, Forgive(k, s)
    PROVE  forgiven' \in [Keys -> SUBSET Nat]
<1>1. effects[k].attempt \in Nat
  BY DEF TypeOK, EffectRecord
<1> QED
  BY <1>1 DEF KernelTyped, Forgive

(* Values are held by calls that run, and taken up as they are. *)
LEMMA DeedTokened ==
    ASSUME CallInv, NEW c \in Everyone, NEW y, NEW n, Deed(c, calls[c], y, remote[c], n)
    PROVE  Tokened' /\ forgiven' \in [Keys -> SUBSET Nat]
<1>1. CASE UNCHANGED <<continuations, forgiven>>
  BY <1>1 DEF CallInv, Tokened, KernelTyped
<1>2. CASE Parks(c, calls[c], y, remote[c], n)
  <2>1. calls[c].action \in Actions /\ calls[c].key \in Keys
    BY <1>2, OfCall DEF Parks, CallOK, IsItsOwn, IsSent, Started
  <2> QED
    BY <1>2, <2>1 DEF Parks, HoldContinuation, CallInv, Tokened, KernelTyped, TypeOK, Continuation
<1>3. CASE TakesUp(c, calls[c], y, remote[c], n)
  <2>1. PICK k \in Keys : continuations' = [continuations EXCEPT ![k].token = NoToken]
    BY <1>3 DEF TakesUp, TakeContinuation
  <2>2. \A j \in Keys : /\ continuations'[j].action = continuations[j].action
                        /\ continuations'[j].token # NoToken => continuations'[j] = continuations[j]
    BY <2>1 DEF CallInv, TypeOK, Continuation
  <2> QED
    BY <1>3, <2>2 DEF TakesUp, CallInv, Tokened, KernelTyped
<1>4. CASE Adjudicates(c, calls[c], y, remote[c], n)
  BY <1>4, ForgiveTyped DEF Adjudicates, ResolveEffect, CallInv, Tokened
<1> QED
  BY <1>1, <1>2, <1>3, <1>4
  DEF Deed, Prepares, Continues, Acquires, Starts, Withdraws, Concludes, Declares, Still,
      BeginExecution, FailEffect, CommitEffect, MarkAmbiguous, AmbiguateLapsed

LEMMA StepCalls == ASSUME CallInv, NEW c \in Everyone, Stepped(c) PROVE CallInv'
<1>1. PICK y \in CallState, n \in Legs, h \in Results : StepOf(c, y, n, h)
  BY DEF Stepped
<1>2. TypeOK'
  BY <1>1, NextType DEF StepOf, CallInv
<1>3. Tokened' /\ forgiven' \in [Keys -> SUBSET Nat]
  BY <1>1, DeedTokened DEF StepOf
<1>4. KernelTyped'
  BY <1>1, <1>3 DEF StepOf, CallInv, KernelTyped
<1>5. ASSUME NEW d \in Everyone PROVE CallOK(d, calls'[d], remote'[d], receipts'[d])
  BY <1>1, OfCall DEF StepOf, CallInv, KernelTyped
<1> QED
  BY <1>2, <1>3, <1>4, <1>5 DEF CallInv

LEMMA OutsideCalls == ASSUME CallInv, Outside PROVE CallInv'
<1>1. TypeOK'
  BY NextType DEF Outside, CallInv
<1>2. Tokened' /\ forgiven' \in [Keys -> SUBSET Nat]
  BY ForgiveTyped DEF Outside, Still, ResolveEffect, CallInv, Tokened, KernelTyped
<1> QED
  BY <1>1, <1>2 DEF Outside, CallInv, KernelTyped

LEMMA NextCalls == CallInv /\ [KernelNext]_kernelVars => CallInv'
  BY SomebodySteps, StepCalls, OutsideCalls

(* What a call holds of itself at each step it may stop at: its program counter,    *)
(* what it was decided and charged, what the remote did with its request and the    *)
(* receipt it left never contradict each other, though every other call, a human    *)
(* and a crash may come between any two of its steps.                               *)
THEOREM CallsAreOrderly == KernelSpec => []CallInv
  BY InitCalls, NextCalls, PTL DEF KernelSpec

(* Every local record and every history of the kernel keeps its shape, however  *)
(* the calls, the crashes and the remote interleave.                            *)
THEOREM KernelIsTyped == KernelSpec => []KernelTypeOK
<1>1. CallInv => KernelTypeOK
  BY DEF CallInv, KernelTyped, KernelTypeOK, Legs
<1> QED
  BY <1>1, CallsAreOrderly, PTL

(* Whatever the kernel does to the tables of the store is one of the store's    *)
(* transactions, so what holds of every store behaviour holds under the kernel. *)
THEOREM KernelUsesStore == KernelSpec => KernelImplementsStore
<1>1. KernelInit => Init
  BY DEF KernelInit
<1>2. CallInv /\ [KernelNext]_kernelVars => [Next]_vars
  <2> SUFFICES ASSUME CallInv, [KernelNext]_kernelVars PROVE [Next]_vars
    OBVIOUS
  <2> QED
    BY SomebodySteps DEF Stepped, StepOf, Outside
<1> QED
  BY <1>1, <1>2, CallsAreOrderly, PTL DEF KernelSpec, KernelImplementsStore, Spec

(* So the tables under any number of concurrent calls, resumptions, hooks and humans *)
(* never overspend a budget, never charge an attempt twice, refund exactly what is    *)
(* proven not to have happened, and act only on a quorum.                             *)
THEOREM KernelKeepsTables ==
    KernelSpec => [](/\ WithinBudget /\ RecordsAgree /\ ChargesFollowEffects
                     /\ OneChargePerAttempt /\ QuorumBehindGrant)
BY KernelUsesStore, BudgetsHold, RecordsAlwaysAgree, ChargesAlwaysFollow, OneChargeAlways,
   QuorumAlways, PTL DEF KernelImplementsStore

(* And to whoever looks at one effect only, the kernel is one attempt at a time, done *)
(* for ever, and unknown until somebody says what happened.                           *)
THEOREM KernelKeepsPromise == KernelSpec => KeepsPromise
BY KernelUsesStore, StoreKeepsPromise, PTL DEF KernelImplementsStore
=============================================================================
