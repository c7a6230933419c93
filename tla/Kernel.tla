-------------------------------- MODULE Kernel --------------------------------
(***************************************************************************)
(* Control.execute and Control.resume: every call an agent makes, run      *)
(* concurrently over the store, around a remote system that really acts.   *)
(*                                                                         *)
(* A call moves through its program counter; each step is one access to    *)
(* shared state, so steps of different calls interleave exactly where the  *)
(* code lets them.  A call may crash at any step.  The remote may act on a *)
(* request it was sent at any later time, also after the call gave up.     *)
(*                                                                         *)
(* Authority and the policy document are abstracted to the decision they   *)
(* reach; the event log, which decides nothing here, is left out.          *)
(***************************************************************************)
EXTENDS EffectStore

CONSTANTS
    Calls,       \* calls of execute: one proposed action each
    Resumers,    \* calls of resume
    ActionOf,    \* the action id a call proposes
    HashOf,      \* its action hash
    KeyOf,       \* its effect key, or NoKey
    Decisions,   \* what the policy may decide of a hash
    Ceiling,     \* max_attempts
    HasHook,     \* a reconcile hook is configured
    Eager,       \* and is also asked when an outcome turns out unknown
    NoKey, NoApproval

ASSUME KernelConstants ==
    /\ ActionOf \in [Calls -> Actions] /\ HashOf \in [Calls -> Hashes]
    /\ KeyOf \in [Calls -> Keys \cup {NoKey}] /\ NoKey \notin Keys
    /\ Decisions \in [Hashes -> SUBSET {"allow", "approve", "deny"}]
    /\ Ceiling \in Nat \ {0} /\ HasHook \in BOOLEAN /\ Eager \in BOOLEAN
    /\ Calls \cap Resumers = {} /\ NoApproval \notin Approvals

(* The action id is a fresh uuid by default, and reusing one for a second attempt *)
(* is a violation no store can defend against (SPEC-v0.6 4.3.3).                  *)
ASSUME OneCallPerAction == \A c, d \in Calls : ActionOf[c] = ActionOf[d] => c = d

VARIABLES
    calls,     \* the local state of each call
    remote,    \* what the remote did with each call's request
    receipts,  \* the receipt each call left
    forgiven   \* history: the attempts of each key somebody resolved FAILED

kernelVars == <<effects, approvals, ledger, continuations, now,
                calls, remote, receipts, forgiven>>
localVars == <<remote, receipts, forgiven>>

Everyone == Calls \cup Resumers

Counters == {"idle", "ask", "take", "hook", "resolve", "spend", "ceiling", "release",
             "unrun", "begin", "run", "eager", "settle", "record",
             "over", "waiting", "suspended", "crashed"}
Ended == {"over", "waiting", "suspended", "crashed"}
Results == {"none", "denied", "blocked", "failed", "ambiguous", "committed"}
Answers == {"unknown"} \cup Resolutions

CallState == [pc : Counters, decision : {"none", "allow", "approve", "deny"},
              presented : Approvals \cup {NoApproval}, spent : Approvals \cup {NoApproval},
              action : Actions \cup {NoAction}, key : Keys \cup {NoKey},
              attempt : Nat, asked : BOOLEAN, answer : Answers, result : Results]

IdleCall == [pc |-> "idle", decision |-> "none", presented |-> NoApproval,
             spent |-> NoApproval, action |-> NoAction, key |-> NoKey, attempt |-> 0,
             asked |-> FALSE, answer |-> "unknown", result |-> "none"]

KernelInit ==
    /\ Init
    /\ calls = [c \in Everyone |-> IdleCall]
    /\ remote = [c \in Everyone |-> "idle"]
    /\ receipts = [c \in Everyone |-> "none"]
    /\ forgiven = [k \in Keys |-> {}]

-----------------------------------------------------------------------------
(* Where a call goes next *)

Goto(c, pc) == calls' = [calls EXCEPT ![c].pc = pc]
Refuse(c, result) == calls' = [calls EXCEPT ![c].pc = "record", ![c].result = result]

At(c, pc) == calls[c].pc = pc
Key(c) == calls[c].key
Action(c) == calls[c].action
Keyed(c) == Key(c) # NoKey
Holds(c, states) == HeldIn(effects[Key(c)], Action(c), states)

(* Defect: the ceiling is left to the read before the reservation. *)
SecuredByFastPath(k, n) == IF k = NoKey THEN "run" ELSE "begin"

(* After everything is secured: the attempt number the store assigned decides. *)
Secured(k, n) ==
    IF k = NoKey THEN "run" ELSE IF n > Ceiling THEN "ceiling" ELSE "begin"

HookAvailable(c) == HasHook /\ Keyed(c) /\ ~calls[c].asked

(* A hook reads the remote: it never lies about now, and it cannot see later. *)
ActedOn(k) == {c \in Everyone : Key(c) = k /\ remote[c] = "acted"}
HookAnswers(k) == {"unknown"} \cup (IF ActedOn(k) = {} THEN {"failed"} ELSE {"committed"})

Forgive(k, s) ==
    forgiven' = IF s = "failed"
                THEN [forgiven EXCEPT ![k] = forgiven[k] \cup {effects[k].attempt}]
                ELSE forgiven

-----------------------------------------------------------------------------
(* Deciding *)

(* _ceiling_fast_path: a read that refuses only what is FAILED at its ceiling. *)
PastCeiling(k) == k # NoKey /\ effects[k].state = "failed" /\ effects[k].attempt + 1 > Ceiling

(* _charges_for: a budgeted action needs a key to charge it under. *)
Unkeyed(h, k) == k = NoKey /\ \E l \in Lines : Cost[h][l] > 0

(* execute, up to the approval gate: the decision, then one read of the record.    *)
(* An id that names no request is refused like one not answered, and is left out.  *)
Propose(c, d, id) ==
    /\ At(c, "idle")
    /\ id # NoApproval => approvals[id].status # "absent"
    /\ d \in Decisions[HashOf[c]]
    /\ LET k == KeyOf[c]
           refused == IF d = "deny" THEN "denied"
                      ELSE IF PastCeiling(k) THEN "blocked"
                      ELSE IF Unkeyed(HashOf[c], k) THEN "denied" ELSE "none"
           next == IF refused # "none" THEN "record"
                   ELSE IF d = "approve" /\ id = NoApproval THEN "ask"
                   ELSE IF d = "allow" /\ k = NoKey
                        THEN (IF id = NoApproval THEN "run" ELSE "spend")
                   ELSE "take"
       IN /\ calls' = [calls EXCEPT ![c] =
                [IdleCall EXCEPT !.pc = next, !.decision = d, !.presented = id, !.attempt = 1,
                                 !.action = ActionOf[c], !.key = k, !.result = refused]]
          /\ remote' = IF next = "run" THEN [remote EXCEPT ![c] = "sent"] ELSE remote
    /\ UNCHANGED <<vars, receipts, forgiven>>

(* _presented: with nothing presented, a request is recorded and the call ends. *)
AskHuman(c) ==
    /\ At(c, "ask")
    /\ \E id \in Approvals, n \in 1..MaxNeeded : PutApprovalRequest(id, HashOf[c], n)
    /\ Goto(c, "waiting")
    /\ UNCHANGED localVars

-----------------------------------------------------------------------------
(* Securing: _take in one store transaction, and what _secure does with a refusal *)

Approving(c) == calls[c].decision = "approve"
Presents(c, t) == Approving(c) => Consumable(calls[c].presented, HashOf[c], t)

Took(c, spent, n) ==
    LET next == IF ~Approving(c) /\ calls[c].presented # NoApproval
                THEN "spend" ELSE Secured(Key(c), n)
    IN /\ calls' = [calls EXCEPT ![c].pc = next, ![c].spent = spent, ![c].attempt = n]
       /\ remote' = IF next = "run" THEN [remote EXCEPT ![c] = "sent"] ELSE remote
       /\ UNCHANGED <<receipts, forgiven>>

TakeApprovalAndKey(c) ==
    /\ At(c, "take") /\ Approving(c) /\ Keyed(c)
    /\ ConsumeApprovalAndReserve(calls[c].presented, Key(c), Action(c), HashOf[c])
    /\ Took(c, calls[c].presented, effects[Key(c)].attempt + 1)

TakeApproval(c) ==
    /\ At(c, "take") /\ Approving(c) /\ ~Keyed(c)
    /\ ConsumeApproval(calls[c].presented, HashOf[c])
    /\ Took(c, calls[c].presented, 1)

TakeKeyOnly(c) ==
    /\ At(c, "take") /\ ~Approving(c) /\ Keyed(c)
    /\ ReserveEffect(Key(c), Action(c), HashOf[c])
    /\ Took(c, NoApproval, effects[Key(c)].attempt + 1)

(* ApprovalMismatch, and the ActionDenied a human's no becomes. *)
ApprovalRefused(c) ==
    /\ At(c, "take") /\ Approving(c)
    /\ LET id == calls[c].presented IN
       \/ /\ \E t \in Readings : Overdue(id, HashOf[c], t)
          /\ ExpireApproval(id)
          /\ Refuse(c, "blocked")
       \/ /\ ~GrantedFor(id, HashOf[c])
          /\ UNCHANGED vars
          /\ Refuse(c, IF approvals[id].hash = HashOf[c] /\ approvals[id].status = "denied"
                       THEN "denied" ELSE "blocked")
    /\ UNCHANGED localVars

(* Defect: the approval is consumed although the key was refused. *)
DuplicateRefusedBurning(c) ==
    /\ At(c, "take") /\ Keyed(c)
    /\ \E t \in Readings :
          /\ Presents(c, t)
          /\ effects[Key(c)].state = "committed" \/ LeaseIsLive(effects[Key(c)], t)
    /\ approvals' = IF Approving(c)
                    THEN [approvals EXCEPT ![calls[c].presented].status = "consumed"]
                    ELSE approvals
    /\ Refuse(c, "blocked")
    /\ UNCHANGED <<effects, ledger, continuations, now, localVars>>

(* DuplicateEffect: the effect happened, or is in progress under a live lease. *)
DuplicateRefused(c) ==
    /\ At(c, "take") /\ Keyed(c)
    /\ \E t \in Readings :
          /\ Presents(c, t)
          /\ effects[Key(c)].state = "committed" \/ LeaseIsLive(effects[Key(c)], t)
    /\ Refuse(c, "blocked")
    /\ UNCHANGED <<vars, localVars>>

(* AmbiguousEffect: the record is AMBIGUOUS, or is declared so now. *)
AmbiguousRefused(c) ==
    /\ At(c, "take") /\ Keyed(c)
    /\ \E t \in Readings :
          /\ Presents(c, t)
          /\ \/ effects[Key(c)].state = "ambiguous" /\ UNCHANGED vars
             \/ Lapsed(effects[Key(c)], t) /\ AmbiguateLapsed(Key(c))
    /\ IF HookAvailable(c) THEN Goto(c, "hook") ELSE Refuse(c, "blocked")
    /\ UNCHANGED localVars

BudgetRefused(c) ==
    /\ At(c, "take") /\ Keyed(c)
    /\ \E t \in Readings :
          Presents(c, t) /\ Free(effects[Key(c)]) /\ ~Affordable(HashOf[c], t)
    /\ Refuse(c, "denied")
    /\ UNCHANGED <<vars, localVars>>

-----------------------------------------------------------------------------
(* _reconciled: the hook is asked once, and its answer applied in a later step *)

AskHook(c) ==
    /\ calls[c].pc \in {"hook", "eager"}
    /\ \E ans \in HookAnswers(Key(c)) :
          calls' = [calls EXCEPT ![c].pc = IF At(c, "hook") THEN "resolve" ELSE "settle",
                                 ![c].asked = TRUE, ![c].answer = ans]
    /\ UNCHANGED <<vars, localVars>>

Applies(c) ==
    /\ calls[c].answer \in Resolutions
    /\ ResolveEffect(Key(c), calls[c].answer, "hook")
    /\ Forgive(Key(c), calls[c].answer)

(* Defect: a resolution the store refuses is not expected. *)
DroppedIfUnknown(c) ==
    /\ calls[c].answer = "unknown"
    /\ UNCHANGED <<vars, forgiven>>

Dropped(c) ==
    /\ calls[c].answer = "unknown" \/ effects[Key(c)].state # "ambiguous"
    /\ UNCHANGED <<vars, forgiven>>

(* The blocking ask: a record that moved is taken once more, else the refusal stands. *)
ApplyAnswer(c) ==
    /\ At(c, "resolve")
    /\ \/ Applies(c) /\ Goto(c, "take")
       \/ Dropped(c) /\ Refuse(c, "blocked")
    /\ UNCHANGED <<remote, receipts>>

(* The eager ask, after an unknown outcome: the receipt is ambiguous either way. *)
SettleAnswer(c) ==
    /\ At(c, "settle")
    /\ Applies(c) \/ Dropped(c)
    /\ Refuse(c, "ambiguous")
    /\ UNCHANGED <<remote, receipts>>

-----------------------------------------------------------------------------
(* _spend_unneeded_approval: close a token the policy no longer asks for *)

SpendUnneeded(c) ==
    /\ At(c, "spend")
    /\ LET id == calls[c].presented
           next == Secured(Key(c), calls[c].attempt)
       IN /\ \/ /\ ConsumeApproval(id, HashOf[c])
                /\ calls' = [calls EXCEPT ![c].pc = next, ![c].spent = id]
             \/ /\ \E t \in Readings : Overdue(id, HashOf[c], t)
                /\ ExpireApproval(id)
                /\ Goto(c, next)
             \/ UNCHANGED vars /\ Goto(c, next)  \* whatever the store raised
          /\ remote' = IF next = "run" THEN [remote EXCEPT ![c] = "sent"] ELSE remote
    /\ UNCHANGED <<receipts, forgiven>>

-----------------------------------------------------------------------------
(* _refuse_ceiling after a reservation: the evidence first, then the release *)

RefuseCeiling(c) ==
    /\ At(c, "ceiling")
    /\ receipts' = [receipts EXCEPT ![c] = "blocked"]
    /\ Goto(c, "release")
    /\ UNCHANGED <<vars, remote, forgiven>>

(* Defect: the unrun attempt is failed without being begun or refunded. *)
ReleaseInOneWrite(c) ==
    /\ At(c, "release")
    /\ \/ /\ Holds(c, {"reserved"})
          /\ effects' = [effects EXCEPT ![Key(c)] = Transitioned(effects[Key(c)], "failed")]
          /\ UNCHANGED <<approvals, ledger, continuations, now>>
       \/ ~Holds(c, {"reserved"}) /\ UNCHANGED vars
    /\ Goto(c, "over")
    /\ UNCHANGED localVars

Release(c) ==
    /\ At(c, "release")
    /\ \/ BeginExecution(Key(c), Action(c)) /\ Goto(c, "unrun")
       \/ ~Holds(c, {"reserved"}) /\ UNCHANGED vars /\ Goto(c, "over")
    /\ UNCHANGED localVars

Unrun(c) ==
    /\ At(c, "unrun")
    /\ \/ FailEffect(Key(c), Action(c))
       \/ ~Holds(c, {"executing"}) /\ UNCHANGED vars
    /\ Goto(c, "over")
    /\ UNCHANGED localVars

-----------------------------------------------------------------------------
(* Executing *)

Begin(c) ==
    /\ At(c, "begin")
    /\ BeginExecution(Key(c), Action(c))
    /\ Goto(c, "run")
    /\ remote' = [remote EXCEPT ![c] = "sent"]
    /\ UNCHANGED <<receipts, forgiven>>

(* The key was lost before the executor started.  execute records the refusals  *)
(* it names, DuplicateEffect and AmbiguousEffect; _checked raises               *)
(* InvalidArgument for any other record, and that one escapes.                  *)
BeginRefused(c) ==
    LET r == effects[Key(c)] IN
    /\ At(c, "begin") /\ ~Holds(c, {"reserved"})
    /\ \E t \in Readings :
          IF \/ r.state \in {"ambiguous", "committed"}
             \/ r.action # Action(c) /\ LeaseIsLive(r, t)
          THEN Refuse(c, "blocked")
          ELSE Goto(c, "over")
    /\ UNCHANGED <<vars, localVars>>

(* The remote, in its own time. *)
RemoteActs(c) ==
    /\ remote[c] = "sent"
    /\ remote' = [remote EXCEPT ![c] = "acted"]
    /\ UNCHANGED <<vars, calls, receipts, forgiven>>

-----------------------------------------------------------------------------
(* _outcome: what the executor did, written to the record *)

(* Defect: a refused outcome write is recorded as if it had succeeded. *)
OutcomeAsReported(c, states, write, result) ==
    \/ Keyed(c) /\ write /\ Refuse(c, result)
    \/ ~(Keyed(c) /\ Holds(c, states)) /\ UNCHANGED vars /\ Refuse(c, result)

(* The store takes the outcome, or refuses it because the record moved on. *)
Outcome(c, states, write, result) ==
    \/ ~Keyed(c) /\ UNCHANGED vars /\ Refuse(c, result)
    \/ Keyed(c) /\ write /\ Refuse(c, result)
    \/ Keyed(c) /\ ~Holds(c, states) /\ UNCHANGED vars /\ Refuse(c, "ambiguous")

Returns(c) ==
    /\ At(c, "run") /\ remote[c] = "acted"
    /\ Outcome(c, {"executing"}, CommitEffect(Key(c), Action(c)), "committed")
    /\ UNCHANGED localVars

(* NotExecuted is believed: the remote was not reached, or refused outright. *)
RaisesNotExecuted(c) ==
    /\ At(c, "run") /\ remote[c] = "sent"
    /\ remote' = [remote EXCEPT ![c] = "refused"]
    /\ Outcome(c, {"executing"}, FailEffect(Key(c), Action(c)), "failed")
    /\ UNCHANGED <<receipts, forgiven>>

(* Anything else is unknown, whatever the remote did or will do.  The eager hook *)
(* is asked only when the record carries that, and not for a BaseException.      *)
RaisesOther(c) ==
    /\ At(c, "run")
    /\ \/ /\ Eager /\ HookAvailable(c)
          /\ MarkAmbiguous(Key(c), Action(c))
          /\ Goto(c, "eager")
       \/ Outcome(c, Unfinished, MarkAmbiguous(Key(c), Action(c)), "ambiguous")
    /\ UNCHANGED localVars

(* _suspend: no outcome and no receipt; the reservation is held where it can be. *)
Suspends(c) ==
    /\ At(c, "run") /\ remote[c] = "sent"
    /\ remote' = [remote EXCEPT ![c] = "asking"]
    /\ Goto(c, "suspended")
    /\ \/ Keyed(c) /\ \E tok \in Tokens : HoldContinuation(Key(c), Action(c), tok)
       \/ UNCHANGED vars  \* keyless, no longer authorised, or refused by the store
    /\ UNCHANGED <<receipts, forgiven>>

(* put_receipt: evidence, in a write of its own. *)
RecordReceipt(c) ==
    /\ At(c, "record")
    /\ receipts' = [receipts EXCEPT ![c] = calls[c].result]
    /\ Goto(c, "over")
    /\ UNCHANGED <<vars, remote, forgiven>>

-----------------------------------------------------------------------------
(* resume: the action and its key come from the continuation, the attempt from  *)
(* the record; nothing is decided again.                                        *)
Resume(c, k, tok) ==
    /\ At(c, "idle")
    /\ TakeContinuation(k, tok)
    /\ calls' = [calls EXCEPT ![c] =
           [IdleCall EXCEPT !.pc = "run", !.action = continuations[k].action,
                            !.key = k, !.attempt = effects[k].attempt, !.asked = TRUE]]
    /\ remote' = [remote EXCEPT ![c] = "sent"]
    /\ UNCHANGED <<receipts, forgiven>>

(* The process dies: the call takes no further step. *)
Crash(c) ==
    /\ calls[c].pc \notin Ended \cup {"idle"}
    /\ Goto(c, "crashed")
    /\ UNCHANGED <<vars, localVars>>

(* ctrlrun resolve: a human answers for an AMBIGUOUS record, rightly or wrongly. *)
HumanResolves(k, s) ==
    /\ ResolveEffect(k, s, "human")
    /\ Forgive(k, s)
    /\ UNCHANGED <<calls, remote, receipts>>

HumanAnswers(id) ==
    /\ \E v \in Principals \cup {Nobody} : GrantApproval(id, v) \/ DenyApproval(id, v)
    /\ UNCHANGED <<calls, localVars>>

TimePasses == Tick /\ UNCHANGED <<calls, localVars>>

-----------------------------------------------------------------------------
(* What the executor does with a call. *)
Executes(c) == Returns(c) \/ RaisesNotExecuted(c) \/ RaisesOther(c) \/ Suspends(c)

(* What the kernel itself does with it, around the executor. *)
Decides(c) ==
    \/ AskHuman(c)
    \/ TakeApprovalAndKey(c) \/ TakeApproval(c) \/ TakeKeyOnly(c)
    \/ ApprovalRefused(c) \/ DuplicateRefused(c) \/ AmbiguousRefused(c) \/ BudgetRefused(c)
    \/ AskHook(c) \/ ApplyAnswer(c) \/ SettleAnswer(c)
    \/ SpendUnneeded(c)
    \/ RefuseCeiling(c) \/ Release(c) \/ Unrun(c)
    \/ Begin(c) \/ BeginRefused(c)
    \/ RecordReceipt(c)

(* A step the call itself takes once it has been made. *)
Progress(c) == Decides(c) \/ Executes(c)

KernelNext ==
    \/ \E c \in Calls, d \in {"allow", "approve", "deny"}, id \in Approvals \cup {NoApproval} :
          Propose(c, d, id)
    \/ \E c \in Resumers, k \in Keys, tok \in Tokens : Resume(c, k, tok)
    \/ \E c \in Everyone : Progress(c) \/ RemoteActs(c) \/ Crash(c)
    \/ \E k \in Keys, s \in Resolutions : HumanResolves(k, s)
    \/ \E id \in Approvals : HumanAnswers(id)
    \/ TimePasses

KernelSpec == KernelInit /\ [][KernelNext]_kernelVars

(* A live process runs its thread; an executor returns, raises or times out. *)
FairKernelSpec == KernelSpec /\ \A c \in Everyone : WF_kernelVars(Progress(c))

-----------------------------------------------------------------------------
(* Properties *)

Ran(c) == remote[c] # "idle"
OfAttempt(c, r) == Action(c) = r.action /\ calls[c].attempt = r.attempt

(* Every local record and every history has its shape. *)
KernelTypeOK ==
    /\ TypeOK
    /\ calls \in [Everyone -> CallState]
    /\ remote \in [Everyone -> {"idle", "sent", "acted", "refused", "asking"}]
    /\ receipts \in [Everyone -> Results]
    /\ forgiven \in [Keys -> SUBSET Nat]

(* Nothing the kernel does to the store is outside the store's transactions,  *)
(* so what holds of every store behaviour holds of every kernel behaviour.    *)
KernelImplementsStore == Spec

(* An effect happens at most once more than somebody pardoned an attempt, and *)
(* of two calls that both did it the earlier one was pardoned: no crash,      *)
(* lapsed lease, late answer, retry or resumption repeats an effect on its    *)
(* own (SPEC-v0.1 5.4, 5.5).                                                  *)
ActsArePardoned ==
    \A k \in Keys :
        /\ Cardinality(ActedOn(k)) <= 1 + Cardinality(forgiven[k])
        /\ \A c, d \in ActedOn(k) \cap Calls :
              c # d => /\ calls[c].attempt # calls[d].attempt
                       /\ calls[c].attempt < calls[d].attempt =>
                              calls[c].attempt \in forgiven[k]

(* A record that is FAILED on the kernel's own word names an attempt whose    *)
(* request the remote never carried out, nor ever will (SPEC-v0.1 5.5).  A    *)
(* leg of another action, resumed on a value held for an earlier attempt, is  *)
(* not part of the attempt (ResumptionBelongsToHolder).                       *)
FailedProvesNothing ==
    \A k \in Keys : effects[k].state = "failed" /\ effects[k].resolvedBy = NoResolver =>
        \A c \in Everyone : Key(c) = k /\ OfAttempt(c, effects[k]) =>
            remote[c] \notin {"sent", "acted"}

(* A receipt is true of the record and of the remote, then and for ever: a    *)
(* committed one of an effect that is done under that very attempt, a failed  *)
(* one of a request that came to nothing, a refusal of an executor never      *)
(* started; and an executor that started leaves one (SPEC-v0.1 6.1).          *)
ReceiptsAreTrue ==
    \A c \in Everyone :
        /\ receipts[c] = "committed" =>
              /\ remote[c] = "acted"
              /\ Keyed(c) => /\ effects[Key(c)].state = "committed"
                             /\ effects[Key(c)].action = Action(c)
                             /\ effects[Key(c)].attempt = calls[c].attempt
        /\ receipts[c] = "failed" => remote[c] = "refused"
        /\ receipts[c] \in {"blocked", "denied"} => ~Ran(c)
        /\ At(c, "over") /\ Ran(c) => receipts[c] # "none"

(* What ran under an approval ran under one of its own, granted for its very  *)
(* hash and spent for good; and a refusal burns nothing: an approval is       *)
(* consumed only by a call that got everything it came for, never by one      *)
(* refused its key (SPEC-v0.1 4.2, T12).                                      *)
OneRunPerApproval ==
    /\ \A c \in Calls : Ran(c) /\ Approving(c) =>
          /\ calls[c].spent # NoApproval
          /\ approvals[calls[c].spent].status = "consumed"
          /\ approvals[calls[c].spent].hash = HashOf[c]
    /\ \A c, d \in Calls :
          c # d /\ calls[c].spent # NoApproval => calls[c].spent # calls[d].spent
    /\ \A id \in Approvals : approvals[id].status = "consumed" =>
          \E c \in Calls : calls[c].spent = id

(* No more executors start for one effect than its ceiling allows, although   *)
(* callers read the attempt count before they reserve (SPEC-v0.7 5.5).        *)
CeilingHolds ==
    \A k \in Keys : Cardinality({c \in Calls : Key(c) = k /\ Ran(c)}) <= Ceiling

(* Whatever ran was charged for the attempt it ran as, in every line it       *)
(* spends from, before the executor started; and the charge is given back     *)
(* only for an attempt that never acted, or that a human or the hook declared *)
(* FAILED (SPEC-v0.9 2.4.1, 3.3, 4.1).                                        *)
ChargesAreEarned ==
    /\ \A c \in Calls, l \in Lines : Ran(c) /\ Cost[HashOf[c]][l] > 0 =>
          \E row \in ledger : /\ row.line = l /\ row.key = Key(c)
                             /\ row.attempt = calls[c].attempt
                             /\ row.amount = Cost[HashOf[c]][l]
    /\ \A row \in ledger : ~row.held =>
          \/ row.attempt \in forgiven[row.key]
          \/ \A c \in ActedOn(row.key) \cap Calls : calls[c].attempt # row.attempt

(* Every call that is made ends: no refusal, retry, hook or race leaves an    *)
(* agent waiting on the kernel.                                               *)
EveryCallEnds == \A c \in Everyone : ~At(c, "idle") ~> calls[c].pc \in Ended

(* "The refusal is terminal for this proposal, so it gets a receipt like any  *)
(* other" (control.py, execute, around begin_execution).                      *)
EveryRefusalLeavesReceipt ==
    \A c \in Calls : At(c, "over") => receipts[c] # "none"
=============================================================================
