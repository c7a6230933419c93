----------------------------- MODULE EffectStore -----------------------------
(***************************************************************************)
(* The StateStore: effect records, approvals, the budget ledger and held   *)
(* continuations, and every transaction that changes them.                 *)
(*                                                                         *)
(* One action is one call of a store method, from the first read to the    *)
(* commit: the in-memory store runs it under one lock and SQLite under one *)
(* BEGIN IMMEDIATE.  A refused call writes nothing and is no step, except  *)
(* for the two refusals whose write is kept: a lapsed lease becomes        *)
(* AMBIGUOUS and a lapsed approval becomes EXPIRED.                        *)
(*                                                                         *)
(* Time is a logical clock.  SQLite reads its clock before it waits for    *)
(* the write lock, so a transaction may decide with a reading up to        *)
(* ClockLag behind `now`; ClockLag = 0 is the in-memory store.             *)
(***************************************************************************)
EXTENDS Integers, FiniteSets

CONSTANTS
    Keys,            \* effect keys
    Actions,         \* action ids: one per proposed action
    Hashes,          \* action hashes: what the arguments, resource and principal digest to
    Approvals,       \* approval request ids
    Principals,      \* humans who may answer a request, as verified principals
    Lines,           \* budget lines: a (grant, metric) pair
    Tokens,          \* continuation values a remote may hand out
    Cost,            \* Cost[h][l]: what an action with hash h charges to line l
    Budgets,         \* the limits in force: records [line, limit, window]
    MaxNeeded,       \* the largest approvals_required a policy pins
    Lease,           \* length of a reservation
    SuspendTimeout,  \* how far a suspension extends the lease
    ApprovalTTL,     \* life of an approval request
    ClockLag,        \* how stale a transaction's clock reading may be
    MaxAttempt,      \* bound: attempts per key
    MaxTime,         \* bound: the clock
    NoAction, NoToken, NoHash, Nobody

ASSUME StoreConstants ==
    /\ Lease \in Nat \ {0} /\ SuspendTimeout \in Nat \ {0}
    /\ ApprovalTTL \in Nat \ {0} /\ ClockLag \in Nat
    /\ MaxNeeded \in Nat \ {0} /\ MaxAttempt \in Nat /\ MaxTime \in Nat
    /\ Cost \in [Hashes -> [Lines -> Nat]]
    /\ Budgets \subseteq [line : Lines, limit : Nat, window : Nat \ {0}]
    /\ NoAction \notin Actions /\ NoToken \notin Tokens
    /\ NoHash \notin Hashes /\ Nobody \notin Principals

VARIABLES
    effects,        \* the record of each effect key
    approvals,      \* the record of each approval request
    ledger,         \* the rows of the budget ledger
    continuations,  \* the continuation row of each effect key
    now             \* the clock

vars == <<effects, approvals, ledger, continuations, now>>

-----------------------------------------------------------------------------
(* Records *)

Unfinished == {"reserved", "executing"}
Resolutions == {"committed", "failed"}
EffectStates == {"new", "ambiguous"} \cup Unfinished \cup Resolutions
Resolvers == {"human", "hook"}
NoLease == -1
NoResolver == "none"

EffectRecord == [state : EffectStates, action : Actions \cup {NoAction}, attempt : Nat,
                 lease : Nat \cup {NoLease}, resolvedBy : Resolvers \cup {NoResolver}]
NoRecord == [state |-> "new", action |-> NoAction, attempt |-> 0,
             lease |-> NoLease, resolvedBy |-> NoResolver]

ApprovalStatus == {"absent", "pending", "granted", "denied", "expired", "consumed"}
ApprovalRecord == [status : ApprovalStatus, hash : Hashes \cup {NoHash},
                   expires : Nat, needed : 1..MaxNeeded, answers : SUBSET Principals]
NoRequest == [status |-> "absent", hash |-> NoHash, expires |-> 0, needed |-> 1,
              answers |-> {}]

(* held is "released_at is null" *)
Consumption == [line : Lines, key : Keys, attempt : Nat, amount : Nat, at : Nat,
                held : BOOLEAN]
Continuation == [token : Tokens \cup {NoToken}, action : Actions \cup {NoAction}]

(* What a transaction may read as the time. *)
Readings == {t \in 0..now : now - t <= ClockLag}

-----------------------------------------------------------------------------
(* The pure decisions every store shares *)

LeaseIsLive(r, t) == r.state \in Unfinished /\ r.lease # NoLease /\ t <= r.lease

(* plan_reservation, the retry table.  A key is free when it was never taken  *)
(* or its last attempt FAILED; a lapsed one is refused and declared AMBIGUOUS. *)
Free(r) == r.state \in {"new", "failed"}
Lapsed(r, t) == r.state \in Unfinished /\ ~LeaseIsLive(r, t)

(* Defect: a retry restarts the attempt count. *)
ReservedAfresh(r, a, t) == [state |-> "reserved", action |-> a, attempt |-> 1,
                            lease |-> t + Lease, resolvedBy |-> NoResolver]

Reserved(r, a, t) == [state |-> "reserved", action |-> a, attempt |-> r.attempt + 1,
                      lease |-> t + Lease, resolvedBy |-> NoResolver]

(* Defect: the holder is not compared. *)
HeldByAnyone(r, a, states) == r.state \in states

(* _checked and _transitioned: the holder moves its own attempt on. *)
HeldIn(r, a, states) == r.action = a /\ r.state \in states

Transitioned(r, s) == [r EXCEPT !.state = s,
                                !.lease = IF s = "executing" THEN r.lease ELSE NoLease]

(* plan_lease_extension: only the executing holder, only while live, never shorter. *)
Extendable(r, a, until) ==
    /\ HeldIn(r, a, {"executing"})
    /\ LeaseIsLive(r, now)
    /\ until > now
    /\ until >= r.lease

(* check_consumable and check_answerable, with the verdict that a record lapsed. *)
GrantedFor(id, h) == approvals[id].status = "granted" /\ approvals[id].hash = h
Consumable(id, h, t) == GrantedFor(id, h) /\ t <= approvals[id].expires
Overdue(id, h, t) == GrantedFor(id, h) /\ t > approvals[id].expires

(* Defect: a granted request may still be answered. *)
AnswerableAgain(id, t) ==
    approvals[id].status \in {"pending", "granted"} /\ t <= approvals[id].expires

Answerable(id, t) == approvals[id].status = "pending" /\ t <= approvals[id].expires

(* Defect: an unverified answer is counted as a principal. *)
AnswersWithUnverified(r, v) == r.answers \cup {v}

(* count_grant: who has answered, and whether the pinned threshold is reached. *)
(* An unverified answer (Nobody) is recorded nowhere and reaches only N = 1.   *)
AnswersWith(r, v) == r.answers \cup ({v} \ {Nobody})

(* Defect: an unverified answer completes any quorum. *)
ReachedUnverified(r, v) == v = Nobody \/ Cardinality(AnswersWith(r, v)) >= r.needed

Reached(r, v) ==
    IF v = Nobody THEN r.needed = 1 ELSE Cardinality(AnswersWith(r, v)) >= r.needed

(* _spent: the un-released sum of a line since a moment, each row counted once per unit. *)
HeldRows(l, since) == {row \in ledger : row.line = l /\ row.held /\ row.at >= since}
Units(rows) == UNION {{row} \X (1..row.amount) : row \in rows}
Spent(l, since) == Cardinality(Units(HeldRows(l, since)))

(* Defect: the charge itself is left out of the check. *)
AffordableByPast(h, t) ==
    \A b \in Budgets : Spent(b.line, t - b.window) <= b.limit

(* check_charges: every budget on every line the action charges, inclusive. *)
Affordable(h, t) ==
    \A b \in Budgets : Cost[h][b.line] > 0 =>
        Spent(b.line, t - b.window) + Cost[h][b.line] <= b.limit

(* The rows one reservation writes; a zero charge changes no sum and is left out. *)
Rows(h, k, n, t) ==
    {[line |-> l, key |-> k, attempt |-> n, amount |-> Cost[h][l], at |-> t, held |-> TRUE] :
        l \in {m \in Lines : Cost[h][m] > 0}}

(* _release_locked: FAILED gives back what the key still holds. *)
ReleasedFor(k) ==
    {IF row.key = k THEN [row EXCEPT !.held = FALSE] ELSE row : row \in ledger}

-----------------------------------------------------------------------------
Init ==
    /\ effects = [k \in Keys |-> NoRecord]
    /\ approvals = [id \in Approvals |-> NoRequest]
    /\ ledger = {}
    /\ continuations = [k \in Keys |-> [token |-> NoToken, action |-> NoAction]]
    /\ now = 0

(* Approvals *)

PutApprovalRequest(id, h, n) ==
    /\ approvals[id].status = "absent"
    /\ approvals' = [approvals EXCEPT ![id] =
           [status |-> "pending", hash |-> h, expires |-> now + ApprovalTTL,
            needed |-> n, answers |-> {}]]
    /\ UNCHANGED <<effects, ledger, continuations, now>>

GrantApproval(id, v) ==
    /\ \E t \in Readings : Answerable(id, t)
    /\ LET r == approvals[id] IN
       approvals' = [approvals EXCEPT ![id] =
           [r EXCEPT !.answers = AnswersWith(r, v),
                     !.status = IF Reached(r, v) THEN "granted" ELSE "pending"]]
    /\ UNCHANGED <<effects, ledger, continuations, now>>

DenyApproval(id, v) ==
    /\ \E t \in Readings : Answerable(id, t)
    /\ approvals' = [approvals EXCEPT ![id].status = "denied",
                                      ![id].answers = AnswersWith(approvals[id], v)]
    /\ UNCHANGED <<effects, ledger, continuations, now>>

(* _expire_locked: the kept write of an answer or a presentation that came too late. *)
ExpireApproval(id) ==
    /\ \E t \in Readings :
          \/ approvals[id].status = "pending" /\ t > approvals[id].expires
          \/ \E h \in Hashes : Overdue(id, h, t)
    /\ approvals' = [approvals EXCEPT ![id].status = "expired"]
    /\ UNCHANGED <<effects, ledger, continuations, now>>

ConsumeApproval(id, h) ==
    /\ \E t \in Readings : Consumable(id, h, t)
    /\ approvals' = [approvals EXCEPT ![id].status = "consumed"]
    /\ UNCHANGED <<effects, ledger, continuations, now>>

-----------------------------------------------------------------------------
(* Reservations *)

(* The write half of _authorize_and_reserve: the record and its charges, together. *)
TakeKey(k, a, h, t) ==
    /\ Free(effects[k])
    /\ effects[k].attempt < MaxAttempt
    /\ Affordable(h, t)
    /\ effects' = [effects EXCEPT ![k] = Reserved(effects[k], a, t)]
    /\ ledger' = ledger \cup Rows(h, k, effects[k].attempt + 1, t)

ReserveEffect(k, a, h) ==
    /\ \E t \in Readings : TakeKey(k, a, h, t)
    /\ UNCHANGED <<approvals, continuations, now>>

ConsumeApprovalAndReserve(id, k, a, h) ==
    /\ \E t \in Readings : Consumable(id, h, t) /\ TakeKey(k, a, h, t)
    /\ approvals' = [approvals EXCEPT ![id].status = "consumed"]
    /\ UNCHANGED <<continuations, now>>

(* _plan's kept write: a contender finds the lease lapsed and is refused. *)
AmbiguateLapsed(k) ==
    /\ \E t \in Readings : Lapsed(effects[k], t)
    /\ effects' = [effects EXCEPT ![k] = Transitioned(effects[k], "ambiguous")]
    /\ UNCHANGED <<approvals, ledger, continuations, now>>

-----------------------------------------------------------------------------
(* Outcomes: _transition under the record's own action id *)

BeginExecution(k, a) ==
    /\ HeldIn(effects[k], a, {"reserved"})
    /\ effects' = [effects EXCEPT ![k] = Transitioned(effects[k], "executing")]
    /\ UNCHANGED <<approvals, ledger, continuations, now>>

CommitEffect(k, a) ==
    /\ HeldIn(effects[k], a, {"executing"})
    /\ effects' = [effects EXCEPT ![k] = Transitioned(effects[k], "committed")]
    /\ UNCHANGED <<approvals, ledger, continuations, now>>

FailEffect(k, a) ==
    /\ HeldIn(effects[k], a, {"executing"})
    /\ effects' = [effects EXCEPT ![k] = Transitioned(effects[k], "failed")]
    /\ ledger' = ReleasedFor(k)
    /\ UNCHANGED <<approvals, continuations, now>>

(* Defect: an unknown outcome gives its charge back. *)
MarkAmbiguousRefunding(k, a) ==
    /\ HeldIn(effects[k], a, Unfinished)
    /\ effects' = [effects EXCEPT ![k] = Transitioned(effects[k], "ambiguous")]
    /\ ledger' = ReleasedFor(k)
    /\ UNCHANGED <<approvals, continuations, now>>

MarkAmbiguous(k, a) ==
    /\ HeldIn(effects[k], a, Unfinished)
    /\ effects' = [effects EXCEPT ![k] = Transitioned(effects[k], "ambiguous")]
    /\ UNCHANGED <<approvals, ledger, continuations, now>>

(* Defect: a settled record is resolved again. *)
ResolveSettled(k, s, who) ==
    /\ effects[k].state \in {"ambiguous"} \cup Resolutions
    /\ effects' = [effects EXCEPT ![k] =
           [Transitioned(effects[k], s) EXCEPT !.resolvedBy = who]]
    /\ ledger' = IF s = "failed" THEN ReleasedFor(k) ELSE ledger
    /\ UNCHANGED <<approvals, continuations, now>>

(* Defect: a resolution to FAILED keeps the charge. *)
ResolveWithoutRefund(k, s, who) ==
    /\ effects[k].state = "ambiguous"
    /\ effects' = [effects EXCEPT ![k] =
           [Transitioned(effects[k], s) EXCEPT !.resolvedBy = who]]
    /\ UNCHANGED <<approvals, ledger, continuations, now>>

(* resolve_effect: a human or a hook answers for an AMBIGUOUS record. *)
ResolveEffect(k, s, who) ==
    /\ effects[k].state = "ambiguous"
    /\ effects' = [effects EXCEPT ![k] =
           [Transitioned(effects[k], s) EXCEPT !.resolvedBy = who]]
    /\ ledger' = IF s = "failed" THEN ReleasedFor(k) ELSE ledger
    /\ UNCHANGED <<approvals, continuations, now>>

-----------------------------------------------------------------------------
(* Held reservations *)

ExtendLease(k, a, until) ==
    /\ Extendable(effects[k], a, until)
    /\ effects' = [effects EXCEPT ![k].lease = until]
    /\ UNCHANGED <<approvals, ledger, continuations, now>>

(* The caller computed `until` from its own clock before the transaction. *)
HoldContinuation(k, a, c) ==
    /\ \A other \in Keys \ {k} : continuations[other].token # c
    /\ \E t \in Readings :
          /\ Extendable(effects[k], a, t + SuspendTimeout)
          /\ effects' = [effects EXCEPT ![k].lease = t + SuspendTimeout]
    /\ continuations' = [continuations EXCEPT ![k] = [token |-> c, action |-> a]]
    /\ UNCHANGED <<approvals, ledger, now>>

(* Defect: the continuation is read and not consumed. *)
PeekContinuation(k, c) ==
    /\ continuations[k].token = c
    /\ effects[k].state = "executing"
    /\ LeaseIsLive(effects[k], now)
    /\ UNCHANGED vars

TakeContinuation(k, c) ==
    /\ continuations[k].token = c
    /\ effects[k].state = "executing"
    /\ LeaseIsLive(effects[k], now)
    /\ continuations' = [continuations EXCEPT ![k].token = NoToken]
    /\ UNCHANGED <<effects, approvals, ledger, now>>

Tick ==
    /\ now < MaxTime
    /\ now' = now + 1
    /\ UNCHANGED <<effects, approvals, ledger, continuations>>

-----------------------------------------------------------------------------
ApprovalStep(id) ==
    \/ \E h \in Hashes, n \in 1..MaxNeeded : PutApprovalRequest(id, h, n)
    \/ \E v \in Principals \cup {Nobody} : GrantApproval(id, v) \/ DenyApproval(id, v)
    \/ ExpireApproval(id)
    \/ \E h \in Hashes : ConsumeApproval(id, h)

HolderStep(k, a) ==
    \/ \E h \in Hashes : ReserveEffect(k, a, h)
    \/ \E h \in Hashes, id \in Approvals : ConsumeApprovalAndReserve(id, k, a, h)
    \/ BeginExecution(k, a)
    \/ CommitEffect(k, a)
    \/ FailEffect(k, a)
    \/ MarkAmbiguous(k, a)
    \/ \E until \in 0..(now + SuspendTimeout) : ExtendLease(k, a, until)
    \/ \E c \in Tokens : HoldContinuation(k, a, c)

KeyStep(k) ==
    \/ AmbiguateLapsed(k)
    \/ \E s \in Resolutions, who \in Resolvers : ResolveEffect(k, s, who)
    \/ \E c \in Tokens : TakeContinuation(k, c)

Next ==
    \/ \E id \in Approvals : ApprovalStep(id)
    \/ \E k \in Keys, a \in Actions : HolderStep(k, a)
    \/ \E k \in Keys : KeyStep(k)
    \/ Tick

Spec == Init /\ [][Next]_vars

-----------------------------------------------------------------------------
(* Properties *)

(* Every record has the shape the tables of the store give it. *)
TypeOK ==
    /\ effects \in [Keys -> EffectRecord]
    /\ approvals \in [Approvals -> ApprovalRecord]
    /\ ledger \subseteq Consumption
    /\ continuations \in [Keys -> Continuation]
    /\ now \in Nat

(* A lease exists exactly while an attempt is unfinished, so a settled or     *)
(* unknown effect can never look like work in flight (_transitioned), and a   *)
(* resolver is named exactly on a record a resolver settled: a retry it       *)
(* permitted is not attributed to it (SPEC-v0.6 5.3, the renewal's UPDATE).   *)
RecordsAgree ==
    \A k \in Keys :
        /\ (effects[k].lease # NoLease) <=> (effects[k].state \in Unfinished)
        /\ effects[k].resolvedBy # NoResolver => effects[k].state \in Resolutions
        /\ (effects[k].state = "new") <=> (effects[k].attempt = 0)

(* A charge is held exactly while its attempt is the latest of its key and    *)
(* that attempt is not FAILED: never released by a refused outcome, never     *)
(* still held after a proof that nothing happened (SPEC-v0.9 4.1, 4.2).       *)
ChargesFollowEffects ==
    \A row \in ledger :
        /\ row.attempt \in 1..effects[row.key].attempt
        /\ row.held <=> /\ row.attempt = effects[row.key].attempt
                        /\ effects[row.key].state # "failed"

(* No two reservations of one key share an attempt number, so a line is       *)
(* charged at most once for each attempt (SPEC-v0.7 5.6, SPEC-v0.9 3.4).      *)
OneChargePerAttempt ==
    \A r1, r2 \in ledger :
        (r1.line = r2.line /\ r1.key = r2.key /\ r1.attempt = r2.attempt) => r1 = r2

(* No budget is ever exceeded over its rolling window, however the            *)
(* reservations, releases and stale clock readings interleave (SPEC-v0.9 3.3). *)
WithinBudget ==
    \A b \in Budgets : Spent(b.line, now - b.window) <= b.limit

(* A granted approval, and one that was spent, collected the distinct         *)
(* principals its request pinned; one yes is enough only where one is         *)
(* required (SPEC-v0.8 4.2).                                                  *)
QuorumBehindGrant ==
    \A id \in Approvals :
        approvals[id].status \in {"granted", "consumed"} =>
            approvals[id].needed = 1 \/ Cardinality(approvals[id].answers) >= approvals[id].needed

(* An approval is single use and bound to the action a human saw: its answer  *)
(* is never taken back into play and never moves to another hash              *)
(* (SPEC-v0.1 4.2).                                                           *)
AnswersAreFinal ==
    [][\A id \in Approvals :
          /\ approvals[id].status \in {"denied", "expired", "consumed"} =>
                 approvals'[id] = approvals[id]
          /\ approvals[id].status = "granted" =>
                 /\ approvals'[id].status \in {"granted", "consumed", "expired"}
                 /\ approvals'[id].answers = approvals[id].answers
          /\ approvals[id].status # "absent" => approvals'[id].hash = approvals[id].hash]_vars

(* "A continuation is admitted only if ... the effect record is still         *)
(* EXECUTING, held by that action_id" (SPEC-v0.2 6.9.2).                      *)
ResumptionBelongsToHolder ==
    [][\A k \in Keys :
          (continuations[k].token # NoToken /\ continuations'[k].token = NoToken) =>
              effects[k].action = continuations[k].action]_vars

(* The store implements the promise about logical effects. *)
Phase(r) == CASE Free(r) -> "open"
              [] r.state \in Unfinished -> "held"
              [] r.state = "ambiguous" -> "unknown"
              [] r.state = "committed" -> "done"

Promise == INSTANCE LogicalEffect WITH
    phase <- [k \in Keys |-> Phase(effects[k])],
    attempt <- [k \in Keys |-> effects[k].attempt],
    holder <- [k \in Keys |-> effects[k].action],
    charged <- [k \in Keys |-> {row.attempt : row \in {r \in ledger : r.key = k /\ r.held}}]

(* Every store behaviour is a behaviour of the promise: one attempt at a      *)
(* time, done is for ever, unknown only ends by adjudication, and the charge  *)
(* held is the one of the attempt that may have happened.                     *)
KeepsPromise == Promise!Spec
=============================================================================
