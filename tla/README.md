# ctrlrun: a verification project

ctrlrun stands between an agent and a side effect. An agent proposes an action;
the kernel (`Control.execute`) decides it against authority and policy, asks a
human where the policy says so, reserves an *effect key* so the same logical
effect is not carried out twice, charges a budget, runs the executor, and leaves
a receipt. Everything it must remember lives in a store shared by every process.

These modules model that core, model-check it on small instances with TLC, and
prove nearly all of what the runs check for every instance with TLAPS. All paths below are
relative to `src/src/ctrlrun/` unless they start with `docs/`.

## 1. Inventory of the system

| Component | State it keeps | Operations | What makes it correct |
|---|---|---|---|
| Effect records (`effect.py`, `state.py`) | one row per effect key: state, holder, attempt number, lease, resolver | reserve, begin, commit, fail, mark ambiguous, resolve, extend lease, list | one attempt in flight; FAILED is proof that nothing happened; AMBIGUOUS is never retried until somebody answers |
| Approvals (`approval.py`, `state.py`) | one row per request: status, action hash, expiry, threshold, answers | put, grant (M of N), deny, expire, consume | single use, bound to a hash, a quorum of distinct people, never reopened |
| Budget ledger (`state.py`) | one row per charge: line, key, attempt, amount, time, released | charge (inside a reservation), release (inside FAILED), sum a window | no rolling window overspent; refund exactly when nothing happened |
| Held continuations (`state.py`) | one row per effect key: a value, the action it was held for, the rounds held | hold, take | one value resumes one effect, once |
| Kernel (`control.py`) | a call's local variables; a receipt | execute, resume, reconcile, outcome handling, suspension, ceiling | see section 3 |
| Gates of an approval (`control.py`) | a fingerprint beside the request; a call's local variables | pin and request, read back, withdraw; scope, approver check, precondition, take; again after a hook's answer | what is consumed was checked, in the pass that consumed it |
| Operator commands (`cli/main.py`) | none of their own | approve, deny, resolve | write only what the store permits |
| PostgreSQL store (`postgres.py`) | the same tables | the same, by compare-and-set over a connection that may be lost | a lost COMMIT is recognised as one's own or somebody else's |
| Receipt chain, anchors, retention (`receipt.py`, `anchor.py`, `retention.py`, `state.py`) | a hash chain with one head row, one checkpoint row, holds, a cache of anchors; outside the store, the provider's anchors | append, verify, prune, place and release a hold, anchor, verify anchors | the chain verifies unless somebody damaged it; a prune passes no hold, frees no charge, hides no loss, and tells the provider first |
| Authority and delegation (`authority.py`) | a document of grants and envelopes; delegation records in the store | evaluate a chain, plan and put a delegation, open an envelope, revoke, deploy a document | a delegated grant never exceeds its parent, its budgets never their ancestors'; what is cut, expired or narrowed above reaches calls in flight |
| Revocation feed (`revocation.py`) | the revocations consumed, when it last read, when it last asked | refresh by a poll or a file's modification time, stale, revoked | nothing is taken back; what it cannot know it does not admit; it recovers |
| Token identity (`jwt_identity.py`) | the issuer's keys, when they were last fetched | find a key, fetch, check the revocation | a stream of unknown key ids neither floods the issuer nor locks a new key out |
| Policy (`policy.py`) | none: a document | evaluate | first match, default deny |
| Gateway (`gateway/`) | none of its own; the round counter in the continuation's row | pre-check, forward, map an upstream answer to an outcome, continue, declare too many rounds | an answer that proves nothing is never mapped to FAILED; a human's no is not asked again |
| Operator server (`gateway/operator.py`) | none | the approve, deny and resolve of the CLI over HTTP | identity before effect |
| Webhook (`webhook.py`) | none | a signed answer to an approval request | duplicates and reordering are harmless |
| Hashing, migrations, reporting, scanning, conformance, adapters | none, or derived | pure, read-only or start-up | out of scope, see section 9 |

**How they interact.** A call of `execute` is sequential, but any number of them
run at once in threads and processes, together with resumptions, operator
commands and retries of the same request. They share nothing but the store, and
each store method is one transaction (one lock in memory, one `BEGIN IMMEDIATE`
in SQLite; under PostgreSQL plain reads, a compare-and-set and a COMMIT that may
be lost). Between two store calls anything may happen: another call takes the
key, the lease lapses, a human resolves the record, the process dies. Beyond the
store is a remote system that may act on a request at any time after it was
sent, including after the call that sent it gave up.

**The hard behaviours** are therefore: a lapsed lease under a live executor; an
outcome that arrives after its record moved on; a human and a reconcile hook
answering the same unknown; an approval presented twice, or presented with a
key that is refused; a budget read and a charge racing; the attempt ceiling
checked before the reservation and enforced after; a clock that was read before
the lock was waited for; a continuation that outlives the attempt it was held
for; a crash between any two writes; a prune that checks, calls a provider
outside the store and only then deletes, while writers, holds, reservations and
other prunes go on; a request that is granted, a world or a scope that moves
between two checks of one call; a COMMIT nobody acknowledged; a delegation
planned under a chain that is cut before it is put; a continuation leg whose
refusal says nothing about the request it continues. `PROJECT.json` lists each at its line.

## 2. The modules

| Module | Models | Builds on |
|---|---|---|
| `LogicalEffect` | the abstract promise about one logical effect: open, held, unknown or done; its attempts; the attempts it is charged for | |
| `EffectStore` | the store: effect records, approvals, ledger, continuations, clock; one action per transaction | refines `LogicalEffect` |
| `Gates` | what an approval passes before it is consumed: pinning, scope, approver check, precondition, the take | extends `EffectStore` |
| `Kernel` | `Control.execute` and `Control.resume`, concurrent calls around a remote system | extends `EffectStore`, refines its `Spec` |
| `Gateway` | the MCP gateway: each post is a call of the kernel, its executor a request to the upstream | extends `Kernel` |
| `PostgresStore` | the PostgreSQL store: reads, compare-and-set, COMMIT, lost COMMIT | extends `EffectStore`, refines its steps |
| `Authority` | documents, delegations, envelopes, and calls under them | |
| `Identity` | `JWTIdentityProvider.resolve` on threads that share a key cache and a revocation feed | |
| `MCEffectStore`, `MCKernel`, `MCGateway`, `MCPostgresStore`, `MCAuthority`, `MCReceiptChain` | the constants and scenes of the runs | `Gates`, `Kernel`, `Gateway`, `PostgresStore`, `Authority` and `Identity`, `ReceiptChain` |
| `EvidenceLog` | the abstract promise about receipts: only the oldest are erased, never the newest, and a witness knows how far | |
| `ReceiptChain` | the chain, its verification, anchors, holds and prunes | refines `EvidenceLog` |
| `EffectStore_proofs` | every theorem about the store | `EffectStore` |
| `Gates_proofs` | the theorems about what is checked before an approval is consumed | `Gates`, `EffectStore_proofs` |
| `Kernel_proofs` | the kernel is orderly, well typed, and uses the store as specified | `Kernel`, `EffectStore_proofs` |
| `Kernel_pardons` | the theorems about attempts, approvals, receipts, charges and what the remote does | `Kernel_proofs` |
| `Gateway_proofs` | the theorems about the gateway: refusals, failures, and what the kernel promises kept behind it | `Gateway`, `Kernel_pardons` |
| `PostgresStore_proofs` | the theorems about holders, answers, continuation values and budgets on PostgreSQL, and the refinement of the store's steps | `PostgresStore`, `EffectStore_proofs` |
| `Admission_proofs` | the theorems about delegations, chains, cuts and budgets, about revocations, and about who is turned away | `Authority`, `Identity` |
| `ReceiptChain_proofs` | the theorems about the chain, its anchors, holds, charges and the refinement of `EvidenceLog` | `ReceiptChain` |

### EffectStore

`effects[k]` is an `EffectRecord`, and `NoRecord` (state `"new"`, attempt 0) is a
key nobody took. `approvals[id]`, `ledger` and `continuations[k]` are the other
tables; `now` is the clock. A row's `held` is `released_at IS NULL`.

Each action is a store method from first read to commit, including the writes it
makes on the side: `FailEffect` and `ResolveEffect` release the key's charges
(`_release_locked`), `ReserveEffect` and `ConsumeApprovalAndReserve` share
`TakeKey`, the record and its charges in one transaction, and the latter also
consumes the approval. A refusal that raises and writes nothing is not a step.
The two refusals that *do* write are: `AmbiguateLapsed` (a contender meets a
lapsed lease) and `ExpireApproval` (an answer or a presentation comes too late).

Decisions the stores share are operators named after their functions: `Free` and
`Lapsed` are the retry table of `plan_reservation`, `HeldIn` is `_checked`,
`Transitioned` is `_transitioned`, `Extendable` is `plan_lease_extension`,
`AnswersWith` and `Reached` are `count_grant`, `Affordable` is `check_charges`.

*The clock.* The SQLite store reads its clock before it waits for the write
lock. A transaction therefore decides with a reading `t` in `Readings`, at most
`ClockLag` behind `now`. `ClockLag = 0` is the in-memory store; the budget and
holder runs, and the kernel runs about resumption and about ending, use 1.

*Sums.* `Spent` sums a window of the ledger as the number of its charge units,
which needs no recursion and can be reasoned about.

### Kernel

A call has a program counter, and each step is one access to shared state, so
calls interleave where the code lets them:

    idle - ask                        no approval presented: request it, wait
         - take                       _take: one store transaction
              - hook - resolve        AMBIGUOUS: ask the hook once, apply, take again
              - spend                 an approval the policy no longer asks for
              - ceiling - release - unrun   max_attempts passed: evidence, then release
              - begin - run           begin_execution, then the executor
         run  - (returns | NotExecuted | anything else | suspends)
              - eager - settle        the hook, asked about an unknown outcome
         record - over                the receipt, in a write of its own

`remote[c]` is the world: a request is `sent`, may become `acted` at any later
time (`RemoteActs`, with or without its caller alive), or ends `refused`
(the executor raised `NotExecuted` and is believed) or `asking` (it suspended).
`forgiven` is a history variable: the attempts somebody declared FAILED.
`Crash` stops a call at any step. `HumanResolves` and `HumanAnswers` are the
operator's commands, and the human may be wrong: no property assumes otherwise.

*Taken as input.* The policy's decision for a hash is any of `Decisions[hash]`,
chosen anew by each call, which also covers a policy that changes between two
calls. The hook reads the remote: it may say it does not know, and otherwise
says what is true at that moment; it cannot see a request that is still
travelling. Each proposed action has its own action id (`OneCallPerAction`, which
only the theorems of `Kernel_pardons` use): two calls that reuse one id are the
residual the code documents (`docs/SPEC-v0.7.md` 12.3a), and a replay that presents
the same `Action` object again (`docs/SPEC-v0.5.md` 3.2.1) is not covered.

### Gates

One call per proposed action, with a program counter; every step is one read or
one write of the code, and any store transaction of anybody else, the clock, the
world behind the precondition and the resource's scope may move between two:

    idle - pin - request - readback - waiting            asking (_presented)
                            - withdraw - reread - spend - withdrawn
         - scope - read - fetch - take - taken           presenting, at most twice
                                 - hook - resolve - scope

`Request` may lose the fingerprint, as an approval provider that builds its own
request does, and `Withdraw` then denies it, or spends a grant that landed
meanwhile. `Recheck` is `_recheck` up to the fetch with `_check_approver` inside
it: one read of the record and one of the clock. `barred` are the principals whose
yes does not count for the action: its requester, and whoever lacks a role the
request pins. `matched` and `scoped` are history: what was true at some moment of
the current pass. An approver identity and a scope provider are configured.

### Gateway

A post has a step: `before` and `look` are the two reads that spare a human
(`_before_asking_a_human`), `execute` and `inside` hand it to the kernel, and
`bound`, `excess` and `mark` are the three store calls of
`_over_the_round_bound`. `Forwards` is the executor: what the transport observed,
as `classify` reads it, a continuation leg by its own rule. `UpstreamActs`
replaces `RemoteActs`: the upstream may run an exchange whenever it holds it,
answered or not, and runs an exchange, a request with the continuations of its
elicitations, at most once. `Continue` takes the action from the store and what
it forwards from the post. `noes` is history: the denials that stood when a post
arrived.

### PostgresStore

A method reads with plain `SELECT`s, decides, and writes with statements whose
`WHERE` names what it was decided on. A row a transaction wrote stays locked
until it commits, so a transaction whose conditions all hold is one step, its
`Commit`, guarded by the rows being free; what moves between the reads and
that step is what the conditions are for. `Commit` has three ends: acknowledged,
aborted, or in doubt. In doubt the transaction waits in `doubt[c]`, keeping its
rows and budget anchors, until `Decide` lands or drops it, while the method reads
again and obeys the tables A1 and A2 (`ResolveLostReservation`,
`ResolveLostUpdate`). The unique indexes take part: a hold whose value is that of
another hold in doubt waits for it (`continuations_by_value`). `Reissue` and `Restage` are the two bounded repetitions,
each under its own flag. `stamps` stands for the columns a clock fills, by which
`_is_our_own_write` tells two writers of one action id apart.

`PostgresImplementsStore` says that every landing is a transaction of
`EffectStore`, or one of three late writes this backend admits and the serialized
one does not: a suspension written after its lease lapsed, a continuation
cleared after its attempt ended, a denial that keeps the answers it read.
None of the three grants, charges or frees anything.

### Authority

A grant's action, resource, environment and user patterns and its constraints are
the set of acts it reaches, so containment of patterns is inclusion. `Climb` is
`_walk`, no further than the document's depth; `ChainValid` is `_check_chain`,
`Covers` and `Candidates` are `evaluate`, `ChargesFor` is `_charges_for`. A
delegation or an opened envelope is planned from reads (`PlanDelegation`,
`PlanBreakGlass`) and put later, when nothing is checked again (`PutDelegation`);
in between it may be lost, and its parent revoked, expired or narrowed. A call is
decided, reserved with its charges, suspended (authorized once more, without its
task) and resumed (not authorized). `Deploy` puts another document in force over
the same store. Delegation ids are random and never repeat: the position in the
sequence stands for the id. `strayed` is history: the legs begun in a row while
nothing covered the call.

### Identity

One provider and one feed serve every thread of a server, and neither has a lock:
each action is one read or write of a shared field, or one look at the source, of
`JWTIdentityProvider._key_for` and `_refresh`, of `refresh` of either feed, and of
`_check_revocation`:

    key - due - mark - fetch - install - again      an id the cache does not know
    look - polled - ask - consume - stale           a poll, at most once an interval
    look - ask - moved - consume - stale            a file whose modification time moved
    stale - look - ... - lookup - admitted          revoked() refreshes once more

`since` is history: when a call arrived and, from then on, when it found the feed
not to be stale. `issuer` says since when a key is published, `source` when a
credential was revoked, what the file or endpoint lists now, and whether it
answers. What was consumed may disappear from the source and come back.
`Slowness` is `http_timeout`: a refresh, from its first reading of the clock,
takes no longer. A poll is dated by its beginning, a file by its end (after the
read), which is why the bound on a file is longer by one read (`Slack`). A fetch
of keys that was overtaken installs the older set; a key then waits for one more
interval, which is why the bound for a new key is an interval and a fetch.

### ReceiptChain

`rows` are the chained receipts by their `seq` column, `head` and `checkpoint`
the two single rows beside them. A receipt's hash covers its body and the hash
before it, so a hash *is* the sequence of the bodies up to it: two are equal
exactly when no collision makes the digests equal. `Breaks` is `verify_chain`,
as the set of `(kind, seq)` pairs that the prune compares too.

A prune is the code's own sequence (`cli/main.py` `prune_command`, `retention.py`
`_prune_locked`):

    PrunePropose   a receipt of intent, before the lock; the clock is read here
    PruneOpen      the lock; head, checkpoint, holds, mark, and rule 2
    PruneConsult   the ledger and the effects it names, read as one step
    PruneAnchors   the provider is asked, outside the transaction
    PruneDeletes   cache, checkpoint, rows and ledger, and the commit
    PruneTold      a second receipt of what became of it

with `PruneRefused`, `PruneFails` (the provider raises, having recorded the pair
or not, or its time runs backwards) and `Crash` between. Nothing under the lock
touches the chain, so the order of the checks within `PruneOpen` decides only
which refusal is worded, and rule 2 is checked there. A scheduled anchor
(`AnchorHead`, `AnchorMade`, `AnchorCached`) takes no lock.

*The lock.* `OneWriter` chooses the backend. SQLite's `BEGIN IMMEDIATE` admits
no other writer (`Writable`). PostgreSQL's `pruning` locks the head row, which
`put_receipt` and `put_hold` take too (`ChainFree`, `HoldFree`) and which
reservations, outcomes, released holds and cached anchors do not.

*Spending.* A key's effect record is reduced to what the prune asks of it:
never taken, unsettled (reserved, executing or ambiguous), committed or failed.
A charge is one row per attempt; `Counted` is the window of `_spent`.

*Damage* happens between prunes, to rows: lost, unreadable, or stripped of their
hash. The head and the checkpoint are not damaged: who rewrites those is what
the anchors are for, and no property here is about it.

### Defect operators

Beside some definitions stands one marked `(* Defect: ... *)`: the same
definition with a bug that a change to this code could plausibly introduce (a
dropped comparison, a missing refund, one write where two are needed).
No specification uses them. Substituting one for its original must break the
property that `PROJECT.json` names with it, which shows that the property
depends on what the code does at that place.

## 3. Properties and the hazards they answer

The store (`EffectStore`), and the gates of an approval (`Gates`):

- `ChargesFollowEffects`: a charge is held exactly while its attempt is its
  key's latest and is not FAILED.
- `OneChargePerAttempt`: no line is charged twice for an attempt.
- `WithinBudget`: no rolling window is overspent *now*, although transactions
  decide with stale readings.
- `QuorumBehindGrant`, `AnswersAreFinal`: what a grant rests on, and that an
  answer stays.
- `KeepsPromise`: all of it together implements `LogicalEffect`.
- `CheckedInThisPass`: what is taken was in scope, and its world as it was when
  the human was asked, at a moment of the very pass that took it, though a hook
  may have been asked for minutes before that pass.
- `ApproversWereChecked`: wherever the recheck saw a grant, or had a precondition
  to compare, nothing is taken on a yes that does not count, whatever host and
  store read from their clocks.
- `NothingLeftToSpend`: a withdrawn request is left to nobody, though a human may
  have granted it in the meantime.

The kernel (`Kernel`) and the gateway (`Gateway`):

- `ActsArePardoned`: the remote acts at most once more than somebody declared an
  attempt of the effect FAILED, whichever calls and resumptions ran.
- `FailedProvesNothing`: FAILED on the kernel's own word means the request never
  was and never will be carried out. Legs resumed for another action's attempt are
  not counted (finding 2).
- `ReceiptsAreTrue`: a receipt stays true of the record and of the remote.
- `OneRunPerApproval`: an approval buys one run, of its own hash, and a refusal
  costs nothing.
- `ChargesAreEarned`: what ran was charged before, and a charge is given back only
  for what never acted or was declared FAILED. It looks at the calls that paid;
  what a resumed leg did is left to `FailedProvesNothing` and `ActsArePardoned`.
- `CeilingHolds`: executors started never exceed `max_attempts`.
- `EveryCallEnds`: liveness of every call that was made.
- `KernelImplementsStore`: the kernel's store steps are store transactions.
- `NothingFailedWhileHeld`: through the gateway, FAILED also means that no
  upstream is holding the exchange, on whatever leg it was refused.
- `NoIsAnAnswer`: nobody is asked for an action that was refused when the call
  arrived, while the refusal lasts, whatever is granted, resolved or consumed
  meanwhile.

The PostgreSQL store (`PostgresStore`):

- `PostgresImplementsStore`: what lands is what the serialized store could have
  done in one transaction at that moment, or a late write of section 2.
- `OneHolderPerAttempt`: no two callers are told they hold the same attempt, even
  where they share an action id.
- `AnswersAreTrue`: what a caller is told has happened, all of it: the charges,
  the approval spent on nobody else, the outcome.
- `OneTakePerValue`: one continuation value, one resumption.
- `EveryOperationEnds`: no lock, lost COMMIT, re-issue or re-read is for ever.

Authority (`Authority`):

- `Attenuated`: a delegation permits no act, task, later moment or series of
  spends that its parent does not. The budgets are compared by what series of
  moments they admit and not by the comparison the code makes.
- `NobodyOverspends`: however a grant is split, everybody beneath it together
  stays within its budgets, in any window.
- `WholeChainPermits`: a call is decided only by a chain of which every link, up
  to the document in force, permits it now and stands; under a hop, only by that
  hop; under an envelope, only as opened by somebody entitled and within the time
  it allows today.
- `OneLegAfterTheCut`: once nothing covers a call, it begins at most one leg more.

Identity (`Identity`):

- `BlindnessIsBounded`: no credential is admitted once its revocation has stood in
  the source for longer than `max_staleness`, whatever failed, was rewritten within
  one tick, or was half consumed by another thread.
- `TurnedAwayForCause`: a good credential is turned away only while the source is
  failing, another thread is asking, its key is new, or its file has not been
  written for as long as the bound. So a feed recovers after an outage. Two margins
  are part of the statement: `max_staleness` has to leave room for the poll
  interval and twice the timeout (`Patient`), because a slow poll that ends last dates
  the feed by its own beginning; and a key exactly as old as an interval and a
  fetch may still be missed, where the interval is 0.

The receipt chain (`ReceiptChain`):

- `ChainVerifies`: an undamaged chain verifies at every moment.
- `PruneAddsNoBreak`, `LossIsReported`: on a damaged one, a prune adds no break,
  and a lost row stays reported until a prune accounts for it.
- `HeldEvidenceStays`: nothing a live hold covers is deleted.
- `SpendSurvives`: no charge that counts toward some window is deleted.
- `ErasureIsWitnessed`: what was erased is on record outside.
- `NoFalseTamper`, `CacheIsHonest`: anchors never accuse an honest store.
- `KeepsEvidence`: all of it together implements `EvidenceLog`.

## 4. The runs

| Run | Asks | Instance |
|---|---|---|
| `store` | is the store consistent, is its promise kept, is what is consumed what was checked? | 2 keys, 2 actions, 4 hashes, 1 request, 2 people and unverified answers, threshold to 2, 2 continuation values, one line with limit 2 over 1 tick and 3 over 2, 2 worlds, clock to 3, lag 1; three scenes |
| `kernel` | duplicates, refunds, double use, false FAILED, false receipts, through the kernel alone and through the gateway | 7 calls on 2 keys and none, 2 resumptions, 2 hashes, 2 requests, ceiling 3, a hook, a one-unit budget, 1 elicitation round, clock to 3; five scenes |
| `kernel_liveness` | does every call end, with crashes, and is each of its steps the store's? | 4 calls (one without a key, one too dear for its budget), 1 resumption, hook eager and blocking, 2 requests and unverified answers, which a threshold of 1 admits, ceiling 1, lag 1, clock to 2; three scenes |
| `postgres` | does the backend implement the store, and tell the truth, across lost COMMITs? | 3 clients in seven casts, 2 keys, 2 lines, 2 tries of a grant, clock to 2 |
| `authority` | who is admitted, and does a chain permit only what all of it permits? | 2 documents (wide and delegable; narrow, shorter and not delegable), 2 delegations or opened envelopes, 2 calls, 2 requests, clock to 2; 2 threads, 2 keys, a polled feed or a file, bound 2, intervals of 1, timeout 1, clock to 4 |
| `chain_prune` | races of prunes, writers and a scheduled anchor | 2 prunes, 1 anchoring process, 4 receipts, 2 anchors, the weaker lock |
| `chain_spend` | is authority handed back, is held evidence deleted, does a prune hide damage? | 1 pruning process, 1 hold, 1 key, 4 receipts, 1 damaged row, clock to 3, window 1, `--older-than` 2, one writer |
| `missing_receipt` | finding 1 | 2 calls |
| `stale_resumption` | finding 2 | 2 calls, 1 resumption |
| `prune_charge_race` | finding 3 | 1 prune, 1 key, the weaker lock |
| `self_approval` | finding 4 | 1 call, 1 request, 1 person |
| `continuation_args` | finding 5 | 1 call, 1 resumption |

**Scenes.** A run whose question has several independent parts explores them side
by side in one state space: a scene is a predicate that says which actors take
part and which counters move, and a step must stay inside one (`SceneSpec` in the
MC module). Each action is the whole specification's; a scene only leaves
behaviours out, so safety is checked over those it keeps.

- `store`: *holders* (actions that cost nothing, continuations, and, while one
  key at most is taken, answers and expiry), *budget* (retries and charges of
  one worker under both windows, a human resolving before the last tick),
  *gates* (one call between asking or presenting and its end, with a rival for
  its key and everybody else's answers around it, threshold 1).
- `kernel`: calls that *spend*; calls and *resumptions*, with the spender that
  has no key; calls that present *one approval*, one of them keyless, while the
  policy is relaxed under them; posts that *elicit* and one continuation, with
  the held action's arguments and key or with another's (finding 5); *posts*
  that may ask. No process crashes in this run: a call that stalls at a step for
  ever is a behaviour of it, and leaves the others what a crash does. `Crash`
  itself fires in `kernel_liveness`, where fairness lets no call stall. The
  clock stops where the scene has nothing left that waits for it, and the hook
  answers in the second and third scene and in the last.
- `kernel_liveness`: two calls of one effect that need no approval and a
  resumption; a call and another of the same action without a key, which
  presents what the first one asked for; a call its budget refuses. The scenes
  are an `ACTION_CONSTRAINT` there, and all it cuts off are calls not yet made
  and resumptions not yet begun, which are under no fairness, the answer
  "approve" where the scene has none, and the deaths of the others than the
  first call: a call that is made keeps a step wherever it has one.
- `authority`: one call, until it ends, while plans and the clock move and
  either a narrower document comes into force or something is revoked; two calls
  that spend under one document; one credential and a polled feed, or a file;
  two credentials and fetched keys, one of which comes and goes. A plan goes on
  being written only until the call starts. A revocation is written at the first
  moment, what moves against it is the rest; the source fails once or recovers
  once, early where it is not a file, and a file is rewritten only when what it
  lists changes.
- `postgres`, by its casts: two workers that share an action id on one key and a
  human, with the clock at rest (*Sharing*); the two workers, one of which
  outlives its lease (*Lapsing*); two that spend from the same two lines
  (*Racing*); two that present one approval (*Presenting*); a quorum of which
  one answers twice (*Counting*); a grant and a denial (*Refusing*); a suspended
  worker and two resumptions (*Resuming*). The constraints (`Question`, `Clock`)
  leave out requests that no client could use and let the clock tick where a
  lease, a window or a deadline is being decided on; they hold back no step of a
  client or of the server, which are what fairness is about.
- `chain_prune`: at most two processes are in the middle of something at once,
  and a prune asks for the first receipt or the first two (`Pairwise`).
  `chain_spend`: what spends and the clock meet a prune in one behaviour, a hold
  and a lost row in another (`Apart`).

**Why the bounds are enough.** The hazards are races of two parties over one
row, at most with a third that retries: three calls give one that holds, one
that contends and one that arrives after. Approvals need four: one asks, two
present what it was granted, and one presents it for another action. A call
reserves at most twice (the second time after a hook's answer), but wins its key
once, so with as many attempts (`MaxAttempt`) as calls that may share a key the
bound refuses no reservation in a kernel run. The clock bound (`MaxTime`) leaves a lease and
an approval of one tick to lapse, and a renewal after it. In the budget scene both
windows slide past a charge and each of the limits binds. The theorems of section
7 remove the bounds for the store, the gates, the kernel, the gateway and the
PostgreSQL store.

For PostgreSQL, two clients make a race and a third is the human, the rival or
the second resumption; a lost COMMIT may be lost once more, which is as often as
the code re-issues. Every job meets every job it shares a row with in some cast. For authority, two links below
a root are one more than a parent and a child, so revocation, expiry or narrowing
may strike above, at or below the hop; the theorems about authority remove that
bound, and those about identity remove the ones on threads, keys, moments and failures.

For the chain, `MaxSeq` of 4 leaves room for two prunes, each with its receipt of
intent, and for a receipt of outcome or of another writer between them; two
anchors are one of each kind, or one on each side of a prune. Damage, holds and
spending need one prune to act and one to follow it, and one row, hold and key to
lose; the theorems about the chain (section 7) remove those bounds. The
passing runs stay off the conditions under which the code breaks its word: the
weaker lock for `SpendSurvives` (finding 3), a range equal to the window
(section 7), and an anchor of the empty chain (`AnchorEmpty`). Of the last: the
head row exists before the first receipt, so `make_anchor` does not refuse, and
the anchor it makes is later reported as `anchor_broken`; `NoFalseTamper` fails
in `chain_prune` as soon as `AnchorEmpty` is `TRUE`.

**Symmetry** is declared only over model values that no constant and no scene
distinguishes: keys, actions, people and worlds in `store`; in `kernel`, `c3` and
`c4`, and `d1` and `d2`, which have the same hash and key (the action id of a call is
the call itself, so it moves with it), and the resumptions; the threads in
`authority`; the pruning processes. The runs with a liveness
property declare none.

**Deadlock** checking is off: the clock is bounded and a run of finitely many
calls really stops when all of them have ended.

**Fairness.** `FairKernelSpec` is weak fairness of each call's own steps
(`Progress(c)`): a live process runs its thread, and an executor returns, raises
or is timed out. Nothing is assumed of humans, of the clock, of the remote, of
other calls' progress or that a process stays alive: `EveryCallEnds` counts a
crash as an end. What it rules out is a call that waits for ever on the kernel:
a hook asked again and again, a retry chased by other writers, a release that
never gets through. `FairPostgresSpec` is weak fairness of each client's steps
and of `Decide`: a client runs on, and a server rolls back or commits what a dead
connection left, which is what ends the wait for its rows.

## 5. Findings

1. **A refusal without a receipt** (`missing_receipt`). `execute` handles
   `DuplicateEffect` and `AmbiguousEffect` around `begin_execution`. If, between
   the reservation and the begin, the lease lapses, a contender declares the
   record AMBIGUOUS and a human resolves it FAILED, `_checked` raises
   `InvalidArgument`, which no handler names: the call ends without evidence.
2. **A continuation outlives its attempt** (`stale_resumption`).
   `docs/SPEC-v0.2.md` says a continuation is admitted only if its effect is held
   *by that action id*. `_continuable` compares none, and a renewed reservation
   does not clear the row, so a lapsed attempt's continuation is admitted while
   a later attempt of another action is executing. `ActsArePardoned` shows the
   damage is bounded: the effect still happens at most once more than somebody
   pardoned. It also has a cost: where a third call joins in, the later attempt
   can be recorded FAILED on its executor's `NotExecuted` while the stale leg's
   request is under way, which is why `FailedProvesNothing` sets such legs aside.
3. **A prune may delete a live charge on PostgreSQL** (`prune_charge_race`). The
   lock is the head row, reservations do not take it, and `delete_prefix` deletes
   by effect key: a key whose last attempt had FAILED when it was checked can be
   reserved and charged before the delete.
4. **A grant that lands between the recheck and the take** (`self_approval`).
   `_check_approver` stands aside for a record it reads pending, and without a
   precondition `_recheck` returns on that read. A grant by the requester that
   lands before the store call is consumed, and nobody compares who answered.
   With a precondition the same read refuses the call, as the docstring of
   `_recheck` explains for preconditions; `ApproversWereChecked` shows that there,
   and wherever the grant was there to be read, the check holds.
5. **A continuation of another action** (`continuation_args`). The specification
   admits a continuation only if its arguments are the held action's; `_continue`
   and `Control.resume` compare only the `requestState`, and the executor forwards
   the posted arguments under the held action's reservation and approval.

Read in the code and not made a run, because no property here is about it: the
round counter is kept per effect key and a new attempt does not reset it
(`state.py` 2180-2195, `postgres.py` 1879-1889), so a later attempt's first
elicitation may be declared AMBIGUOUS as one too many; `_over_the_round_bound`
(`gateway/server.py` 995-999) reads the record after the counter and marks it
under the action id it finds there; and the key of a continuation's bound is
resolved from the posted action. Each errs to AMBIGUOUS, which is the safe side.

## 6. What TLC alone shows

What is a promise that something happens: liveness (`EveryCallEnds`,
`EveryOperationEnds`) is outside the proof system's reach. Every other property of a
passing run is stated by a theorem.

## 7. What is proved

All for arbitrary constants satisfying `StoreConstants` (lengths are natural
numbers, costs and limits are natural numbers, the null values are not members
of the sets they stand outside of), which TLC evaluates on every run.

- `TypeCorrect`: `TypeOK`, by one lemma per family of transactions.
- `RecordsAlwaysAgree` (`RecordsAgree`: a lease exists exactly while an attempt is
  unfinished, and a resolver is named only on what it settled),
  `ChargesAlwaysFollow`, `OneChargeAlways`. The argument: a step does one of five things to records and ledger
  (`StepKinds`: takes a free key, moves a holder's attempt on, fails it, extends
  a lease, resolves an unknown), and each fact is shown per kind. The inductive
  invariant is `TypeOK /\ RecordsAgree /\ ChargesFollowEffects`.
  `ChargesFollowEffects` is not inductive alone: the step that matters is a
  reservation, which makes older attempts' rows no longer the latest, so they
  must already be released. That a free key holds no charge
  (`FreeHoldsNothing`) needs `RecordsAgree`: a `"new"` record has attempt 0, so
  no row can name it, and a FAILED one has released its rows.
  `OneChargePerAttempt` follows because a new attempt's number is beyond every
  number the ledger names for the key.
- `StoreKeepsPromise`: the refinement. With the invariant, each kind of step maps
  to one action of `LogicalEffect` or to a stutter; `begin_execution` and a lease
  extension are the stutters.
- `QuorumAlways`, `AnswersStayFinal`: likewise over what a step may do to one
  request (`ApprovalStepKinds`).
- `BudgetsHold`: `WithinBudget`, for every window, limit, cost and lag. Whoever
  charges a line last had a reading no later than `now`, so the window it checked
  begins no later than the one the property looks at, and holds every charge that
  one holds. The lemmas are about cardinalities: what is spent is the size of a set
  of charge units, which a release only shrinks and time only slides past.

The gates, for the same constants and `GatesSpec`, which is shown to implement the
store's `Spec` (`GatesUseStore`), so that the theorems above hold behind them:

- `GatesAreSound`: the invariant `GatesInv`. It says of a call at each program
  counter what of its reads is still true whatever others wrote since: a request
  that exists keeps its hash and its fingerprint, a grant that was read keeps its
  answers, and what held at some moment of this pass is remembered.
- `AlwaysCheckedInThisPass`, `ApproversAlwaysChecked`, `NothingEverLeftToSpend`
  follow from it; the second rests on an answered request's being
  final.

The kernel, for constants satisfying `KernelConstants`, and from `Kernel_pardons` on
also `OneCallPerAction`:

- `CallsAreOrderly`, `KernelIsTyped`: `CallOK`, a case for every program counter.
  Everybody else's step leaves a call's own record alone, so each action disturbs
  one call; what it may do to the tables is one of the store's kinds of step.
- `KernelUsesStore`: `KernelImplementsStore`, step by step (`Deed`), and from it
  `KernelKeepsTables` and `KernelKeepsPromise`: what the store's theorems say.
- `AttemptsAreNumbered`, `CeilingAlwaysHolds`, `ApprovalsRunOnce`, `LegsAreSolo`,
  `LegsArePardoned`, `FailuresAreProven`, `ReceiptsStayTrue`,
  `ChargesAreAlwaysEarned`. Each ties a call's program counter to the record it
  reserved: a call that won an attempt is that attempt's only caller (`Numbered`);
  an approval it consumed names it for good (`SpendsOwn`); an action has one running
  leg or one held continuation (`Solo`, `Named`); and when the record moved on while
  a request may still act, a pardon is on file for the attempt (`Pardoned`).
- `ActsAreAlwaysPardoned`: `ActsArePardoned`. The count is the invariant (`Counted`):
  the legs of an effect that acted or still may, with one more for a continuation
  that waits to be taken, are at most the pardons and the one attempt that is
  outstanding or done. A reservation adds a leg only where the record was free,
  which is where that one had been given up or pardoned.

The gateway, for the same constants and `GatewayConstants`. It replaces the kernel's
executor and remote: an upstream may run later what it answered with a question, and a
record may be declared unknown under a call that is not told.

- `GatewaySteps`, the lemma the rest stands on: a step of the gateway is a step of one
  call as the kernel's lemmas know it (`Deed`), one of somebody outside, an upstream
  that runs what it had answered (`Wakes`), or a record declared unknown past the round
  bound (`Closes`). So every invariant of the kernel needs two more cases, not a proof
  of its own. `PostsAreOrderly`: the kernel's `CallInv` and the shape of a post.
- `GatewayUsesStore`, `GatewayKeepsTables`, `GatewayKeepsPromise`: what the store's
  theorems say holds behind the gateway.
- `GatewayFailuresAreProven`: `NothingFailedWhileHeld`, and with it
  `GatewayProvesFailures`. Inductive is the stronger `Unheld`, that no leg of the
  *action* a record failed under is held, and `Trailed`, that whatever is resumed was
  led by a call of `execute` that was answered with a question. A continuation cannot
  prove a failure, and a call that can has led nothing yet.
- `RefusalsAreFinal`: `NoIsAnAnswer`, by `Noted` (what was refused stays refused, for
  the same hash) and `LapsedNoes`: from the look for a refusal on, whatever the post
  noted has lapsed, and time does not bring it back.
- `GatewayKeepsPromises` (`OneRunPerApproval`, `CeilingHolds`, `ReceiptsAreTrue`) and
  `GatewayChargesAreEarned`. `Pardoned` is too weak here, since a call that ended on a
  question may still run: `HeldPardoned` counts it among what needs a pardon.
- `GatewayActsArePardoned`: `ActsArePardoned`. The kernel's count (`Counted`) does not
  hold here, because a leg that was asked and one that continues it are both open. What
  ran is mapped to the call that leads its exchange instead: an exchange runs once
  (`RunOnce`), its leader has a number of its own (`Numbered`), and every such number
  but the last was pardoned.

`OneCallPerAction` is needed where an attempt is told from another by the id its
record names, as the kernel itself does in `_checked`.

The PostgreSQL store, for any number of clients, keys, lines and lost COMMITs, under
`StoreConstants` and `PostgresSpec`:

- `PostgresInvariant`: the invariant `PostgresInv`. It says at each program counter
  what a client is still sure of after reads that took no lock (`Knows`), and that
  whatever waits in doubt is a transaction of its client's job that no other client
  can overtake (`Doubtful`). A step lands at most one transaction, so each of the
  theorems below is shown per landing, and then once for the steps that land none.
- `OneHolderAlways`: `OneHolderPerAttempt`, by `HoldersInv`: the number a client was
  told is not ahead of the record, and while it is the record's, the stamp there is
  nobody else's (`Numbered`).
- `AnswersAlwaysTrue`: `AnswersAreTrue`, by `AnswersInv`. Whoever was told of a
  reservation, or would find its own stamp on it, has its rows on the ledger, and is
  the only such client of its approval (`SpentOn`); the stamp and the rows landed
  together, so recognising one's own write is knowing all of it.
- `OneTakeAlways`: `OneTakePerValue`, by `TokensInv`: a value stands in one row, in
  one transaction in doubt, and once taken nowhere (`Gone`). The attempt at this
  proof showed that a hold must wait for another's hold of the same value while
  that is in doubt, as the unique index makes it; the model had let it through.
- `PostgresRefinesStore`: `PostgresImplementsStore`, landing by landing. The case
  that needs an invariant of its own is a reservation: the sums it was priced on
  must still allow it when it lands, perhaps long after. They do because the anchors
  of its lines are held from the pricing to the decision (`OneAtAnAnchor`,
  `Priced`), and meanwhile nobody else adds to those lines.
- `PostgresWithinBudget`: `WithinBudget` on this backend, late writes included.

The last two assume `MaxTime <= ClockLag` and `[]AttemptsBounded`. A transaction in
doubt may land any time after its clock was read, so no reading may be too old for
the store's steps: `ClockLag` bounds the age of a reading there and must bound
nothing here. `AttemptsBounded` is the guard `MaxAttempt` of the store's model,
which the PostgreSQL module does not repeat. Neither says anything of the code.

Delegation, for arbitrary constants satisfying `AuthorityConstants`:

- `StoreIsTyped`: records are of the two kinds a caller can make, stand beneath
  something older, and nothing api-made stands beneath an envelope.
- `DelegationsAttenuate`: `Attenuated`. The put checks nothing again, so the
  invariant speaks of the plan as well (`PlanNarrows`): whatever was checked
  against a delegation still holds when it is put, because a record's grant and
  parent never change; only its revocation does. `StoreIsTyped` is needed to know
  that a new record's parent is an old one. That the comparison of budgets bounds
  what may be spent, and does not only look right, is the lemma `BudgetsBind`: a
  series of moments that fits the child's budgets fits the parent's, because the
  parent's shorter window lies within the child's longer one.
- `EveryLinkIsAsked`: `WholeChainPermits`, though `Climb` and `Upward` are
  recursive functions and induction is out of reach here. What is true of every
  number is shown by a least counterexample (`AllNumbers`, by the well-foundedness
  of the naturals), and each function's equation is all that is used of it.
- `BudgetsAboveHold`, `OneLegAtMost`: by `CallsOK`, that a call was charged for
  everything stated above it (`Priced`) on a chain of records that still exist, and
  that one which is idle, decided or suspended has begun no leg past a cut.

Identity, for arbitrary constants satisfying `IdentityConstants`:

- `IdentityIsTyped`, and `DateIsEarned`: a feed holds every revocation older than the
  moment it claims to have read, less `Slack` for a file. A poll claims its beginning
  and a file the end of its read, so the invariant follows each refresh, from its
  first reading of the clock to what it consumed, past any other thread's.
- `RevocationIsSeen`: `BlindnessIsBounded`, from that and from how late after its
  `stale` check a call may look the subject up.
- `TurnedAwayIsForCause`: `TurnedAwayForCause`, by following a mark (`CauseInv`). Once
  a fetch or a poll is marked, what it was made for is there, or the source was
  down since, or a thread is still at it; the same then holds of every call that is
  between its look and its verdict. An answer that was overtaken is at most one
  timeout older than whatever was installed before it, which is where the margins of
  the property come from: with less, TLC finds a call turned away for nothing (a
  timeout of 2, an interval of 1 and a bound of 3; or an interval of 0 for the keys).

The receipt chain, for arbitrary constants satisfying `ChainConstants`:

- `ChainTypeCorrect`: `TypeOK`, with the provider's anchors a finite set (tokens
  count them). Its last conjunct, the lock is held exactly by a prune at work, is
  what the rest leans on. `Greatest` shows that `max` over some receipts is one
  of them, from the well-foundedness of the naturals.
- `HeldEvidenceSafe`: the invariant is that a prune at work has no live hold under
  its range (`HoldsRespected`), which no new hold can disturb because placing one
  waits for the lock; `Numbered` (a lost number is never used again) tells a
  prune's deletions from damage.
- `CacheAlwaysHonest`, `ErasureAlwaysWitnessed`: by `Witnessed`, that whatever a
  process remembers having told the provider, the provider holds.
- `SpendingSafe`, assuming `OneWriter` and `Window < OlderThan`: by `Spent`, that
  the ledger still says what it said when it was consulted, and that a held row's
  effect is unsettled or committed. Finding 3 is what happens without the
  first. The second is strict because `_spent` counts a charge exactly one window
  old and the prune's check lets it go.
- `PruneIsHarmless`: `PruneAddsNoBreak`. A prune at work knows the mark of its range
  and that no break would be caused by it (`Foreseen`), and nothing that others
  do before its commit makes a row of the range unreadable or moves the head back.
- `LossAlwaysReported`: `LossIsReported`; a lost number is never given out again, so
  the rows around it never join.
- `AlwaysVerifies`: `ChainVerifies`, by `Whole` and `SoundlyLinked` (each row's hash
  extends that of the row before it, down to the checkpoint).
- `NeverAccused`, assuming `~AnchorEmpty`: `NoFalseTamper`, by `SoundlyShown`: what was
  ever shown to the provider is what the chain says, or said before a prune that the
  provider knows of. Without the assumption the statement is false, as section 4
  says.
- `ChainKeepsEvidence`, assuming no damage (`MaxDamage = 0`): by `Whole`, that the
  rows run without a gap from checkpoint to head, so what a prune marks is what it
  was asked for; each step is then an append, a word to the provider, an erasure
  or a stutter (`FourKinds`).

## 8. Plan

What is left is breadth. The operator server and the webhook would each be a module in
front of the approvals, the policy's evaluation a pure function to check against a
reference, and observe mode a second `Next` of the kernel that only reads.

## 9. Not modelled, and why

- **Observe mode**: the reads of enforce mode, with refusals recorded and not
  raised; it writes only receipts and events.
- **Policy**: a pure evaluation. The kernel and the gateway take its decision as
  an input, which may differ between two calls.
- **Of a revocation feed**: which event types revoke and how a subject is matched
  (an event names a credential here), a feed without a bound (which never refuses),
  and a transmitter with more than the 100 events one poll asks for: the poll
  acknowledges none, so what the transmitter does with the rest is its own.
- **Webhook and operator server**: signature, timestamp, nonce and identity checks
  in front of `grant_approval`, `deny_approval` and `resolve_effect`, which are
  modelled for answers in any order and number.
- **Upstream pin, receipts without a position** (written before the chain existed),
  **the milder anchor breaks** (missing, repudiated).
- **Records that cannot be read**, or were edited by hand, in the authority store,
  and the cycles of parents that only those can contain.
- **Event log**: it decides nothing in the modelled paths.
- **Bytes**: canonical JSON, hashing, key templates, signatures, SQL text,
  migrations, headers and framing. Hashes and keys are values, equal exactly when
  the digests are.
- **Reporting, coverage, export, scanning, conformance and verify suites**:
  read-only, or tests themselves. They are a large part of the source tree, and
  nothing in them changes what a call may do.
- **Framework adapters**: wrappers that call `execute`.
- **Bytes of a token**: signature, type, audience and window. `Identity` starts
  with a credential in which all of that is in order; the other models see the
  verified principal, or `Nobody` where there is none.

Assumptions that stand for code outside the models: an approval, grant or
delegation id names one thing and stays in its section of a document; the ids a
caller presents exist; a call that reuses another's action id is modelled only in
`PostgresStore` (elsewhere each call has its own, see section 2); a window of the
ledger is closed at both ends, as `_spent` computes it.
