---------------------------- MODULE ReceiptChain ----------------------------
(***************************************************************************)
(* The receipt chain, its anchors outside the store, and the one operation *)
(* that destroys evidence: a prune, with the holds and the ledger rows it  *)
(* must respect.                                                           *)
(*                                                                         *)
(* A prune is several steps between which other processes run: it writes a *)
(* receipt of its intent, takes the receipt-write lock, checks, calls the  *)
(* anchor provider, and only then deletes.  Its writes are one             *)
(* transaction: a crash or a refusal leaves the store as it was, but not   *)
(* the provider, which keeps what it was told.                             *)
(*                                                                         *)
(* What the lock excludes is the backend.  SQLite admits one writer, so    *)
(* nothing at all is written while a prune runs (OneWriter).  PostgreSQL   *)
(* locks one row: receipts, holds and prunes wait, reservations do not.    *)
(*                                                                         *)
(* A receipt's hash covers its body and the hash before it, so it is here  *)
(* the sequence of the bodies up to it.                                    *)
(***************************************************************************)
EXTENDS Integers, Sequences, FiniteSets, FiniteSetsExt, Functions

CONSTANTS
    Keys,         \* effect keys
    Pruners,      \* operators' processes that prune
    Anchorers,    \* processes that anchor the head, as a schedule does
    Holds,        \* hold ids
    OneWriter,    \* TRUE: the lock excludes every writer (SQLite)
    Window,       \* the longest window of any budget
    OlderThan,    \* what the operator passes as --older-than
    AnchorEmpty,  \* TRUE: somebody may anchor before the first receipt
    MaxSeq,       \* bound: receipts written
    MaxAttempt,   \* bound: attempts per key
    MaxAnchors,   \* bound: anchors the provider holds
    MaxDamage,    \* bound: rows damaged from outside
    MaxTime,      \* bound: the clock
    NoHash, NoOne

ASSUME ChainConstants ==
    /\ OneWriter \in BOOLEAN /\ AnchorEmpty \in BOOLEAN
    /\ Window \in Nat /\ OlderThan \in Nat
    /\ MaxSeq \in Nat /\ MaxAttempt \in Nat /\ MaxAnchors \in Nat
    /\ MaxDamage \in Nat /\ MaxTime \in Nat
    /\ NoOne \notin Pruners \cup Anchorers

Procs == Pruners \cup Anchorers

VARIABLES
    rows,        \* the chained receipts, by seq
    head,        \* the head row: a Point
    checkpoint,  \* the checkpoint row: a Point, Genesis when nothing was pruned
    holds,       \* the row of each hold
    effects,     \* state and attempt of each key
    ledger,      \* the rows of the budget ledger
    anchors,     \* the store's cache of anchors
    provider,    \* the anchors the provider holds
    jobs,        \* what each process is in the middle of
    lock,        \* who holds the receipt-write lock
    damaged,     \* history: the rows damaged from outside
    now          \* the clock

evidence == <<rows, head, checkpoint>>
spending == <<effects, ledger>>
vars == <<rows, head, checkpoint, holds, effects, ledger, anchors, provider, jobs,
          lock, damaged, now>>

-----------------------------------------------------------------------------
(* Rows *)

(* A receipt is about an effect, or is one of a prune's two, or is neither. *)
Notes == {"proposed", "completed", "refused", "other"}
Bodies == Keys \cup Notes

ASSUME NoHashIsNone == NoHash \notin Seq(Bodies)

Hashes == Seq(Bodies) \cup {NoHash}
Points == [seq : Nat, hash : Hashes]
Genesis == [seq |-> 0, hash |-> <<>>]

ReceiptRow == [body : Bodies, prev : Hashes, hash : Hashes, readable : BOOLEAN]
HoldRow == [status : {"none", "live", "released"}, from : Nat, to : Nat]
EffectRow == [state : {"none", "unsettled", "committed", "failed"}, attempt : Nat]
LedgerRow == [key : Keys, attempt : Nat, at : Nat, held : BOOLEAN]

Kinds == {"interval", "checkpoint"}
Anchor == [token : Nat, seq : Nat, hash : Hashes, kind : Kinds, at : Nat]

Steps == {"idle", "proposed", "opened", "cleared", "anchored", "completed", "refused",
          "anchoring", "made"}
Job == [step : Steps, through : Nat, mark : Points, keys : SUBSET Keys, asOf : Nat,
        kind : Kinds, token : Nat, at : Nat]
NoJob == [step |-> "idle", through |-> 0, mark |-> Genesis, keys |-> {}, asOf |-> 0,
          kind |-> "interval", token |-> 0, at |-> 0]

(* A hold with no upper end: "and everything written after it". *)
Unbounded == MaxSeq + 1
Covers(h, n) == holds[h].status = "live" /\ holds[h].from <= n /\ n <= holds[h].to

-----------------------------------------------------------------------------
(* verify_chain: the walk, as the set of breaks it names *)

ChainHash(row) == Append(row.prev, row.body)

Below(rs, n) == {m \in DOMAIN rs : m < n}

(* expected_seq and expected_prev when the walk reaches n *)
ExpectedSeq(rs, start, n) ==
    IF Below(rs, n) = {} THEN start.seq + 1 ELSE Max(Below(rs, n)) + 1

ExpectedPrev(rs, start, n) ==
    IF Below(rs, n) = {} THEN start.hash
    ELSE LET m == Max(Below(rs, n))
         IN IF rs[m].readable THEN ChainHash(rs[m]) ELSE NoHash

Last(rs, start) == IF DOMAIN rs = {} THEN start.seq ELSE Max(DOMAIN rs)

(* Defect: the head is believed. *)
HeadTrusted(rs, hd, start) == {}

HeadBreaks(rs, hd, start) ==
    IF hd = [seq |-> Last(rs, start), hash |-> ExpectedPrev(rs, start, Last(rs, start) + 1)]
    THEN {} ELSE {<<"head_mismatch", hd.seq>>}

Altered(row) == ~row.readable \/ row.hash \notin {NoHash, ChainHash(row)}

Breaks(rs, hd, start) ==
    {<<"missing", ExpectedSeq(rs, start, n)>> :
         n \in {m \in DOMAIN rs : m # ExpectedSeq(rs, start, m)}}
    \cup {<<"content_altered", n>> : n \in {m \in DOMAIN rs : Altered(rs[m])}}
    \cup {<<"hash_missing", n>> :
              n \in {m \in DOMAIN rs : rs[m].readable /\ rs[m].hash = NoHash}}
    \cup {<<"link_broken", n>> :
              n \in {m \in DOMAIN rs :
                        rs[m].readable /\ rs[m].prev # ExpectedPrev(rs, start, m)}}
    \cup HeadBreaks(rs, hd, start)

(* What the store reports about itself now. *)
Reported == Breaks(rows, head, checkpoint)

-----------------------------------------------------------------------------
(* verify_anchors, the break that reads as tampering: an anchored pair the chain no   *)
(* longer shows, unless a checkpoint accounts for it that the provider itself vouches *)
(* for.                                                                               *)
Accounted(a) ==
    /\ checkpoint.seq > 0 /\ a.seq <= checkpoint.seq
    /\ \E b \in provider : b.kind = "checkpoint" /\ [seq |-> b.seq, hash |-> b.hash] = checkpoint

(* Defect: an anchored row that is absent is broken, pruned or not. *)
BrokenIfAbsent(a) == a.seq \notin DOMAIN rows \/ rows[a.seq].hash # a.hash

AnchorBroken(a) ==
    IF a.seq \in DOMAIN rows /\ rows[a.seq].hash # NoHash
    THEN rows[a.seq].hash # a.hash
    ELSE ~Accounted(a)

-----------------------------------------------------------------------------
(* The decisions of a prune *)

Readable == {n \in DOMAIN rows : rows[n].readable}
Prefix(n) == {m \in Readable : m <= n}

(* The checkpoint names a receipt that was there. *)
Mark(n) == [seq |-> Max(Prefix(n)), hash |-> rows[Max(Prefix(n))].hash]

Kept(n) == Restrict(rows, {m \in DOMAIN rows : m > n})
KeysOf(n) == {rows[m].body : m \in Prefix(n)} \cap Keys

(* _held_by: a live hold that starts in the prefix. *)
HeldBack(n) == \E h \in Holds : holds[h].status = "live" /\ holds[h].from <= n

(* Defect: the reader is not asked what it would say afterwards. *)
CausesAnything(n) == FALSE

(* Rule 2, over what the reader would say of the store after the prune. *)
CausesABreak(n) == ~(Breaks(Kept(n), head, Mark(n)) \subseteq Reported)

(* Defect: the newest receipt may go as well. *)
PrunableToTheHead(n) ==
    /\ Readable # {} /\ n <= Max(Readable)
    /\ checkpoint.seq < n
    /\ ~HeldBack(n)
    /\ Prefix(n) # {}
    /\ Mark(n).hash # NoHash
    /\ ~CausesABreak(n)

(* _prune_locked up to its ledger check, every refusal a conjunct. *)
Prunable(n) ==
    /\ Readable # {} /\ n < Max(Readable)
    /\ checkpoint.seq < n
    /\ ~HeldBack(n)
    /\ Prefix(n) # {}
    /\ Mark(n).hash # NoHash
    /\ ~CausesABreak(n)

(* Defect: a committed charge is history. *)
LedgerSettled(keys, t) ==
    \A r \in ledger : r.key \in keys => effects[r.key].state # "unsettled"

(* _ledger_refusals: settlement, and then the window. *)
LedgerClear(keys, t) ==
    \A r \in ledger :
        r.key \in keys =>
            /\ effects[r.key].state # "unsettled"
            /\ effects[r.key].state = "committed" => r.at <= t - OlderThan

(* A row counts toward a budget: _spent has a window closed at its floor. *)
Counted(r) == r.held /\ now - r.at <= Window

(* _require_ordering and _require_time_moves_forward, per kind. *)
InOrder(kind, seq) == \A a \in anchors : a.kind = kind => a.seq < seq
InTime(kind, at) == \A a \in anchors : a.kind = kind => a.at <= at

-----------------------------------------------------------------------------
(* Who may write *)

ChainFree == lock = NoOne

(* Defect: a hold does not wait for a prune. *)
HoldsFreely == TRUE

HoldFree == lock = NoOne

Writable == OneWriter => lock = NoOne

(* Defect: the new receipt does not link to the head. *)
AppendUnlinked(body) ==
    /\ head.seq < MaxSeq
    /\ rows' = [n \in DOMAIN rows \cup {head.seq + 1} |->
                   IF n \in DOMAIN rows THEN rows[n]
                   ELSE [body |-> body, prev |-> <<>>, hash |-> <<body>>, readable |-> TRUE]]
    /\ head' = [seq |-> head.seq + 1, hash |-> <<body>>]

(* put_receipt: the head row is the lock; the row and the head in one transaction. *)
AppendReceipt(body) ==
    /\ head.seq < MaxSeq
    /\ LET row == [body |-> body, prev |-> head.hash, hash |-> Append(head.hash, body),
                   readable |-> TRUE]
       IN /\ rows' = [n \in DOMAIN rows \cup {head.seq + 1} |->
                         IF n \in DOMAIN rows THEN rows[n] ELSE row]
          /\ head' = [seq |-> head.seq + 1, hash |-> row.hash]

(* A call of the kernel leaves its receipt: about its effect, or about none. *)
PutReceipt ==
    /\ ChainFree
    /\ \E body \in Keys \cup {"other"} :
           /\ body \in Keys => effects[body].attempt > 0
           /\ AppendReceipt(body)
    /\ UNCHANGED <<checkpoint, holds, spending, anchors, provider, jobs, lock, damaged, now>>

PlaceHold(h) ==
    /\ HoldFree
    /\ holds[h].status = "none"
    /\ \E from \in 1..MaxSeq : \E to \in {from, Unbounded} :
           holds' = [holds EXCEPT ![h] = [status |-> "live", from |-> from, to |-> to]]
    /\ UNCHANGED <<evidence, spending, anchors, provider, jobs, lock, damaged, now>>

ReleaseHold(h) ==
    /\ Writable
    /\ holds[h].status = "live"
    /\ holds' = [holds EXCEPT ![h].status = "released"]
    /\ UNCHANGED <<evidence, spending, anchors, provider, jobs, lock, damaged, now>>

(* A reservation with its charge, as EffectStore has them: a key that was never *)
(* taken or whose last attempt FAILED.                                          *)
Reserve(k) ==
    /\ Writable
    /\ effects[k].state \in {"none", "failed"}
    /\ effects[k].attempt < MaxAttempt
    /\ effects' = [effects EXCEPT ![k] = [state |-> "unsettled", attempt |-> @.attempt + 1]]
    /\ ledger' = ledger \cup {[key |-> k, attempt |-> effects[k].attempt + 1, at |-> now,
                               held |-> TRUE]}
    /\ UNCHANGED <<evidence, holds, anchors, provider, jobs, lock, damaged, now>>

(* The attempt ends, by its executor or by an answer about an unknown outcome. *)
Commit(k) ==
    /\ Writable
    /\ effects[k].state = "unsettled"
    /\ effects' = [effects EXCEPT ![k].state = "committed"]
    /\ UNCHANGED <<evidence, holds, ledger, anchors, provider, jobs, lock, damaged, now>>

(* FAILED releases what the key holds, in the same transaction. *)
Fail(k) ==
    /\ Writable
    /\ effects[k].state = "unsettled"
    /\ effects' = [effects EXCEPT ![k].state = "failed"]
    /\ ledger' = {IF r.key = k THEN [r EXCEPT !.held = FALSE] ELSE r : r \in ledger}
    /\ UNCHANGED <<evidence, holds, anchors, provider, jobs, lock, damaged, now>>

-----------------------------------------------------------------------------
(* Anchors *)

NewAnchor(kind, mark) ==
    [token |-> Cardinality(provider) + 1, seq |-> mark.seq, hash |-> mark.hash,
     kind |-> kind, at |-> now]

Made(p) == [token |-> jobs[p].token, seq |-> jobs[p].mark.seq, hash |-> jobs[p].mark.hash,
            kind |-> jobs[p].kind, at |-> jobs[p].at]

(* make_anchor reads the head and its cache ... *)
AnchorHead(p) ==
    /\ jobs[p].step = "idle"
    /\ AnchorEmpty \/ head.seq > 0
    /\ \E kind \in Kinds :
           /\ InOrder(kind, head.seq)
           /\ jobs' = [jobs EXCEPT ![p] = [NoJob EXCEPT !.step = "anchoring", !.mark = head,
                                                        !.kind = kind]]
    /\ UNCHANGED <<evidence, holds, spending, anchors, provider, lock, damaged, now>>

(* Defect: the cache is written before the provider has answered. *)
CachedEarly(p) ==
    /\ jobs[p].step = "anchoring"
    /\ Cardinality(provider) < MaxAnchors
    /\ anchors' = anchors \cup {NewAnchor(jobs[p].kind, jobs[p].mark)}
    /\ jobs' = [jobs EXCEPT ![p].step = "made", ![p].token = Cardinality(provider) + 1,
                            ![p].at = now]
    /\ UNCHANGED <<evidence, holds, spending, provider, lock, damaged, now>>

(* ... asks the provider, which is outside the store and needs no lock ... *)
AnchorMade(p) ==
    /\ jobs[p].step = "anchoring"
    /\ Cardinality(provider) < MaxAnchors
    /\ provider' = provider \cup {NewAnchor(jobs[p].kind, jobs[p].mark)}
    /\ jobs' = [jobs EXCEPT ![p].step = "made", ![p].token = Cardinality(provider) + 1,
                            ![p].at = now]
    /\ UNCHANGED <<evidence, holds, spending, anchors, lock, damaged, now>>

(* ... and caches the answer, unless its time runs backwards. *)
AnchorCached(p) ==
    /\ jobs[p].step = "made"
    /\ Writable
    /\ anchors' = IF InTime(jobs[p].kind, jobs[p].at) THEN anchors \cup {Made(p)} ELSE anchors
    /\ jobs' = [jobs EXCEPT ![p] = NoJob]
    /\ UNCHANGED <<evidence, holds, spending, provider, lock, damaged, now>>

(* The provider raises, having recorded the pair or not. *)
AnchorFails(p) ==
    /\ jobs[p].step = "anchoring"
    /\ \/ provider' = provider
       \/ /\ Cardinality(provider) < MaxAnchors
          /\ provider' = provider \cup {NewAnchor(jobs[p].kind, jobs[p].mark)}
    /\ jobs' = [jobs EXCEPT ![p] = NoJob]
    /\ UNCHANGED <<evidence, holds, spending, anchors, lock, damaged, now>>

-----------------------------------------------------------------------------
(* A prune *)

(* The command writes a receipt of its intent, before any lock. *)
PrunePropose(p, n) ==
    /\ jobs[p].step = "idle"
    /\ ChainFree
    /\ AppendReceipt("proposed")
    /\ jobs' = [jobs EXCEPT ![p] = [NoJob EXCEPT !.step = "proposed", !.through = n,
                                                 !.asOf = now]]
    /\ UNCHANGED <<checkpoint, holds, spending, anchors, provider, lock, damaged, now>>

(* The lock, and every check of the chain, the checkpoint and the holds. *)
PruneOpen(p) ==
    /\ jobs[p].step = "proposed"
    /\ ChainFree
    /\ Prunable(jobs[p].through)
    /\ lock' = p
    /\ jobs' = [jobs EXCEPT ![p].step = "opened", ![p].mark = Mark(jobs[p].through),
                            ![p].keys = KeysOf(jobs[p].through), ![p].kind = "checkpoint"]
    /\ UNCHANGED <<evidence, holds, spending, anchors, provider, damaged, now>>

PruneRefused(p) ==
    /\ jobs[p].step = "proposed"
    /\ ChainFree
    /\ ~Prunable(jobs[p].through)
    /\ jobs' = [jobs EXCEPT ![p] = [NoJob EXCEPT !.step = "refused"]]
    /\ UNCHANGED <<evidence, holds, spending, anchors, provider, lock, damaged, now>>

(* The transaction is rolled back and the lock is free; the provider is not asked back. *)
RollBack(p) ==
    /\ jobs' = [jobs EXCEPT ![p] = [NoJob EXCEPT !.step = "refused"]]
    /\ lock' = NoOne

(* The ledger and the effects it names, which the lock covers only in SQLite. *)
PruneConsult(p) ==
    /\ jobs[p].step = "opened"
    /\ \/ /\ LedgerClear(jobs[p].keys, jobs[p].asOf)
          /\ jobs' = [jobs EXCEPT ![p].step = "cleared"]
          /\ UNCHANGED lock
       \/ /\ ~LedgerClear(jobs[p].keys, jobs[p].asOf)
          /\ RollBack(p)
    /\ UNCHANGED <<evidence, holds, spending, anchors, provider, damaged, now>>

(* The checkpoint is anchored ... *)
PruneAnchors(p) ==
    /\ jobs[p].step = "cleared"
    /\ InOrder("checkpoint", jobs[p].mark.seq)
    /\ Cardinality(provider) < MaxAnchors
    /\ provider' = provider \cup {NewAnchor("checkpoint", jobs[p].mark)}
    /\ jobs' = [jobs EXCEPT ![p].step = "anchored", ![p].token = Cardinality(provider) + 1,
                            ![p].at = now]
    /\ UNCHANGED <<evidence, holds, spending, anchors, lock, damaged, now>>

(* ... or is not, and then nothing is deleted. *)
PruneFails(p) ==
    /\ \/ /\ jobs[p].step = "cleared"
          /\ \/ provider' = provider
             \/ /\ InOrder("checkpoint", jobs[p].mark.seq)
                /\ Cardinality(provider) < MaxAnchors
                /\ provider' = provider \cup {NewAnchor("checkpoint", jobs[p].mark)}
       \/ /\ jobs[p].step = "anchored"
          /\ ~InTime("checkpoint", jobs[p].at)
          /\ provider' = provider
    /\ RollBack(p)
    /\ UNCHANGED <<evidence, holds, spending, anchors, damaged, now>>

(* Defect: the prefix goes before the checkpoint is anchored. *)
DeletedUnanchored(p) ==
    /\ jobs[p].step \in {"cleared", "anchored"}
    /\ InTime("checkpoint", jobs[p].at)
    /\ anchors' = IF jobs[p].step = "anchored" THEN anchors \cup {Made(p)} ELSE anchors
    /\ checkpoint' = IF jobs[p].mark.seq > checkpoint.seq THEN jobs[p].mark ELSE checkpoint
    /\ rows' = Kept(jobs[p].through)
    /\ ledger' = {r \in ledger : r.key \notin jobs[p].keys}
    /\ jobs' = [jobs EXCEPT ![p] = [NoJob EXCEPT !.step = "completed"]]
    /\ lock' = NoOne
    /\ UNCHANGED <<head, holds, effects, provider, damaged, now>>

(* put_anchor, put_checkpoint, delete_prefix and the commit: one transaction. *)
PruneDeletes(p) ==
    /\ jobs[p].step = "anchored"
    /\ InTime("checkpoint", jobs[p].at)
    /\ anchors' = anchors \cup {Made(p)}
    /\ checkpoint' = IF jobs[p].mark.seq > checkpoint.seq THEN jobs[p].mark ELSE checkpoint
    /\ rows' = Kept(jobs[p].through)
    /\ ledger' = {r \in ledger : r.key \notin jobs[p].keys}
    /\ jobs' = [jobs EXCEPT ![p] = [NoJob EXCEPT !.step = "completed"]]
    /\ lock' = NoOne
    /\ UNCHANGED <<head, holds, effects, provider, damaged, now>>

(* The second receipt says what became of the first. *)
PruneTold(p) ==
    /\ jobs[p].step \in {"completed", "refused"}
    /\ ChainFree
    /\ AppendReceipt(jobs[p].step)
    /\ jobs' = [jobs EXCEPT ![p] = NoJob]
    /\ UNCHANGED <<checkpoint, holds, spending, anchors, provider, lock, damaged, now>>

-----------------------------------------------------------------------------
(* The world *)

(* A process dies.  Its open transaction is rolled back. *)
Crash(p) ==
    /\ jobs[p].step # "idle"
    /\ jobs' = [jobs EXCEPT ![p] = NoJob]
    /\ lock' = IF lock = p THEN NoOne ELSE lock
    /\ UNCHANGED <<evidence, holds, spending, anchors, provider, damaged, now>>

(* A row is lost, no longer parses, or loses its hash, by no act of this program. *)
(* It happens between prunes: a prune already under way has read its rows.        *)
Damage(n) ==
    /\ lock = NoOne
    /\ Cardinality(damaged) < MaxDamage
    /\ n \in DOMAIN rows
    /\ \/ /\ rows' = Restrict(rows, DOMAIN rows \ {n})
          /\ damaged' = damaged \cup {<<n, "lost">>}
       \/ /\ rows' = [rows EXCEPT ![n].readable = FALSE]
          /\ damaged' = damaged \cup {<<n, "unreadable">>}
       \/ /\ rows' = [rows EXCEPT ![n].hash = NoHash]
          /\ damaged' = damaged \cup {<<n, "stripped">>}
    /\ UNCHANGED <<head, checkpoint, holds, spending, anchors, provider, jobs, lock, now>>

Tick ==
    /\ now < MaxTime
    /\ now' = now + 1
    /\ UNCHANGED <<evidence, holds, spending, anchors, provider, jobs, lock, damaged>>

-----------------------------------------------------------------------------
Init ==
    /\ rows = <<>> /\ head = Genesis /\ checkpoint = Genesis
    /\ holds = [h \in Holds |-> [status |-> "none", from |-> 0, to |-> 0]]
    /\ effects = [k \in Keys |-> [state |-> "none", attempt |-> 0]]
    /\ ledger = {} /\ anchors = {} /\ provider = {}
    /\ jobs = [p \in Procs |-> NoJob]
    /\ lock = NoOne /\ damaged = {} /\ now = 0

Anchoring(p) == AnchorHead(p) \/ AnchorMade(p) \/ AnchorCached(p) \/ AnchorFails(p)

Pruning(p) ==
    \/ \E n \in 1..MaxSeq : PrunePropose(p, n)
    \/ PruneOpen(p) \/ PruneRefused(p) \/ PruneConsult(p)
    \/ PruneAnchors(p) \/ PruneFails(p) \/ PruneDeletes(p) \/ PruneTold(p)

Holding(h) == PlaceHold(h) \/ ReleaseHold(h)
Spending(k) == Reserve(k) \/ Commit(k) \/ Fail(k)

Next ==
    \/ PutReceipt
    \/ \E h \in Holds : Holding(h)
    \/ \E k \in Keys : Spending(k)
    \/ \E p \in Anchorers : Anchoring(p)
    \/ \E p \in Pruners : Pruning(p)
    \/ \E p \in Procs : Crash(p)
    \/ \E n \in 1..MaxSeq : Damage(n)
    \/ Tick

Spec == Init /\ [][Next]_vars

-----------------------------------------------------------------------------
(* Properties *)

(* Every variable has its type; the lock is held exactly by a prune at work. *)
TypeOK ==
    /\ DOMAIN rows \subseteq 1..MaxSeq
    /\ \A n \in DOMAIN rows : rows[n] \in ReceiptRow
    /\ head \in [seq : Nat, hash : Seq(Bodies)] /\ checkpoint \in Points
    /\ holds \in [Holds -> HoldRow]
    /\ effects \in [Keys -> EffectRow]
    /\ ledger \subseteq LedgerRow
    /\ anchors \subseteq Anchor /\ provider \subseteq Anchor
    /\ jobs \in [Procs -> Job]
    /\ lock \in Procs \cup {NoOne}
    /\ now \in Nat
    /\ \A p \in Procs : lock = p <=> jobs[p].step \in {"opened", "cleared", "anchored"}

(* receipt.py, verify_chain: a chain nobody damaged verifies at every moment,  *)
(* with writers, prunes, refusals and crashes at any of its steps.             *)
ChainVerifies == damaged = {} => Reported = {}

(* retention.py, rule 2: a prune introduces no break the chain did not already *)
(* have, whatever was already wrong with it.                                   *)
PruneAddsNoBreak == [][checkpoint' # checkpoint => Reported' \subseteq Reported]_vars

(* receipt.py, verify_chain: a row lost above the checkpoint is reported for   *)
(* as long as no prune accounts for it; no later append or prune hides it.     *)
LossIsReported ==
    (\E d \in damaged : d[2] = "lost" /\ d[1] > checkpoint.seq) => Reported # {}

(* retention.py, section 4.3: no receipt under a live hold is deleted, though  *)
(* the hold is consulted long before the delete.                               *)
HeldEvidenceStays ==
    [][\A n \in DOMAIN rows \ DOMAIN rows' :
           damaged' = damaged => \A h \in Holds : ~Covers(h, n)]_vars

(* retention.py, section 4.4: deleting ledger rows hands back no authority; a  *)
(* row that still counts toward some budget stays.                             *)
SpendSurvives ==
    [][\A r \in ledger :
           Counted(r) => \E q \in ledger' : q.key = r.key /\ q.attempt = r.attempt]_vars

(* anchor.py, verify_anchors: an honest store is never accused of tampering,   *)
(* whatever was anchored before, during or after a prune that ended or died.   *)
NoFalseTamper == damaged = {} => \A a \in provider : ~AnchorBroken(a)

(* anchor.py, make_anchor: the cache never claims a pair the provider has not  *)
(* seen, or an honest store would read as repudiated.                          *)
CacheIsHonest == anchors \subseteq provider

(* retention.py, section 4.6: what was erased is on record outside the store,  *)
(* with the very pair that the checkpoint names.                               *)
ErasureIsWitnessed ==
    checkpoint # Genesis =>
        \E a \in provider : a.kind = "checkpoint" /\ [seq |-> a.seq, hash |-> a.hash] = checkpoint

(* All of it together: the store of receipts keeps the promise of EvidenceLog. *)
Log == INSTANCE EvidenceLog WITH
           written <- head.seq, kept <- DOMAIN rows, erased <- checkpoint.seq,
           witnessed <- {a.seq : a \in provider}
KeepsEvidence == Log!Spec
=============================================================================
