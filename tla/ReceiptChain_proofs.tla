------------------------- MODULE ReceiptChain_proofs -------------------------
(***************************************************************************)
(* What the receipt chain and a prune keep, for every number of receipts,  *)
(* keys, holds, anchors, processes and damaged rows: an undamaged chain    *)
(* verifies and is never accused, a prune adds no break and erases no held *)
(* receipt and no charge that counts, a loss is reported, and all of it    *)
(* keeps the promise of EvidenceLog.                                       *)
(***************************************************************************)
EXTENDS ReceiptChain, FiniteSetTheorems, WellFoundedInduction, TLAPS

-----------------------------------------------------------------------------
(* The greatest of some receipts is one of them. *)
LEMMA Greatest ==
    ASSUME NEW S, S \subseteq 1..MaxSeq, S # {}
    PROVE  Max(S) \in S /\ \A n \in S : n <= Max(S)
<1> DEFINE T == {MaxSeq - n : n \in S}
<1>1. T \subseteq Nat
  <2> SUFFICES ASSUME NEW n \in S PROVE MaxSeq - n \in Nat
    OBVIOUS
  <2>1. n \in 1..MaxSeq /\ MaxSeq \in Nat
    BY ChainConstants
  <2> QED
    BY <2>1
<1>2. T # {}
  OBVIOUS
<1>3. PICK d \in T : \A e \in T : ~(<<e, d>> \in OpToRel(<, Nat))
  <2> HIDE DEF T
  <2> QED
    BY <1>1, <1>2, NatLessThanWellFounded, WFMin
<1>4. \A e \in T : ~(e < d)
  BY <1>1, <1>3 DEF OpToRel
<1>5. PICK m \in S : d = MaxSeq - m
  BY <1>3
<1>6. \A n \in S : m >= n
  <2> SUFFICES ASSUME NEW n \in S PROVE m >= n
    OBVIOUS
  <2>1. MaxSeq - n \in T /\ n \in Int /\ m \in Int
    BY <1>5
  <2>2. ~(MaxSeq - n < MaxSeq - m)
    BY <2>1, <1>4, <1>5
  <2> QED
    BY <2>1, <2>2, ChainConstants
<1>7. \E x \in S : \A y \in S : x >= y
  BY <1>6
<1>8. Max(S) \in S /\ \A y \in S : Max(S) >= y
  BY <1>7 DEF Max
<1> QED
  BY <1>8

-----------------------------------------------------------------------------
(* The helpers stay inside their types. *)

(* The pair a checkpoint names is a point of the chain (_prune_locked). *)
LEMMA MarkType ==
    ASSUME TypeOK, NEW n \in Nat, Prefix(n) # {}
    PROVE  Mark(n) \in Points
<1> DEFINE m == Max(Prefix(n))
<1>1. Prefix(n) \subseteq 1..MaxSeq /\ Prefix(n) \subseteq DOMAIN rows
  BY DEF Prefix, Readable, TypeOK
<1>2. m \in Prefix(n)
  BY <1>1, Greatest
<1>3. m \in DOMAIN rows /\ m \in Nat
  BY <1>1, <1>2
<1>4. rows[m].hash \in Hashes
  BY <1>3 DEF TypeOK, ReceiptRow
<1> QED
  BY <1>3, <1>4 DEF Mark, Points

(* An anchor the provider makes has the provider's shape (AnchorProvider.anchor). *)
LEMMA NewAnchorType ==
    ASSUME TypeOK, IsFiniteSet(provider), NEW kind \in Kinds, NEW mark \in Points
    PROVE  /\ NewAnchor(kind, mark) \in Anchor
           /\ Cardinality(provider) + 1 \in Nat
<1>1. Cardinality(provider) \in Nat
  BY FS_CardinalityType
<1> QED
  BY <1>1 DEF NewAnchor, Anchor, Points, TypeOK

(* One receipt more is a chain of typed rows (put_receipt). *)
LEMMA AppendType ==
    ASSUME TypeOK, NEW body \in Bodies, AppendReceipt(body)
    PROVE  /\ DOMAIN rows' \subseteq 1..MaxSeq
           /\ \A n \in DOMAIN rows' : rows'[n] \in ReceiptRow
           /\ head' \in [seq : Nat, hash : Seq(Bodies)]
<1> DEFINE row == [body |-> body, prev |-> head.hash, hash |-> Append(head.hash, body),
                   readable |-> TRUE]
<1>1. head.seq \in Nat /\ head.hash \in Seq(Bodies) /\ head.seq + 1 \in 1..MaxSeq
  BY ChainConstants DEF TypeOK, AppendReceipt
<1>2. Append(head.hash, body) \in Seq(Bodies)
  BY <1>1
<1>3. row \in ReceiptRow
  BY <1>1, <1>2 DEF ReceiptRow, Hashes
<1>4. rows' = [n \in DOMAIN rows \cup {head.seq + 1} |-> IF n \in DOMAIN rows THEN rows[n] ELSE row]
  BY DEF AppendReceipt
<1>5. head' = [seq |-> head.seq + 1, hash |-> Append(head.hash, body)]
  BY DEF AppendReceipt
<1> HIDE DEF row
<1>6. DOMAIN rows' \subseteq 1..MaxSeq
  BY <1>1, <1>4 DEF TypeOK
<1>7. \A n \in DOMAIN rows' : rows'[n] \in ReceiptRow
  BY <1>3, <1>4 DEF TypeOK
<1> QED
  BY <1>1, <1>2, <1>5, <1>6, <1>7

-----------------------------------------------------------------------------
(* Type correctness: the tokens are counted, so the provider is finite. *)
Typed == TypeOK /\ IsFiniteSet(provider)

LEMMA InitTyped == Init => Typed
<1> SUFFICES ASSUME Init PROVE Typed
  OBVIOUS
<1>1. DOMAIN rows = {}
  BY DEF Init
<1>2. <<>> \in Seq(Bodies)
  OBVIOUS
<1>3. head \in [seq : Nat, hash : Seq(Bodies)] /\ Genesis \in Points
  BY <1>2 DEF Init, Genesis, Points, Hashes
<1>4. NoJob \in Job /\ NoJob.step = "idle"
  BY <1>3 DEF NoJob, Job, Steps, Kinds
<1>5. \A p \in Procs : jobs[p] = NoJob /\ lock # p
  BY ChainConstants DEF Init, Procs
<1>6. jobs \in [Procs -> Job]
  BY <1>4 DEF Init
<1>7. IsFiniteSet(provider)
  BY FS_EmptySet DEF Init
<1> QED
  BY <1>1, <1>3, <1>4, <1>5, <1>6, <1>7 DEF Init, Typed, TypeOK, HoldRow, EffectRow

(* Receipts, holds and charges. *)
LEMMA PutReceiptTyped ==
    ASSUME Typed, PutReceipt
    PROVE  Typed'
<1>1. PICK body \in Keys \cup {"other"} : AppendReceipt(body)
  BY DEF PutReceipt
<1>2. body \in Bodies
  BY DEF Bodies, Notes
<1> QED
  BY <1>1, <1>2, AppendType DEF PutReceipt, Typed, TypeOK, spending

LEMMA HoldingTyped ==
    ASSUME Typed, NEW h \in Holds, Holding(h)
    PROVE  Typed'
<1>1. CASE PlaceHold(h)
  <2>1. PICK from \in 1..MaxSeq : \E to \in {from, Unbounded} :
            holds' = [holds EXCEPT ![h] = [status |-> "live", from |-> from, to |-> to]]
    BY <1>1 DEF PlaceHold
  <2>2. PICK to \in {from, Unbounded} :
            holds' = [holds EXCEPT ![h] = [status |-> "live", from |-> from, to |-> to]]
    BY <2>1
  <2>3. from \in Nat /\ to \in Nat
    BY ChainConstants DEF Unbounded
  <2>4. holds' \in [Holds -> HoldRow]
    BY <2>2, <2>3 DEF Typed, TypeOK, HoldRow
  <2> QED
    BY <1>1, <2>4 DEF PlaceHold, Typed, TypeOK, spending, evidence
<1>2. CASE ReleaseHold(h)
  <2>1. holds' \in [Holds -> HoldRow]
    BY <1>2 DEF ReleaseHold, Typed, TypeOK, HoldRow
  <2> QED
    BY <1>2, <2>1 DEF ReleaseHold, Typed, TypeOK, spending, evidence
<1> QED
  BY <1>1, <1>2 DEF Holding

LEMMA SpendingTyped ==
    ASSUME Typed, NEW k \in Keys, Spending(k)
    PROVE  Typed'
<1>0. effects[k] \in EffectRow /\ effects[k].attempt + 1 \in Nat /\ now \in Nat
  BY DEF Typed, TypeOK, EffectRow
<1>1. effects' \in [Keys -> EffectRow]
  <2>1. CASE Reserve(k)
    BY <1>0, <2>1 DEF Reserve, Typed, TypeOK, EffectRow
  <2>2. CASE Commit(k)
    BY <1>0, <2>2 DEF Commit, Typed, TypeOK, EffectRow
  <2>3. CASE Fail(k)
    BY <1>0, <2>3 DEF Fail, Typed, TypeOK, EffectRow
  <2> QED
    BY <2>1, <2>2, <2>3 DEF Spending
<1>2. ledger' \subseteq LedgerRow
  <2>1. CASE Reserve(k)
    <3>1. [key |-> k, attempt |-> effects[k].attempt + 1, at |-> now, held |-> TRUE] \in LedgerRow
      BY <1>0 DEF LedgerRow
    <3> QED
      BY <2>1, <3>1 DEF Reserve, Typed, TypeOK
  <2>2. CASE Commit(k)
    BY <2>2 DEF Commit, Typed, TypeOK
  <2>3. CASE Fail(k)
    BY <2>3 DEF Fail, Typed, TypeOK, LedgerRow
  <2> QED
    BY <2>1, <2>2, <2>3 DEF Spending
<1>3. UNCHANGED <<evidence, holds, anchors, provider, jobs, lock, damaged, now>>
  BY DEF Spending, Reserve, Commit, Fail
<1> QED
  BY <1>1, <1>2, <1>3 DEF Typed, TypeOK, evidence

(* A process's own step moves its job, the lock, and at most one anchor. *)
Working(s) == s \in {"opened", "cleared", "anchored"}

LEMMA ProviderTyped ==
    ASSUME Typed, NEW kind \in Kinds, NEW mark \in Points
    PROVE  LET bigger == provider \cup {NewAnchor(kind, mark)}
           IN  bigger \subseteq Anchor /\ IsFiniteSet(bigger)
<1>1. NewAnchor(kind, mark) \in Anchor
  BY NewAnchorType DEF Typed
<1> QED
  BY <1>1, FS_AddElement DEF Typed, TypeOK

LEMMA MadeType ==
    ASSUME Typed, NEW p \in Procs
    PROVE  Made(p) \in Anchor
  BY DEF Typed, TypeOK, Job, Made, Anchor, Points

LEMMA AnchoringTyped ==
    ASSUME Typed, NEW p \in Anchorers, Anchoring(p)
    PROVE  Typed'
<1>0. p \in Procs /\ jobs[p] \in Job /\ jobs[p].kind \in Kinds /\ jobs[p].mark \in Points
  BY DEF Procs, Typed, TypeOK, Job
<1>1. NoJob \in Job /\ NoJob.step = "idle"
  BY DEF NoJob, Job, Steps, Kinds, Genesis, Points, Hashes
<1>2. CASE AnchorHead(p)
  <2>1. PICK kind \in Kinds :
            jobs' = [jobs EXCEPT ![p] = [NoJob EXCEPT !.step = "anchoring", !.mark = head,
                                                      !.kind = kind]]
    BY <1>2 DEF AnchorHead
  <2>2. head \in Points
    BY DEF Typed, TypeOK, Points, Hashes
  <2>3. [NoJob EXCEPT !.step = "anchoring", !.mark = head, !.kind = kind] \in Job
    BY <1>1, <2>2 DEF Job, Steps
  <2>4. jobs' \in [Procs -> Job] /\ jobs'[p].step = "anchoring"
    BY <1>0, <2>1, <2>3, <1>1 DEF Typed, TypeOK, Job
  <2>5. \A q \in Procs : q # p => jobs'[q] = jobs[q]
    BY <1>0, <2>1 DEF Typed, TypeOK
  <2>6. lock # p
    BY <1>0, <1>2 DEF AnchorHead, Typed, TypeOK
  <2> QED
    BY <1>2, <2>4, <2>5, <2>6 DEF AnchorHead, Typed, TypeOK, evidence, spending
<1>3. CASE AnchorMade(p)
  <2>1. provider' \subseteq Anchor /\ IsFiniteSet(provider')
    BY <1>0, <1>3, ProviderTyped DEF AnchorMade
  <2>2. Cardinality(provider) + 1 \in Nat /\ now \in Nat
    BY <1>0, NewAnchorType DEF Typed, TypeOK
  <2>3. jobs' \in [Procs -> Job] /\ jobs'[p].step = "made"
    BY <1>0, <1>3, <2>2 DEF AnchorMade, Typed, TypeOK, Job, Steps
  <2>4. \A q \in Procs : q # p => jobs'[q] = jobs[q]
    BY <1>0, <1>3 DEF AnchorMade, Typed, TypeOK
  <2>5. lock # p
    BY <1>0, <1>3 DEF AnchorMade, Typed, TypeOK
  <2> QED
    BY <1>3, <2>1, <2>3, <2>4, <2>5 DEF AnchorMade, Typed, TypeOK, evidence, spending
<1>4. CASE AnchorCached(p)
  <2>1. anchors' \subseteq Anchor
    BY <1>0, <1>4, MadeType DEF AnchorCached, Typed, TypeOK
  <2>2. jobs' \in [Procs -> Job] /\ jobs'[p].step = "idle"
    BY <1>0, <1>1, <1>4 DEF AnchorCached, Typed, TypeOK
  <2>3. \A q \in Procs : q # p => jobs'[q] = jobs[q]
    BY <1>0, <1>4 DEF AnchorCached, Typed, TypeOK
  <2>4. lock # p
    BY <1>0, <1>4 DEF AnchorCached, Typed, TypeOK
  <2> QED
    BY <1>4, <2>1, <2>2, <2>3, <2>4 DEF AnchorCached, Typed, TypeOK, evidence, spending
<1>5. CASE AnchorFails(p)
  <2>1. provider' \subseteq Anchor /\ IsFiniteSet(provider')
    BY <1>0, <1>5, ProviderTyped DEF AnchorFails, Typed, TypeOK
  <2>2. jobs' \in [Procs -> Job] /\ jobs'[p].step = "idle"
    BY <1>0, <1>1, <1>5 DEF AnchorFails, Typed, TypeOK
  <2>3. \A q \in Procs : q # p => jobs'[q] = jobs[q]
    BY <1>0, <1>5 DEF AnchorFails, Typed, TypeOK
  <2>4. lock # p
    BY <1>0, <1>5 DEF AnchorFails, Typed, TypeOK
  <2> QED
    BY <1>5, <2>1, <2>2, <2>3, <2>4 DEF AnchorFails, Typed, TypeOK, evidence, spending
<1> QED
  BY <1>2, <1>3, <1>4, <1>5 DEF Anchoring

(* What is common to a prune's steps: its job, and the lock it holds while it works. *)
LEMMA JobTyped ==
    ASSUME Typed, NEW p \in Procs, NEW j \in Job, jobs' = [jobs EXCEPT ![p] = j],
           \/ lock' = lock /\ (lock = p <=> Working(j.step))
           \/ lock' = p /\ lock = NoOne /\ Working(j.step)
           \/ lock' = NoOne /\ lock = p /\ ~Working(j.step)
    PROVE  /\ jobs' \in [Procs -> Job]
           /\ lock' \in Procs \cup {NoOne}
           /\ \A q \in Procs : lock' = q <=> jobs'[q].step \in {"opened", "cleared", "anchored"}
<1>1. jobs' \in [Procs -> Job] /\ jobs'[p] = j
  BY DEF Typed, TypeOK
<1>2. \A q \in Procs : q # p => jobs'[q] = jobs[q]
  BY DEF Typed, TypeOK
<1>3. NoOne \notin Procs
  BY ChainConstants DEF Procs
<1> QED
  BY <1>1, <1>2, <1>3 DEF Typed, TypeOK, Working

LEMMA RollBackTyped ==
    ASSUME Typed, NEW p \in Procs, Working(jobs[p].step), RollBack(p)
    PROVE  /\ jobs' \in [Procs -> Job]
           /\ lock' \in Procs \cup {NoOne}
           /\ \A q \in Procs : lock' = q <=> jobs'[q].step \in {"opened", "cleared", "anchored"}
<1> DEFINE j == [NoJob EXCEPT !.step = "refused"]
<1>0. NoJob \in Job
  BY DEF NoJob, Job, Steps, Kinds, Genesis, Points, Hashes
<1>1. j \in Job /\ ~Working(j.step)
  BY <1>0 DEF Job, Steps, Working
<1>2. lock = p
  BY DEF Typed, TypeOK, Working
<1>3. jobs' = [jobs EXCEPT ![p] = j] /\ lock' = NoOne
  BY DEF RollBack
<1> HIDE DEF j
<1> QED
  BY <1>1, <1>2, <1>3, JobTyped

LEMMA PruningTyped ==
    ASSUME Typed, NEW p \in Pruners, Pruning(p)
    PROVE  Typed'
<1>0. p \in Procs /\ jobs[p] \in Job /\ (lock = p <=> Working(jobs[p].step))
  BY DEF Procs, Typed, TypeOK, Working
<1>a. NoJob \in Job /\ NoJob.step = "idle"
  BY DEF NoJob, Job, Steps, Kinds, Genesis, Points, Hashes
<1>b. jobs[p].mark \in Points /\ jobs[p].through \in Nat
  BY <1>0 DEF Job
<1>1. ASSUME NEW n \in 1..MaxSeq, PrunePropose(p, n)
      PROVE  Typed'
  <2> DEFINE j == [NoJob EXCEPT !.step = "proposed", !.through = n, !.asOf = now]
  <2>0. n \in Nat /\ now \in Nat
    BY ChainConstants DEF Typed, TypeOK
  <2>1. j \in Job /\ ~Working(j.step)
    BY <1>a, <2>0 DEF Job, Steps, Working
  <2>2. jobs' = [jobs EXCEPT ![p] = j] /\ lock' = lock /\ lock # p
    BY <1>0, <1>1 DEF PrunePropose, Working
  <2>3. AppendReceipt("proposed") /\ "proposed" \in Bodies
    BY <1>1 DEF PrunePropose, Bodies, Notes
  <2> HIDE DEF j
  <2> QED
    BY <1>0, <1>1, <2>1, <2>2, <2>3, JobTyped, AppendType
    DEF PrunePropose, Typed, TypeOK, spending
<1>2. CASE PruneOpen(p)
  <2> DEFINE j == [jobs[p] EXCEPT !.step = "opened", !.mark = Mark(jobs[p].through),
                                  !.keys = KeysOf(jobs[p].through), !.kind = "checkpoint"]
  <2>1. Mark(jobs[p].through) \in Points
    BY <1>b, <1>2, MarkType DEF Typed, PruneOpen, Prunable
  <2>2. KeysOf(jobs[p].through) \subseteq Keys
    BY DEF KeysOf
  <2>3. j \in Job /\ Working(j.step)
    <3> HIDE DEF Mark, KeysOf
    <3> QED
      BY <1>0, <2>1, <2>2 DEF Job, Steps, Kinds, Working
  <2>4. jobs' = [jobs EXCEPT ![p] = j] /\ lock' = p /\ lock = NoOne
    BY <1>0, <1>2 DEF PruneOpen, ChainFree, Typed, TypeOK, Job
  <2> HIDE DEF j
  <2> QED
    BY <1>0, <1>2, <2>3, <2>4, JobTyped DEF PruneOpen, Typed, TypeOK, evidence, spending
<1>3. CASE PruneRefused(p)
  <2> DEFINE j == [NoJob EXCEPT !.step = "refused"]
  <2>1. j \in Job /\ ~Working(j.step)
    BY <1>a DEF Job, Steps, Working
  <2>2. jobs' = [jobs EXCEPT ![p] = j] /\ lock' = lock /\ lock # p
    BY <1>0, <1>3 DEF PruneRefused, Working
  <2> HIDE DEF j
  <2> QED
    BY <1>0, <1>3, <2>1, <2>2, JobTyped DEF PruneRefused, Typed, TypeOK, evidence, spending
<1>4. CASE PruneConsult(p)
  <2>1. CASE LedgerClear(jobs[p].keys, jobs[p].asOf)
    <3> DEFINE j == [jobs[p] EXCEPT !.step = "cleared"]
    <3>1. j \in Job /\ Working(j.step)
      BY <1>0 DEF Job, Steps, Working
    <3>2. jobs' = [jobs EXCEPT ![p] = j] /\ lock' = lock /\ lock = p
      BY <1>0, <1>4, <2>1 DEF PruneConsult, Working, Typed, TypeOK
    <3> HIDE DEF j
    <3> QED
      BY <1>0, <1>4, <3>1, <3>2, JobTyped DEF PruneConsult, Typed, TypeOK, evidence, spending
  <2>2. CASE ~LedgerClear(jobs[p].keys, jobs[p].asOf)
    BY <1>0, <1>4, <2>2, RollBackTyped
    DEF PruneConsult, Working, Typed, TypeOK, evidence, spending
  <2> QED
    BY <2>1, <2>2
<1>5. CASE PruneAnchors(p)
  <2> DEFINE j == [jobs[p] EXCEPT !.step = "anchored", !.token = Cardinality(provider) + 1,
                                  !.at = now]
  <2>1. provider' \subseteq Anchor /\ IsFiniteSet(provider')
    BY <1>b, <1>5, ProviderTyped DEF PruneAnchors, Kinds
  <2>2. Cardinality(provider) + 1 \in Nat /\ now \in Nat
    BY FS_CardinalityType DEF Typed, TypeOK
  <2>3. j \in Job /\ Working(j.step)
    BY <1>0, <2>2 DEF Job, Steps, Working
  <2>4. jobs' = [jobs EXCEPT ![p] = j] /\ lock' = lock /\ lock = p
    BY <1>0, <1>5 DEF PruneAnchors, Working, Typed, TypeOK
  <2> HIDE DEF j
  <2> QED
    BY <1>0, <1>5, <2>1, <2>3, <2>4, JobTyped DEF PruneAnchors, Typed, TypeOK, evidence, spending
<1>6. CASE PruneFails(p)
  <2>1. provider' \subseteq Anchor /\ IsFiniteSet(provider')
    BY <1>b, <1>6, ProviderTyped DEF PruneFails, Kinds, Typed, TypeOK
  <2>2. RollBack(p) /\ Working(jobs[p].step)
    BY <1>6 DEF PruneFails, Working
  <2> QED
    BY <1>0, <1>6, <2>1, <2>2, RollBackTyped DEF PruneFails, Typed, TypeOK, evidence, spending
<1>7. CASE PruneDeletes(p)
  <2> DEFINE j == [NoJob EXCEPT !.step = "completed"]
  <2>1. j \in Job /\ ~Working(j.step)
    BY <1>a DEF Job, Steps, Working
  <2>2. jobs' = [jobs EXCEPT ![p] = j] /\ lock' = NoOne /\ lock = p
    BY <1>0, <1>7 DEF PruneDeletes, Working
  <2>3. anchors' \subseteq Anchor
    BY <1>0, <1>7, MadeType DEF PruneDeletes, Typed, TypeOK
  <2>4. DOMAIN rows' \subseteq 1..MaxSeq /\ \A n \in DOMAIN rows' : rows'[n] \in ReceiptRow
    BY <1>7 DEF PruneDeletes, Kept, Restrict, Typed, TypeOK
  <2>5. checkpoint' \in Points /\ ledger' \subseteq LedgerRow
    BY <1>b, <1>7 DEF PruneDeletes, Typed, TypeOK
  <2> HIDE DEF j
  <2> QED
    BY <1>0, <1>7, <2>1, <2>2, <2>3, <2>4, <2>5, JobTyped DEF PruneDeletes, Typed, TypeOK
<1>8. CASE PruneTold(p)
  <2>1. NoJob \in Job /\ ~Working(NoJob.step)
    BY <1>a DEF Working
  <2>2. jobs' = [jobs EXCEPT ![p] = NoJob] /\ lock' = lock /\ lock # p
    BY <1>0, <1>8 DEF PruneTold, Working
  <2>3. AppendReceipt(jobs[p].step) /\ jobs[p].step \in Bodies
    BY <1>8 DEF PruneTold, Bodies, Notes
  <2> QED
    BY <1>0, <1>8, <2>1, <2>2, <2>3, JobTyped, AppendType
    DEF PruneTold, Typed, TypeOK, spending
<1> QED
  BY <1>1, <1>2, <1>3, <1>4, <1>5, <1>6, <1>7, <1>8 DEF Pruning

LEMMA WorldTyped ==
    ASSUME Typed,
           \/ \E p \in Procs : Crash(p)
           \/ \E n \in 1..MaxSeq : Damage(n)
           \/ Tick
    PROVE  Typed'
<1>1. ASSUME NEW p \in Procs, Crash(p)
      PROVE  Typed'
  <2>1. NoJob \in Job /\ ~Working(NoJob.step)
    BY DEF NoJob, Job, Steps, Kinds, Genesis, Points, Hashes, Working
  <2>2. jobs' = [jobs EXCEPT ![p] = NoJob]
    BY <1>1 DEF Crash
  <2>3. \/ lock' = lock /\ lock # p
        \/ lock' = NoOne /\ lock = p
    BY <1>1 DEF Crash
  <2> QED
    BY <1>1, <2>1, <2>2, <2>3, JobTyped DEF Crash, Typed, TypeOK, evidence, spending
<1>2. ASSUME NEW n \in 1..MaxSeq, Damage(n)
      PROVE  Typed'
  <2>1. /\ DOMAIN rows' \subseteq 1..MaxSeq
        /\ \A m \in DOMAIN rows' : rows'[m] \in ReceiptRow
    <3>1. CASE rows' = Restrict(rows, DOMAIN rows \ {n})
      BY <3>1 DEF Restrict, Typed, TypeOK
    <3>2. CASE rows' = [rows EXCEPT ![n].readable = FALSE]
      BY <3>2 DEF Typed, TypeOK, ReceiptRow
    <3>3. CASE rows' = [rows EXCEPT ![n].hash = NoHash]
      BY <3>3 DEF Typed, TypeOK, ReceiptRow, Hashes
    <3> QED
      BY <1>2, <3>1, <3>2, <3>3 DEF Damage
  <2> QED
    BY <1>2, <2>1 DEF Damage, Typed, TypeOK, spending
<1>3. CASE Tick
  BY <1>3 DEF Tick, Typed, TypeOK, evidence, spending
<1> QED
  BY <1>1, <1>2, <1>3

LEMMA NextTyped == Typed /\ [Next]_vars => Typed'
<1> SUFFICES ASSUME Typed, [Next]_vars PROVE Typed'
  OBVIOUS
<1>1. CASE UNCHANGED vars
  BY <1>1 DEF Typed, TypeOK, vars
<1>2. CASE Next
  BY <1>2, PutReceiptTyped, HoldingTyped, SpendingTyped, AnchoringTyped, PruningTyped, WorldTyped
  DEF Next
<1> QED
  BY <1>1, <1>2

LEMMA AlwaysTyped == Spec => []Typed
  BY InitTyped, NextTyped, PTL DEF Spec

(* Every row, anchor and job has its shape, and the lock is held exactly by the *)
(* prune that is at work, whoever crashes when (state.py and postgres.py,       *)
(* pruning).                                                                    *)
THEOREM ChainTypeCorrect == Spec => []TypeOK
<1>1. Typed => TypeOK
  BY DEF Typed
<1> QED
  BY <1>1, AlwaysTyped, PTL

-----------------------------------------------------------------------------
(* How a prune at work came to be where it is: its last step, and nobody else's. *)
Cleared(p) == [jobs[p] EXCEPT !.step = "cleared"]
Anchored(p) == [jobs[p] EXCEPT !.step = "anchored", !.token = Cardinality(provider) + 1, !.at = now]

LEMMA AnchoringMoves ==
    ASSUME Typed, NEW p \in Anchorers, Anchoring(p)
    PROVE  /\ \A q \in Procs : q # p => jobs'[q] = jobs[q]
           /\ ~Working(jobs'[p].step)
           /\ AnchorMade(p) \/ jobs'[p].step # "made"
           /\ UNCHANGED <<evidence, holds, spending, lock, damaged, now>>
<1>0. jobs \in [Procs -> Job] /\ p \in Procs
  BY DEF Typed, TypeOK, Procs
<1>1. CASE AnchorHead(p)
  BY <1>0, <1>1 DEF AnchorHead, Working, NoJob
<1>2. CASE AnchorMade(p)
  BY <1>0, <1>2 DEF AnchorMade, Working, Job
<1>3. CASE AnchorCached(p)
  BY <1>0, <1>3 DEF AnchorCached, Working, NoJob
<1>4. CASE AnchorFails(p)
  BY <1>0, <1>4 DEF AnchorFails, Working, NoJob
<1> QED
  BY <1>1, <1>2, <1>3, <1>4 DEF Anchoring

LEMMA PruningMoves ==
    ASSUME Typed, NEW p \in Pruners, Pruning(p)
    PROVE  /\ \A q \in Procs : q # p => jobs'[q] = jobs[q]
           /\ \/ ~Working(jobs'[p].step)
              \/ PruneOpen(p)
              \/ /\ PruneConsult(p) /\ jobs'[p] = Cleared(p)
                 /\ LedgerClear(jobs[p].keys, jobs[p].asOf)
              \/ PruneAnchors(p) /\ jobs'[p] = Anchored(p)
           /\ jobs'[p].step \notin {"made", "anchoring"}
           /\ UNCHANGED <<holds, effects, damaged, now>>
<1>0. jobs \in [Procs -> Job] /\ p \in Procs
  BY DEF Typed, TypeOK, Procs
<1>1. ASSUME NEW n \in 1..MaxSeq, PrunePropose(p, n)
      PROVE  /\ \A q \in Procs : q # p => jobs'[q] = jobs[q]
             /\ ~Working(jobs'[p].step) /\ jobs'[p].step \notin {"made", "anchoring"}
             /\ UNCHANGED <<holds, effects, damaged, now>>
  BY <1>0, <1>1 DEF PrunePropose, Working, NoJob, spending
<1>2. CASE PruneOpen(p)
  BY <1>0, <1>2 DEF PruneOpen, spending, Job
<1>3. CASE PruneRefused(p)
  BY <1>0, <1>3 DEF PruneRefused, Working, NoJob, spending
<1>4. CASE PruneConsult(p)
  <2>1. CASE LedgerClear(jobs[p].keys, jobs[p].asOf)
    BY <1>0, <1>4, <2>1 DEF PruneConsult, Cleared, spending, Job
  <2>2. CASE ~LedgerClear(jobs[p].keys, jobs[p].asOf)
    BY <1>0, <1>4, <2>2 DEF PruneConsult, RollBack, Working, NoJob, spending
  <2> QED
    BY <2>1, <2>2
<1>5. CASE PruneAnchors(p)
  BY <1>0, <1>5 DEF PruneAnchors, Anchored, spending, Job
<1>6. CASE PruneFails(p)
  BY <1>0, <1>6 DEF PruneFails, RollBack, Working, NoJob, spending
<1>7. CASE PruneDeletes(p)
  BY <1>0, <1>7 DEF PruneDeletes, Working, NoJob
<1>8. CASE PruneTold(p)
  BY <1>0, <1>8 DEF PruneTold, Working, NoJob, spending
<1> QED
  BY <1>1, <1>2, <1>3, <1>4, <1>5, <1>6, <1>7, <1>8 DEF Pruning

LEMMA AtWork ==
    ASSUME Typed, Next, NEW q \in Procs, Working(jobs'[q].step)
    PROVE  \/ jobs'[q] = jobs[q]
           \/ q \in Pruners /\ PruneOpen(q)
           \/ /\ q \in Pruners /\ PruneConsult(q) /\ jobs'[q] = Cleared(q)
              /\ LedgerClear(jobs[q].keys, jobs[q].asOf)
           \/ q \in Pruners /\ PruneAnchors(q) /\ jobs'[q] = Anchored(q)
<1>1. CASE UNCHANGED jobs
  BY <1>1
<1>2. ASSUME NEW p \in Anchorers, Anchoring(p)
      PROVE  jobs'[q] = jobs[q]
  BY <1>2, AnchoringMoves
<1>3. ASSUME NEW p \in Pruners, Pruning(p)
      PROVE  \/ jobs'[q] = jobs[q]
             \/ q = p /\ PruneOpen(p)
             \/ /\ q = p /\ PruneConsult(p) /\ jobs'[p] = Cleared(p)
                /\ LedgerClear(jobs[p].keys, jobs[p].asOf)
             \/ q = p /\ PruneAnchors(p) /\ jobs'[p] = Anchored(p)
  BY <1>3, PruningMoves
<1>4. ASSUME NEW p \in Procs, Crash(p)
      PROVE  jobs'[q] = jobs[q]
  BY <1>4 DEF Crash, Working, NoJob, Typed, TypeOK
<1>5. CASE \/ PutReceipt \/ Tick
           \/ \E h \in Holds : Holding(h)
           \/ \E k \in Keys : Spending(k)
           \/ \E n \in 1..MaxSeq : Damage(n)
  BY <1>1, <1>5
  DEF PutReceipt, Tick, Holding, PlaceHold, ReleaseHold, Spending, Reserve, Commit, Fail, Damage
<1> QED
  BY <1>2, <1>3, <1>4, <1>5 DEF Next

(* While a prune works, its lock is held. *)
LEMMA Locked ==
    ASSUME Typed, NEW q \in Procs, Working(jobs[q].step)
    PROVE  lock = q /\ lock # NoOne
  BY ChainConstants DEF Typed, TypeOK, Working, Procs

-----------------------------------------------------------------------------
(* What a prune at work knows of the holds: none has been placed under it since *)
(* it looked.                                                                   *)
HoldsRespected ==
    \A p \in Procs : Working(jobs[p].step) => ~HeldBack(jobs[p].through)

LEMMA HoldsRespectedKept ==
    ASSUME Typed, HoldsRespected, Next
    PROVE  HoldsRespected'
<1> SUFFICES ASSUME NEW q \in Procs, Working(jobs'[q].step)
             PROVE  \A h \in Holds : ~(holds'[h].status = "live" /\ holds'[h].from <= jobs'[q].through)
  BY DEF HoldsRespected, HeldBack
<1>1. CASE jobs'[q] = jobs[q]
  <2>1. Working(jobs[q].step) /\ ~HeldBack(jobs[q].through) /\ lock # NoOne
    BY <1>1, Locked DEF HoldsRespected
  <2>2. CASE UNCHANGED holds
    BY <1>1, <2>1, <2>2 DEF HeldBack
  <2>3. ASSUME NEW h \in Holds, ReleaseHold(h)
        PROVE  \A g \in Holds : ~(holds'[g].status = "live" /\ holds'[g].from <= jobs'[q].through)
    BY <1>1, <2>1, <2>3 DEF ReleaseHold, HeldBack, Typed, TypeOK, HoldRow
  <2>4. \A h \in Holds : ~PlaceHold(h)
    BY <2>1 DEF PlaceHold, HoldFree
  <2>5. UNCHANGED holds \/ \E h \in Holds : ReleaseHold(h)
    <3>1. (\E p \in Anchorers : Anchoring(p)) => UNCHANGED holds
      BY AnchoringMoves
    <3>2. (\E p \in Pruners : Pruning(p)) => UNCHANGED holds
      BY PruningMoves
    <3>3. \/ PutReceipt \/ Tick
          \/ \E k \in Keys : Spending(k)
          \/ \E p \in Procs : Crash(p)
          \/ \E n \in 1..MaxSeq : Damage(n)
          => UNCHANGED holds
      BY DEF PutReceipt, Tick, Spending, Reserve, Commit, Fail, Crash, Damage
    <3> QED
      BY <2>4, <3>1, <3>2, <3>3 DEF Next, Holding
  <2> QED
    BY <2>2, <2>3, <2>5
<1>2. CASE PruneOpen(q)
  <2>1. jobs'[q].through = jobs[q].through /\ UNCHANGED holds
    BY <1>2 DEF PruneOpen, Typed, TypeOK, Job
  <2>2. ~HeldBack(jobs[q].through)
    BY <1>2 DEF PruneOpen, Prunable
  <2> QED
    BY <2>1, <2>2 DEF HeldBack
<1>3. CASE \/ PruneConsult(q) /\ jobs'[q] = Cleared(q)
           \/ PruneAnchors(q) /\ jobs'[q] = Anchored(q)
  <2>1. jobs'[q].through = jobs[q].through /\ UNCHANGED holds /\ Working(jobs[q].step)
    BY <1>3
    DEF PruneConsult, PruneAnchors, Cleared, Anchored, Working, Typed, TypeOK, Job
  <2> QED
    BY <2>1 DEF HeldBack, HoldsRespected
<1> QED
  BY <1>1, <1>2, <1>3, AtWork

LEMMA HoldsAlwaysRespected == Spec => []HoldsRespected
<1>1. Init => HoldsRespected
  BY DEF Init, HoldsRespected, Working, NoJob
<1>2. Typed /\ HoldsRespected /\ [Next]_vars => HoldsRespected'
  <2> SUFFICES ASSUME Typed, HoldsRespected, [Next]_vars PROVE HoldsRespected'
    OBVIOUS
  <2>1. CASE Next
    BY <2>1, HoldsRespectedKept
  <2>2. CASE UNCHANGED vars
    BY <2>2 DEF vars, HoldsRespected, HeldBack
  <2> QED
    BY <2>1, <2>2
<1> QED
  BY <1>1, <1>2, AlwaysTyped, PTL DEF Spec

(* A lost receipt was written once, and its number is never used again. *)
Numbered ==
    /\ \A n \in DOMAIN rows : n <= head.seq
    /\ \A n \in 1..MaxSeq : <<n, "lost">> \in damaged => n <= head.seq /\ n \notin DOMAIN rows

LEMMA NumberedKept ==
    ASSUME Typed, Numbered, Next
    PROVE  Numbered'
<1>0. head.seq \in Nat
  BY DEF Typed, TypeOK
<1>1. CASE damaged' = damaged /\ head' = head /\ DOMAIN rows' \subseteq DOMAIN rows
  BY <1>1 DEF Numbered
<1>2. ASSUME NEW body, AppendReceipt(body), damaged' = damaged
      PROVE  Numbered'
  <2>1. head'.seq = head.seq + 1 /\ DOMAIN rows' = DOMAIN rows \cup {head.seq + 1}
    BY <1>2 DEF AppendReceipt
  <2> QED
    BY <1>0, <1>2, <2>1 DEF Numbered, Typed, TypeOK
<1>3. ASSUME NEW n \in 1..MaxSeq, Damage(n)
      PROVE  Numbered'
  <2>1. head' = head /\ n \in DOMAIN rows
    BY <1>3 DEF Damage
  <2>2. CASE rows' = Restrict(rows, DOMAIN rows \ {n}) /\ damaged' = damaged \cup {<<n, "lost">>}
    BY <1>0, <2>1, <2>2 DEF Restrict, Numbered
  <2>3. CASE /\ DOMAIN rows' = DOMAIN rows
             /\ damaged' \in {damaged \cup {<<n, "unreadable">>}, damaged \cup {<<n, "stripped">>}}
    BY <2>1, <2>3 DEF Numbered
  <2> QED
    BY <1>3, <2>2, <2>3 DEF Damage
<1>4. ASSUME NEW p \in Pruners, Pruning(p)
      PROVE  Numbered'
  <2>1. damaged' = damaged
    BY <1>4, PruningMoves
  <2>2. CASE \/ \E n \in 1..MaxSeq : PrunePropose(p, n)
             \/ PruneTold(p)
    BY <1>2, <2>1, <2>2 DEF PrunePropose, PruneTold
  <2>3. CASE PruneDeletes(p)
    BY <1>1, <2>1, <2>3 DEF PruneDeletes, Kept, Restrict
  <2>4. CASE \/ PruneOpen(p) \/ PruneRefused(p) \/ PruneConsult(p) \/ PruneAnchors(p)
             \/ PruneFails(p)
    BY <1>1, <2>1, <2>4
    DEF PruneOpen, PruneRefused, PruneConsult, PruneAnchors, PruneFails, evidence
  <2> QED
    BY <1>4, <2>2, <2>3, <2>4 DEF Pruning
<1>5. CASE PutReceipt
  BY <1>2, <1>5 DEF PutReceipt
<1>6. ASSUME NEW p \in Anchorers, Anchoring(p)
      PROVE  Numbered'
  BY <1>1, <1>6, AnchoringMoves DEF evidence
<1>7. CASE \/ Tick
           \/ \E h \in Holds : Holding(h)
           \/ \E k \in Keys : Spending(k)
           \/ \E p \in Procs : Crash(p)
  BY <1>1, <1>7
  DEF Tick, Holding, PlaceHold, ReleaseHold, Spending, Reserve, Commit, Fail, Crash, evidence
<1> QED
  BY <1>3, <1>4, <1>5, <1>6, <1>7 DEF Next

LEMMA AlwaysNumbered == Spec => []Numbered
<1>1. Init => Numbered
  BY DEF Init, Numbered
<1>2. Typed /\ Numbered /\ [Next]_vars => Numbered'
  <2> SUFFICES ASSUME Typed, Numbered, [Next]_vars PROVE Numbered'
    OBVIOUS
  <2>1. CASE UNCHANGED vars
    BY <2>1 DEF vars, Numbered
  <2> QED
    BY <2>1, NumberedKept
<1> QED
  BY <1>1, <1>2, AlwaysTyped, PTL DEF Spec

(* Only a prune at its last step takes rows away that nobody damaged. *)
LEMMA OnlyPrunesErase ==
    ASSUME Typed, Numbered, Next, damaged' = damaged, NEW n \in DOMAIN rows, n \notin DOMAIN rows'
    PROVE  \E p \in Pruners : PruneDeletes(p) /\ n <= jobs[p].through
<1>0. n \in 1..MaxSeq
  BY DEF Typed, TypeOK
<1>1. \A body : ~AppendReceipt(body)
  BY DEF AppendReceipt
<1>2. rows' # rows
  OBVIOUS
<1>3. \A m \in 1..MaxSeq : ~Damage(m)
  <2> SUFFICES ASSUME NEW m \in 1..MaxSeq, Damage(m) PROVE FALSE
    OBVIOUS
  <2>1. n = m /\ <<m, "lost">> \in damaged'
    BY DEF Damage, Restrict
  <2> QED
    BY <2>1 DEF Numbered
<1>4. \A p \in Anchorers : ~Anchoring(p)
  BY <1>2, AnchoringMoves DEF evidence
<1>5. PICK p \in Pruners : Pruning(p)
  BY <1>1, <1>2, <1>3, <1>4
  DEF Next, PutReceipt, Tick, Holding, PlaceHold, ReleaseHold, Spending, Reserve, Commit, Fail,
      Crash, evidence
<1>6. PruneDeletes(p)
  BY <1>1, <1>2, <1>5
  DEF Pruning, PrunePropose, PruneOpen, PruneRefused, PruneConsult, PruneAnchors, PruneFails,
      PruneTold, evidence
<1>7. n <= jobs[p].through
  <2>1. DOMAIN rows' = {m \in DOMAIN rows : m > jobs[p].through} /\ jobs[p].through \in Nat
    BY <1>6 DEF PruneDeletes, Kept, Restrict, Typed, TypeOK, Job, Procs
  <2> QED
    BY <1>0, <2>1
<1> QED
  BY <1>6, <1>7

(* A receipt that a live hold covers is never deleted by a prune: no hold can be *)
(* placed between the check and the delete (postgres.py, put_hold waits).        *)
THEOREM HeldEvidenceSafe == Spec => HeldEvidenceStays
<1>1. Typed /\ HoldsRespected /\ Numbered /\ [Next]_vars
        => [\A n \in DOMAIN rows \ DOMAIN rows' :
               damaged' = damaged => \A h \in Holds : ~Covers(h, n)]_vars
  <2> SUFFICES ASSUME Typed, HoldsRespected, Numbered, Next,
                      NEW n \in DOMAIN rows \ DOMAIN rows', damaged' = damaged,
                      NEW h \in Holds, Covers(h, n)
               PROVE  FALSE
    OBVIOUS
  <2>1. PICK p \in Pruners : PruneDeletes(p) /\ n <= jobs[p].through
    BY OnlyPrunesErase
  <2>2. p \in Procs /\ ~HeldBack(jobs[p].through)
    BY <2>1 DEF PruneDeletes, HoldsRespected, Working, Procs
  <2>3. holds[h].from \in Nat /\ n \in Nat /\ jobs[p].through \in Nat
    BY <2>2 DEF Typed, TypeOK, HoldRow, Job
  <2> QED
    BY <2>1, <2>2, <2>3 DEF Covers, HeldBack
<1> QED
  BY <1>1, AlwaysTyped, HoldsAlwaysRespected, AlwaysNumbered, PTL DEF HeldEvidenceStays, Spec

-----------------------------------------------------------------------------
(* What the provider has been told: everything that a process remembers having told *)
(* it, everything in the cache, and the checkpoint.                                 *)
MadeIsMade ==
    \A p \in Procs : jobs[p].step \in {"made", "anchored"} => Made(p) \in provider

PrunesMarkCheckpoints ==
    \A p \in Procs : Working(jobs[p].step) => jobs[p].kind = "checkpoint"

Witnessed ==
    /\ MadeIsMade /\ PrunesMarkCheckpoints
    /\ CacheIsHonest /\ ErasureIsWitnessed

LEMMA ProviderGrows ==
    ASSUME Next
    PROVE  provider \subseteq provider'
  BY DEF Next, PutReceipt, Holding, PlaceHold, ReleaseHold, Spending, Reserve, Commit, Fail,
         Anchoring, AnchorHead, AnchorMade, AnchorCached, AnchorFails,
         Pruning, PrunePropose, PruneOpen, PruneRefused, PruneConsult, PruneAnchors, PruneFails,
         PruneDeletes, PruneTold, Crash, Damage, Tick

LEMMA PrunesMarkCheckpointsKept ==
    ASSUME Typed, PrunesMarkCheckpoints, Next
    PROVE  PrunesMarkCheckpoints'
<1> SUFFICES ASSUME NEW q \in Procs, Working(jobs'[q].step)
             PROVE  jobs'[q].kind = "checkpoint"
  BY DEF PrunesMarkCheckpoints
<1>1. CASE jobs'[q] = jobs[q]
  BY <1>1 DEF PrunesMarkCheckpoints
<1>2. CASE PruneOpen(q)
  BY <1>2 DEF PruneOpen, Typed, TypeOK, Job
<1>3. CASE \/ PruneConsult(q) /\ jobs'[q] = Cleared(q)
           \/ PruneAnchors(q) /\ jobs'[q] = Anchored(q)
  BY <1>3
  DEF PruneConsult, PruneAnchors, Cleared, Anchored, Working, Typed, TypeOK, Job,
      PrunesMarkCheckpoints
<1> QED
  BY <1>1, <1>2, <1>3, AtWork

LEMMA MadeIsMadeKept ==
    ASSUME Typed, Witnessed, Next
    PROVE  MadeIsMade'
<1> SUFFICES ASSUME NEW q \in Procs, jobs'[q].step \in {"made", "anchored"}
             PROVE  Made(q)' \in provider'
  BY DEF MadeIsMade
<1>0. jobs \in [Procs -> Job] /\ provider \subseteq provider'
  BY ProviderGrows DEF Typed, TypeOK
<1>1. CASE jobs'[q] = jobs[q]
  BY <1>0, <1>1 DEF Witnessed, MadeIsMade, Made
<1>2. ASSUME q \in Pruners, PruneAnchors(q), jobs'[q] = Anchored(q)
      PROVE  Made(q)' \in provider'
  <2>1. jobs[q].kind = "checkpoint"
    BY <1>2 DEF PruneAnchors, Witnessed, PrunesMarkCheckpoints, Working
  <2>2. Made(q)' = NewAnchor("checkpoint", jobs[q].mark)
    BY <1>0, <1>2, <2>1 DEF Made, NewAnchor, Anchored, Job
  <2> QED
    BY <1>2, <2>2 DEF PruneAnchors
<1>3. ASSUME q \in Anchorers, AnchorMade(q)
      PROVE  Made(q)' \in provider'
  <2>1. Made(q)' = NewAnchor(jobs[q].kind, jobs[q].mark)
    BY <1>0, <1>3 DEF AnchorMade, Made, NewAnchor, Job
  <2> QED
    BY <1>3, <2>1 DEF AnchorMade
<1>4. \/ jobs'[q] = jobs[q]
      \/ q \in Pruners /\ PruneAnchors(q) /\ jobs'[q] = Anchored(q)
      \/ q \in Anchorers /\ AnchorMade(q)
  <2>1. CASE Working(jobs'[q].step)
    <3>1. ~PruneOpen(q) /\ jobs'[q] # Cleared(q)
      BY <1>0 DEF PruneOpen, Cleared, Job
    <3> QED
      BY <2>1, <3>1, AtWork
  <2>2. CASE jobs'[q].step = "made"
    <3>1. ASSUME NEW p \in Pruners, Pruning(p)
          PROVE  jobs'[q] = jobs[q]
      BY <2>2, <3>1, PruningMoves
    <3>2. ASSUME NEW p \in Anchorers, Anchoring(p)
          PROVE  jobs'[q] = jobs[q] \/ (q = p /\ AnchorMade(p))
      BY <2>2, <3>2, AnchoringMoves
    <3>3. ASSUME NEW p \in Procs, Crash(p)
          PROVE  jobs'[q] = jobs[q]
      BY <1>0, <2>2, <3>3 DEF Crash, NoJob
    <3> QED
      BY <3>1, <3>2, <3>3
      DEF Next, PutReceipt, Holding, PlaceHold, ReleaseHold, Spending, Reserve, Commit, Fail,
          Damage, Tick
  <2> QED
    BY <2>1, <2>2 DEF Working
<1> QED
  BY <1>1, <1>2, <1>3, <1>4

LEMMA WitnessedKept ==
    ASSUME Typed, Witnessed, Next
    PROVE  Witnessed'
<1>1. MadeIsMade' /\ PrunesMarkCheckpoints'
  BY MadeIsMadeKept, PrunesMarkCheckpointsKept DEF Witnessed
<1>2. provider \subseteq provider'
  BY ProviderGrows
<1>3. CASE UNCHANGED <<anchors, checkpoint>>
  BY <1>1, <1>2, <1>3 DEF Witnessed, CacheIsHonest, ErasureIsWitnessed
<1>4. ASSUME NEW p \in Anchorers, AnchorCached(p)
      PROVE  Witnessed'
  <2>1. Made(p) \in provider
    BY <1>4 DEF AnchorCached, Witnessed, MadeIsMade, Procs
  <2> QED
    BY <1>1, <1>2, <1>4, <2>1
    DEF AnchorCached, Witnessed, CacheIsHonest, ErasureIsWitnessed, evidence
<1>5. ASSUME NEW p \in Pruners, PruneDeletes(p)
      PROVE  Witnessed'
  <2>1. p \in Procs /\ jobs[p].mark \in Points
    BY DEF Procs, Typed, TypeOK, Job
  <2>2. Made(p) \in provider /\ jobs[p].kind = "checkpoint"
    BY <1>5, <2>1 DEF PruneDeletes, Witnessed, MadeIsMade, PrunesMarkCheckpoints, Working
  <2>3. Made(p).kind = "checkpoint" /\ [seq |-> Made(p).seq, hash |-> Made(p).hash] = jobs[p].mark
    BY <2>1, <2>2 DEF Made, Points
  <2>4. CacheIsHonest'
    BY <1>2, <1>5, <2>2 DEF PruneDeletes, Witnessed, CacheIsHonest
  <2>5. ErasureIsWitnessed'
    BY <1>2, <1>5, <2>2, <2>3 DEF PruneDeletes, Witnessed, ErasureIsWitnessed
  <2> QED
    BY <1>1, <2>4, <2>5 DEF Witnessed
<1>6. \/ UNCHANGED <<anchors, checkpoint>>
      \/ \E p \in Anchorers : AnchorCached(p)
      \/ \E p \in Pruners : PruneDeletes(p)
  BY DEF Next, PutReceipt, Holding, PlaceHold, ReleaseHold, Spending, Reserve, Commit, Fail,
         Anchoring, AnchorHead, AnchorMade, AnchorFails,
         Pruning, PrunePropose, PruneOpen, PruneRefused, PruneConsult, PruneAnchors, PruneFails,
         PruneTold, Crash, Damage, Tick, evidence
<1> QED
  BY <1>3, <1>4, <1>5, <1>6

LEMMA AlwaysWitnessed == Spec => []Witnessed
<1>1. Init => Witnessed
  BY DEF Init, Witnessed, MadeIsMade, PrunesMarkCheckpoints, CacheIsHonest, ErasureIsWitnessed,
         Working, NoJob
<1>2. Typed /\ Witnessed /\ [Next]_vars => Witnessed'
  <2> SUFFICES ASSUME Typed, Witnessed, [Next]_vars PROVE Witnessed'
    OBVIOUS
  <2>1. CASE UNCHANGED vars
    BY <2>1 DEF vars, Witnessed, MadeIsMade, PrunesMarkCheckpoints, CacheIsHonest,
                ErasureIsWitnessed, Made
  <2> QED
    BY <2>1, WitnessedKept
<1> QED
  BY <1>1, <1>2, AlwaysTyped, PTL DEF Spec

(* The cache never claims what the provider did not see, though a process may die *)
(* between the two (anchor.py, make_anchor).                                      *)
THEOREM CacheAlwaysHonest == Spec => []CacheIsHonest
<1>1. Witnessed => CacheIsHonest
  BY DEF Witnessed
<1> QED
  BY <1>1, AlwaysWitnessed, PTL

(* Whatever was erased, the provider holds the very pair the checkpoint names    *)
(* (retention.py, _prune_locked: the anchor comes before the delete).            *)
THEOREM ErasureAlwaysWitnessed == Spec => []ErasureIsWitnessed
<1>1. Witnessed => ErasureIsWitnessed
  BY DEF Witnessed
<1> QED
  BY <1>1, AlwaysWitnessed, PTL

-----------------------------------------------------------------------------
(* What a prune at work knows of the ledger.  Where the lock excludes every writer it *)
(* stays true until the delete; this is what PostgreSQL's lock does not give.         *)
HeldByTheLiving == \A r \in ledger : r.held => effects[r.key].state \in {"unsettled", "committed"}

ChargesRespected ==
    \A p \in Procs :
        jobs[p].step \in {"cleared", "anchored"} => LedgerClear(jobs[p].keys, jobs[p].asOf)

(* An operator proposes a prune at the time it is. *)
ProposedInTime == \A p \in Procs : jobs[p].asOf <= now

Spent == HeldByTheLiving /\ ChargesRespected /\ ProposedInTime

LEMMA HeldByTheLivingKept ==
    ASSUME Typed, HeldByTheLiving, Next
    PROVE  HeldByTheLiving'
<1>1. CASE effects' = effects /\ ledger' \subseteq ledger
  BY <1>1 DEF HeldByTheLiving
<1>2. ASSUME NEW k \in Keys, Reserve(k)
      PROVE  HeldByTheLiving'
  BY <1>2 DEF Reserve, HeldByTheLiving, Typed, TypeOK, EffectRow, LedgerRow
<1>3. ASSUME NEW k \in Keys, Commit(k)
      PROVE  HeldByTheLiving'
  BY <1>3 DEF Commit, HeldByTheLiving, Typed, TypeOK, EffectRow, LedgerRow
<1>4. ASSUME NEW k \in Keys, Fail(k)
      PROVE  HeldByTheLiving'
  BY <1>4 DEF Fail, HeldByTheLiving, Typed, TypeOK, EffectRow, LedgerRow
<1>5. ASSUME NEW p \in Pruners, Pruning(p)
      PROVE  effects' = effects /\ ledger' \subseteq ledger
  BY <1>5
  DEF Pruning, PrunePropose, PruneOpen, PruneRefused, PruneConsult, PruneAnchors, PruneFails,
      PruneDeletes, PruneTold, spending
<1>6. ASSUME NEW p \in Anchorers, Anchoring(p)
      PROVE  effects' = effects /\ ledger' \subseteq ledger
  BY <1>6, AnchoringMoves DEF spending
<1>7. CASE \/ PutReceipt \/ Tick
           \/ \E h \in Holds : Holding(h)
           \/ \E p \in Procs : Crash(p)
           \/ \E n \in 1..MaxSeq : Damage(n)
  BY <1>1, <1>7 DEF PutReceipt, Tick, Holding, PlaceHold, ReleaseHold, Crash, Damage, spending
<1> QED
  BY <1>1, <1>2, <1>3, <1>4, <1>5, <1>6, <1>7 DEF Next, Spending

(* While a prune is at work and goes on, one writer alone has written no charge. *)
LEMMA NoChargeMeanwhile ==
    ASSUME Typed, OneWriter, Next, NEW q \in Procs, Working(jobs[q].step), jobs'[q] = jobs[q]
    PROVE  UNCHANGED spending
<1>0. lock = q /\ ~Writable /\ \A p \in Procs : lock = p => p = q
  BY Locked DEF Writable
<1>1. \A k \in Keys : ~Spending(k)
  BY <1>0 DEF Spending, Reserve, Commit, Fail
<1>2. ASSUME NEW p \in Pruners, Pruning(p)
      PROVE  UNCHANGED spending
  <2>1. ~PruneDeletes(p)
    <3> SUFFICES ASSUME PruneDeletes(p) PROVE FALSE
      OBVIOUS
    <3>1. p = q
      BY <1>0 DEF PruneDeletes, Typed, TypeOK, Procs
    <3> QED
      BY <3>1 DEF PruneDeletes, NoJob, Typed, TypeOK
  <2> QED
    BY <1>2, <2>1
    DEF Pruning, PrunePropose, PruneOpen, PruneRefused, PruneConsult, PruneAnchors, PruneFails,
        PruneTold
<1>3. ASSUME NEW p \in Anchorers, Anchoring(p)
      PROVE  UNCHANGED spending
  BY <1>3, AnchoringMoves
<1> QED
  BY <1>1, <1>2, <1>3
  DEF Next, PutReceipt, Tick, Holding, PlaceHold, ReleaseHold, Crash, Damage

LEMMA ProposedInTimeKept ==
    ASSUME Typed, ProposedInTime, Next
    PROVE  ProposedInTime'
<1> SUFFICES ASSUME NEW q \in Procs PROVE jobs'[q].asOf <= now'
  BY DEF ProposedInTime
<1>0. jobs \in [Procs -> Job] /\ now \in Nat /\ jobs[q].asOf \in Nat /\ jobs[q].asOf <= now
  BY DEF Typed, TypeOK, Job, ProposedInTime
<1>1. now' \in {now, now + 1}
  <2>1. (\E p \in Anchorers : Anchoring(p)) => now' = now
    BY AnchoringMoves
  <2>2. (\E p \in Pruners : Pruning(p)) => now' = now
    BY PruningMoves
  <2> QED
    BY <2>1, <2>2
    DEF Next, PutReceipt, Holding, PlaceHold, ReleaseHold, Spending, Reserve, Commit, Fail,
        Crash, Damage, Tick
<1>2. jobs'[q].asOf \in {jobs[q].asOf, 0, now}
  <2>1. CASE UNCHANGED jobs
    BY <2>1
  <2>2. ASSUME NEW p \in Anchorers, Anchoring(p)
        PROVE  jobs'[q].asOf \in {jobs[q].asOf, 0, now}
    <3>1. CASE p # q
      BY <2>2, <3>1, AnchoringMoves
    <3>2. CASE AnchorHead(q)
      <4>1. PICK kind \in Kinds :
                jobs' = [jobs EXCEPT ![q] = [NoJob EXCEPT !.step = "anchoring", !.mark = head,
                                                          !.kind = kind]]
        BY <3>2 DEF AnchorHead
      <4>2. jobs'[q].asOf = 0
        BY <1>0, <4>1 DEF NoJob
      <4> QED
        BY <4>2
    <3>3. CASE AnchorCached(q) \/ AnchorFails(q)
      BY <1>0, <3>3 DEF AnchorCached, AnchorFails, NoJob
    <3>4. CASE AnchorMade(q)
      BY <1>0, <3>4 DEF AnchorMade, Job
    <3> QED
      BY <2>2, <3>1, <3>2, <3>3, <3>4 DEF Anchoring
  <2>3. ASSUME NEW p \in Pruners, Pruning(p)
        PROVE  jobs'[q].asOf \in {jobs[q].asOf, 0, now}
    <3>1. CASE p # q
      BY <2>3, <3>1, PruningMoves
    <3>2. ASSUME NEW n \in 1..MaxSeq, PrunePropose(q, n)
          PROVE  jobs'[q].asOf = now
      BY <1>0, <3>2 DEF PrunePropose, NoJob
    <3>3. CASE PruneOpen(q)
      BY <1>0, <3>3 DEF PruneOpen, Job
    <3>4. CASE PruneConsult(q)
      <4>1. jobs' = [jobs EXCEPT ![q].step = "cleared"] \/ RollBack(q)
        BY <3>4 DEF PruneConsult
      <4> QED
        BY <1>0, <4>1 DEF RollBack, NoJob, Job
    <3>5. CASE PruneAnchors(q)
      BY <1>0, <3>5 DEF PruneAnchors, Job
    <3>6. CASE PruneRefused(q) \/ PruneFails(q) \/ PruneDeletes(q) \/ PruneTold(q)
      BY <1>0, <3>6 DEF PruneRefused, PruneFails, PruneDeletes, PruneTold, RollBack, NoJob
    <3> QED
      BY <2>3, <3>1, <3>2, <3>3, <3>4, <3>5, <3>6 DEF Pruning
  <2>4. ASSUME NEW p \in Procs, Crash(p)
        PROVE  jobs'[q].asOf \in {jobs[q].asOf, 0, now}
    BY <1>0, <2>4 DEF Crash, NoJob
  <2> QED
    BY <2>1, <2>2, <2>3, <2>4
    DEF Next, PutReceipt, Tick, Holding, PlaceHold, ReleaseHold, Spending, Reserve, Commit, Fail,
        Damage
<1> QED
  BY <1>0, <1>1, <1>2

(* The ledger it consulted still says what it said. *)
LEMMA ChargesRespectedKept ==
    ASSUME Typed, ChargesRespected, OneWriter, Next
    PROVE  ChargesRespected'
<1> SUFFICES ASSUME NEW q \in Procs, jobs'[q].step \in {"cleared", "anchored"}
             PROVE  \A r \in ledger' :
                        r.key \in jobs'[q].keys =>
                            /\ effects'[r.key].state # "unsettled"
                            /\ effects'[r.key].state = "committed" => r.at <= jobs'[q].asOf - OlderThan
  BY DEF ChargesRespected, LedgerClear
<1>0. jobs \in [Procs -> Job] /\ Working(jobs'[q].step)
  BY DEF Typed, TypeOK, Working
<1>1. CASE jobs'[q] = jobs[q]
  <2>1. UNCHANGED spending
    BY <1>0, <1>1, NoChargeMeanwhile
  <2> QED
    BY <1>1, <2>1 DEF ChargesRespected, LedgerClear, spending
<1>2. ASSUME PruneConsult(q), jobs'[q] = Cleared(q), LedgerClear(jobs[q].keys, jobs[q].asOf)
      PROVE  /\ UNCHANGED spending
             /\ jobs'[q].keys = jobs[q].keys /\ jobs'[q].asOf = jobs[q].asOf
  BY <1>0, <1>2 DEF PruneConsult, Cleared, Job
<1>3. ASSUME PruneAnchors(q), jobs'[q] = Anchored(q)
      PROVE  /\ UNCHANGED spending /\ LedgerClear(jobs[q].keys, jobs[q].asOf)
             /\ jobs'[q].keys = jobs[q].keys /\ jobs'[q].asOf = jobs[q].asOf
  BY <1>0, <1>3 DEF PruneAnchors, Anchored, Job, ChargesRespected
<1>4. ~PruneOpen(q)
  BY <1>0 DEF PruneOpen, Job
<1>5. \/ jobs'[q] = jobs[q]
      \/ /\ UNCHANGED spending /\ LedgerClear(jobs[q].keys, jobs[q].asOf)
         /\ jobs'[q].keys = jobs[q].keys /\ jobs'[q].asOf = jobs[q].asOf
  BY <1>0, <1>2, <1>3, <1>4, AtWork
<1> QED
  BY <1>1, <1>5 DEF LedgerClear, spending

LEMMA AlwaysSpent == ASSUME OneWriter PROVE Spec => []Spent
<1>1. Init => Spent
  BY DEF Init, Spent, HeldByTheLiving, ProposedInTime, ChargesRespected, NoJob
<1>2. Typed /\ Spent /\ [Next]_vars => Spent'
  <2> SUFFICES ASSUME Typed, Spent, [Next]_vars PROVE Spent'
    OBVIOUS
  <2>1. CASE Next
    BY <2>1, HeldByTheLivingKept, ProposedInTimeKept, ChargesRespectedKept DEF Spent
  <2>2. CASE UNCHANGED vars
    BY <2>2 DEF vars, Spent, HeldByTheLiving, ProposedInTime, ChargesRespected, LedgerClear
  <2> QED
    BY <2>1, <2>2
<1> QED
  BY <1>1, <1>2, AlwaysTyped, PTL DEF Spec

(* A prune hands back no authority: with one writer, and with --older-than beyond  *)
(* every window, no charge that counts is ever deleted (retention.py, section 4.4). *)
THEOREM SpendingSafe ==
    ASSUME OneWriter, Window < OlderThan
    PROVE  Spec => SpendSurvives
<1>1. Typed /\ Spent /\ [Next]_vars
        => [\A r \in ledger :
               Counted(r) => \E q \in ledger' : q.key = r.key /\ q.attempt = r.attempt]_vars
  <2> SUFFICES ASSUME Typed, Spent, Next, NEW r \in ledger, Counted(r)
               PROVE  \E q \in ledger' : q.key = r.key /\ q.attempt = r.attempt
    OBVIOUS
  <2>1. CASE ledger \subseteq ledger'
    BY <2>1
  <2>2. ASSUME NEW k \in Keys, Fail(k)
        PROVE  \E q \in ledger' : q.key = r.key /\ q.attempt = r.attempt
    <3> DEFINE q == IF r.key = k THEN [r EXCEPT !.held = FALSE] ELSE r
    <3>1. q \in ledger'
      BY <2>2 DEF Fail
    <3>2. q.key = r.key /\ q.attempt = r.attempt
      BY DEF Typed, TypeOK, LedgerRow
    <3> QED
      BY <3>1, <3>2
  <2>3. ASSUME NEW p \in Pruners, PruneDeletes(p)
        PROVE  \E q \in ledger' : q.key = r.key /\ q.attempt = r.attempt
    <3>0. p \in Procs /\ jobs[p].asOf \in Nat /\ jobs[p].asOf <= now /\ now \in Nat
      BY DEF Procs, Spent, ProposedInTime, Typed, TypeOK, Job
    <3>1. r.held /\ now - r.at <= Window /\ r.at \in Nat
      BY DEF Counted, Typed, TypeOK, LedgerRow
    <3>2. effects[r.key].state \in {"unsettled", "committed"}
      BY <3>1 DEF Spent, HeldByTheLiving
    <3>3. LedgerClear(jobs[p].keys, jobs[p].asOf)
      BY <2>3, <3>0 DEF PruneDeletes, Spent, ChargesRespected
    <3>4. r.key \in jobs[p].keys => r.at <= jobs[p].asOf - OlderThan
      BY <3>2, <3>3 DEF LedgerClear
    <3>5. r.key \notin jobs[p].keys
      BY <3>0, <3>1, <3>4, ChainConstants
    <3> QED
      BY <2>3, <3>5 DEF PruneDeletes
  <2>4. \/ ledger \subseteq ledger'
        \/ \E k \in Keys : Fail(k)
        \/ \E p \in Pruners : PruneDeletes(p)
    BY DEF Next, PutReceipt, Holding, PlaceHold, ReleaseHold, Spending, Reserve, Commit,
           Anchoring, AnchorHead, AnchorMade, AnchorCached, AnchorFails,
           Pruning, PrunePropose, PruneOpen, PruneRefused, PruneConsult, PruneAnchors, PruneFails,
           PruneTold, Crash, Damage, Tick, spending
  <2> QED
    BY <2>1, <2>2, <2>3, <2>4
<1> QED
  BY <1>1, AlwaysTyped, AlwaysSpent, PTL DEF SpendSurvives, Spec

-----------------------------------------------------------------------------
(* The rows run without a gap from the checkpoint to the head, and every prune *)
(* at work is about a receipt between the two.                                 *)
Contiguous ==
    /\ damaged = {}
    /\ checkpoint.seq <= head.seq
    /\ DOMAIN rows = (checkpoint.seq + 1)..head.seq
    /\ \A n \in DOMAIN rows : rows[n].readable

MarksInside ==
    \A p \in Procs :
        /\ jobs[p].mark.seq <= head.seq
        /\ Working(jobs[p].step) =>
               /\ jobs[p].mark.seq = jobs[p].through
               /\ checkpoint.seq < jobs[p].through /\ jobs[p].through < head.seq

Whole == Contiguous /\ MarksInside

-----------------------------------------------------------------------------
(* Every step is one of four, as far as the evidence goes. *)
Appends ==
    /\ \E body \in Bodies : AppendReceipt(body)
    /\ UNCHANGED <<checkpoint, provider, damaged>>

Tells ==
    /\ \E p \in Procs, kind \in Kinds :
          /\ jobs[p].step \in {"anchoring", "cleared"}
          /\ provider' = provider \cup {NewAnchor(kind, jobs[p].mark)}
    /\ UNCHANGED <<evidence, damaged>>

Rests == UNCHANGED <<evidence, provider, damaged>>

LEMMA NoDamage ==
    ASSUME damaged' = {}, NEW n
    PROVE  ~Damage(n)
  BY DEF Damage

LEMMA FourKinds ==
    ASSUME Typed, damaged' = {}, Next
    PROVE  \/ Appends \/ Tells \/ Rests
           \/ \E p \in Pruners : PruneDeletes(p)
<1>1. CASE PutReceipt
  BY <1>1 DEF PutReceipt, Appends, Bodies, Notes
<1>2. ASSUME NEW p \in Anchorers, Anchoring(p)
      PROVE  Tells \/ Rests
  <2>0. p \in Procs /\ jobs[p].kind \in Kinds /\ UNCHANGED <<evidence, damaged>>
    BY <1>2, AnchoringMoves DEF Procs, Typed, TypeOK, Job
  <2>1. CASE AnchorMade(p)
    BY <2>0, <2>1 DEF AnchorMade, Tells
  <2>2. CASE AnchorFails(p)
    BY <2>0, <2>2 DEF AnchorFails, Tells, Rests
  <2>3. CASE AnchorHead(p) \/ AnchorCached(p)
    BY <2>0, <2>3 DEF AnchorHead, AnchorCached, Rests
  <2> QED
    BY <1>2, <2>1, <2>2, <2>3 DEF Anchoring
<1>3. ASSUME NEW p \in Pruners, Pruning(p)
      PROVE  Appends \/ Tells \/ Rests \/ PruneDeletes(p)
  <2>0. p \in Procs /\ "checkpoint" \in Kinds /\ damaged' = damaged
    BY <1>3, PruningMoves DEF Procs, Kinds
  <2>1. ASSUME NEW n \in 1..MaxSeq, PrunePropose(p, n)
        PROVE  Appends
    BY <2>0, <2>1 DEF PrunePropose, Appends, Bodies, Notes
  <2>2. CASE PruneTold(p)
    BY <2>0, <2>2 DEF PruneTold, Appends, Bodies, Notes
  <2>3. CASE PruneAnchors(p) \/ PruneFails(p)
    BY <2>0, <2>3 DEF PruneAnchors, PruneFails, Tells, Rests
  <2>4. CASE PruneOpen(p) \/ PruneRefused(p) \/ PruneConsult(p)
    BY <2>0, <2>4 DEF PruneOpen, PruneRefused, PruneConsult, Rests
  <2> QED
    BY <1>3, <2>1, <2>2, <2>3, <2>4 DEF Pruning
<1>4. CASE \/ Tick
           \/ \E h \in Holds : Holding(h)
           \/ \E k \in Keys : Spending(k)
           \/ \E p \in Procs : Crash(p)
  BY <1>4
  DEF Tick, Holding, PlaceHold, ReleaseHold, Spending, Reserve, Commit, Fail, Crash, Rests, evidence
<1> QED
  BY <1>1, <1>2, <1>3, <1>4, NoDamage DEF Next

(* The head never goes back, and the checkpoint moves only when a prune ends. *)
LEMMA HeadGrows ==
    ASSUME Typed, damaged' = {}, Next
    PROVE  head'.seq \in Nat /\ head.seq \in Nat /\ head.seq <= head'.seq
<1>1. head.seq \in Nat
  BY DEF Typed, TypeOK
<1>2. ASSUME NEW body, AppendReceipt(body)
      PROVE  head'.seq = head.seq + 1
  BY <1>2 DEF AppendReceipt
<1>3. head'.seq \in {head.seq, head.seq + 1}
  BY <1>2, FourKinds DEF Appends, Tells, Rests, PruneDeletes, evidence
<1> QED
  BY <1>1, <1>3

LEMMA ContiguousKept ==
    ASSUME Typed, Whole, damaged' = {}, Next
    PROVE  Contiguous'
<1>0. head.seq \in Nat /\ checkpoint.seq \in Nat /\ damaged = {}
  BY DEF Typed, TypeOK, Points, Whole, Contiguous
<1>1. CASE Tells \/ Rests
  BY <1>1 DEF Tells, Rests, Whole, Contiguous, evidence
<1>2. CASE Appends
  <2>1. PICK body \in Bodies : AppendReceipt(body)
    BY <1>2 DEF Appends
  <2>2. head'.seq = head.seq + 1 /\ DOMAIN rows' = DOMAIN rows \cup {head.seq + 1}
    BY <2>1 DEF AppendReceipt
  <2>3. \A n \in DOMAIN rows' : rows'[n].readable
    BY <2>1 DEF AppendReceipt, Whole, Contiguous
  <2>4. checkpoint' = checkpoint /\ damaged' = damaged
    BY <1>2 DEF Appends
  <2> QED
    BY <1>0, <2>2, <2>3, <2>4 DEF Whole, Contiguous
<1>3. ASSUME NEW p \in Pruners, PruneDeletes(p)
      PROVE  Contiguous'
  <2>1. /\ p \in Procs /\ jobs[p].through \in Nat /\ jobs[p].mark.seq = jobs[p].through
        /\ checkpoint.seq < jobs[p].through /\ jobs[p].through < head.seq
    BY <1>3 DEF PruneDeletes, Procs, Whole, MarksInside, Working, Typed, TypeOK, Job
  <2>2. checkpoint' = jobs[p].mark /\ head' = head /\ damaged' = damaged
    BY <1>0, <1>3, <2>1 DEF PruneDeletes
  <2>3. rows' = [n \in {m \in DOMAIN rows : m > jobs[p].through} |-> rows[n]]
    BY <1>3 DEF PruneDeletes, Kept, Restrict
  <2>4. DOMAIN rows' = (jobs[p].through + 1)..head.seq
    BY <1>0, <2>1, <2>3 DEF Whole, Contiguous
  <2>5. \A n \in DOMAIN rows' : rows'[n].readable
    BY <2>3 DEF Whole, Contiguous
  <2> QED
    BY <1>0, <2>1, <2>2, <2>4, <2>5 DEF Contiguous
<1> QED
  BY <1>0, <1>1, <1>2, <1>3, FourKinds

(* What a prune that may go ahead marks is the very receipt it was asked for. *)
LEMMA MarkIsThrough ==
    ASSUME Typed, Contiguous, NEW n \in Nat, Prunable(n)
    PROVE  Mark(n).seq = n /\ checkpoint.seq < n /\ n < head.seq
<1>0. head.seq \in Nat /\ checkpoint.seq \in Nat
  BY DEF Typed, TypeOK, Points
<1>1. Readable = DOMAIN rows /\ Readable # {} /\ Readable \subseteq 1..MaxSeq
  BY DEF Readable, Contiguous, Prunable, Typed, TypeOK
<1>2. Max(Readable) \in DOMAIN rows
  BY <1>1, Greatest
<1>3. checkpoint.seq < n /\ n < Max(Readable)
  BY DEF Prunable
<1>4. n < head.seq
  BY <1>0, <1>2, <1>3 DEF Contiguous
<1>5. n \in Prefix(n) /\ Prefix(n) \subseteq 1..MaxSeq /\ \A m \in Prefix(n) : m <= n
  BY <1>0, <1>1, <1>3, <1>4 DEF Prefix, Contiguous
<1>6. Max(Prefix(n)) \in Prefix(n) /\ n <= Max(Prefix(n))
  BY <1>5, Greatest
<1>7. Max(Prefix(n)) = n
  BY <1>5, <1>6
<1> QED
  BY <1>3, <1>4, <1>7 DEF Mark

LEMMA CheckpointWaits ==
    ASSUME Typed, damaged' = {}, Next, NEW q \in Procs, Working(jobs'[q].step),
           Working(jobs[q].step)
    PROVE  checkpoint' = checkpoint
<1>1. \A p \in Pruners : ~PruneDeletes(p)
  <2> SUFFICES ASSUME NEW p \in Pruners, PruneDeletes(p) PROVE FALSE
    OBVIOUS
  <2>1. p \in Procs /\ lock = p /\ lock = q
    BY Locked DEF PruneDeletes, Procs, Typed, TypeOK
  <2> QED
    BY <2>1 DEF PruneDeletes, NoJob, Working, Typed, TypeOK
<1> QED
  BY <1>1, FourKinds DEF Appends, Tells, Rests, evidence

LEMMA MarksInsideKept ==
    ASSUME Typed, Whole, damaged' = {}, Next
    PROVE  MarksInside'
<1> SUFFICES ASSUME NEW q \in Procs
             PROVE  /\ jobs'[q].mark.seq <= head'.seq
                    /\ Working(jobs'[q].step) =>
                           /\ jobs'[q].mark.seq = jobs'[q].through
                           /\ checkpoint'.seq < jobs'[q].through /\ jobs'[q].through < head'.seq
  BY DEF MarksInside
<1>0. /\ jobs \in [Procs -> Job] /\ jobs[q] \in Job /\ jobs[q].mark.seq \in Nat
      /\ jobs[q].through \in Nat /\ jobs[q].mark.seq <= head.seq /\ damaged = {}
  BY DEF Typed, TypeOK, Job, Points, Whole, MarksInside, Contiguous
<1>1. head.seq \in Nat /\ head'.seq \in Nat /\ head.seq <= head'.seq
  BY <1>0, HeadGrows
<1>2. CASE Working(jobs'[q].step)
  <2>1. CASE q \in Pruners /\ PruneOpen(q)
    <3>1. jobs'[q].mark = Mark(jobs[q].through) /\ jobs'[q].through = jobs[q].through
      BY <1>0, <2>1 DEF PruneOpen, Job
    <3>2. UNCHANGED <<checkpoint, head>> /\ Prunable(jobs[q].through)
      BY <2>1 DEF PruneOpen, evidence
    <3>3. Mark(jobs[q].through).seq = jobs[q].through /\ checkpoint.seq < jobs[q].through
          /\ jobs[q].through < head.seq
      BY <1>0, <3>2, MarkIsThrough DEF Whole
    <3> QED
      BY <1>0, <1>1, <3>1, <3>2, <3>3
  <2>2. CASE /\ Working(jobs[q].step)
             /\ jobs'[q].mark = jobs[q].mark /\ jobs'[q].through = jobs[q].through
    <3>1. checkpoint' = checkpoint
      BY <1>0, <1>2, <2>2, CheckpointWaits
    <3> QED
      BY <1>0, <1>1, <2>2, <3>1 DEF Whole, MarksInside
  <2>3. \/ q \in Pruners /\ PruneOpen(q)
        \/ /\ Working(jobs[q].step)
           /\ jobs'[q].mark = jobs[q].mark /\ jobs'[q].through = jobs[q].through
    <3>1. CASE jobs'[q] = jobs[q]
      BY <1>2, <3>1
    <3>2. CASE PruneConsult(q) /\ jobs'[q] = Cleared(q)
      BY <1>0, <3>2 DEF PruneConsult, Cleared, Working, Job
    <3>3. CASE PruneAnchors(q) /\ jobs'[q] = Anchored(q)
      BY <1>0, <3>3 DEF PruneAnchors, Anchored, Working, Job
    <3> QED
      BY <1>2, <3>1, <3>2, <3>3, AtWork
  <2> QED
    BY <2>1, <2>2, <2>3
<1>3. CASE ~Working(jobs'[q].step)
  <2>1. jobs'[q].mark \in {jobs[q].mark, Genesis, head}
    <3>1. CASE UNCHANGED jobs
      BY <3>1
    <3>2. ASSUME NEW p \in Anchorers, Anchoring(p)
          PROVE  jobs'[q].mark \in {jobs[q].mark, Genesis, head}
      <4>1. CASE p # q
        BY <3>2, <4>1, AnchoringMoves
      <4>2. CASE AnchorHead(q)
        <5>1. PICK kind \in Kinds :
                  jobs' = [jobs EXCEPT ![q] = [NoJob EXCEPT !.step = "anchoring", !.mark = head,
                                                            !.kind = kind]]
          BY <4>2 DEF AnchorHead
        <5>2. jobs'[q].mark = head
          BY <1>0, <5>1 DEF NoJob
        <5> QED
          BY <5>2
      <4>3. CASE AnchorCached(q) \/ AnchorFails(q)
        BY <1>0, <4>3 DEF AnchorCached, AnchorFails, NoJob
      <4>4. CASE AnchorMade(q)
        BY <1>0, <4>4 DEF AnchorMade, Job
      <4> QED
        BY <3>2, <4>1, <4>2, <4>3, <4>4 DEF Anchoring
    <3>3. ASSUME NEW p \in Pruners, Pruning(p)
          PROVE  jobs'[q].mark \in {jobs[q].mark, Genesis, head}
      <4>1. CASE p # q
        BY <3>3, <4>1, PruningMoves
      <4>2. ASSUME NEW n \in 1..MaxSeq, PrunePropose(q, n)
            PROVE  jobs'[q].mark = Genesis
        BY <1>0, <4>2 DEF PrunePropose, NoJob
      <4>3. CASE PruneConsult(q)
        <5>1. jobs' = [jobs EXCEPT ![q].step = "cleared"] \/ RollBack(q)
          BY <4>3 DEF PruneConsult
        <5> QED
          BY <1>0, <5>1 DEF RollBack, NoJob, Job
      <4>4. CASE PruneAnchors(q)
        BY <1>0, <4>4 DEF PruneAnchors, Job
      <4>5. CASE PruneRefused(q) \/ PruneFails(q) \/ PruneDeletes(q) \/ PruneTold(q)
        BY <1>0, <4>5 DEF PruneRefused, PruneFails, PruneDeletes, PruneTold, RollBack, NoJob
      <4>6. ~PruneOpen(q)
        BY <1>0, <1>3 DEF PruneOpen, Working, Job
      <4> QED
        BY <3>3, <4>1, <4>2, <4>3, <4>4, <4>5, <4>6 DEF Pruning
    <3>4. ASSUME NEW p \in Procs, Crash(p)
          PROVE  jobs'[q].mark \in {jobs[q].mark, Genesis, head}
      BY <1>0, <3>4 DEF Crash, NoJob
    <3> QED
      BY <3>1, <3>2, <3>3, <3>4
      DEF Next, PutReceipt, Tick, Holding, PlaceHold, ReleaseHold, Spending, Reserve, Commit,
          Fail, Damage
  <2>2. Genesis.seq = 0
    BY DEF Genesis
  <2>3. jobs'[q].mark.seq \in {jobs[q].mark.seq, 0, head.seq}
    BY <2>1, <2>2
  <2> QED
    BY <1>0, <1>1, <1>3, <2>3
<1> QED
  BY <1>2, <1>3

(* What was damaged once stays damaged. *)
Sound == damaged = {} => Whole

LEMMA DamageGrows ==
    ASSUME Next
    PROVE  damaged \subseteq damaged'
  BY DEF Next, PutReceipt, Holding, PlaceHold, ReleaseHold, Spending, Reserve, Commit, Fail,
         Anchoring, AnchorHead, AnchorMade, AnchorCached, AnchorFails,
         Pruning, PrunePropose, PruneOpen, PruneRefused, PruneConsult, PruneAnchors, PruneFails,
         PruneDeletes, PruneTold, Crash, Damage, Tick

LEMMA AlwaysSound == Spec => []Sound
<1>1. Init => Sound
  BY DEF Init, Sound, Whole, Contiguous, MarksInside, Genesis, NoJob, Working
<1>2. Typed /\ Sound /\ [Next]_vars => Sound'
  <2> SUFFICES ASSUME Typed, Sound, [Next]_vars, damaged' = {} PROVE Whole'
    BY DEF Sound
  <2>1. CASE Next
    <3>1. damaged = {}
      BY <2>1, DamageGrows
    <3> QED
      BY <2>1, <3>1, ContiguousKept, MarksInsideKept DEF Whole, Sound
  <2>2. CASE UNCHANGED vars
    BY <2>2 DEF vars, Sound, Whole, Contiguous, MarksInside
  <2> QED
    BY <2>1, <2>2
<1> QED
  BY <1>1, <1>2, AlwaysTyped, PTL DEF Spec

Undamaged == damaged = {}

LEMMA NeverDamaged == ASSUME MaxDamage = 0 PROVE Spec => []Undamaged
<1>1. Init => Undamaged
  BY DEF Init, Undamaged
<1>2. Undamaged /\ [Next]_vars => Undamaged'
  <2> SUFFICES ASSUME damaged = {}, [Next]_vars PROVE damaged' = {}
    BY DEF Undamaged
  <2>1. \A n : ~Damage(n)
    BY FS_EmptySet DEF Damage
  <2> QED
    BY <2>1
    DEF Next, PutReceipt, Holding, PlaceHold, ReleaseHold, Spending, Reserve, Commit, Fail,
        Anchoring, AnchorHead, AnchorMade, AnchorCached, AnchorFails,
        Pruning, PrunePropose, PruneOpen, PruneRefused, PruneConsult, PruneAnchors, PruneFails,
        PruneDeletes, PruneTold, Crash, Tick, vars
<1> QED
  BY <1>1, <1>2, PTL DEF Spec

-----------------------------------------------------------------------------
(* Each of the four is a step of the log, or none. *)
LEMMA StepIsLogStep ==
    ASSUME Typed, Whole, Witnessed, damaged' = {}, Next
    PROVE  [Log!Next]_(Log!vars)
<1>0. head.seq \in Nat /\ checkpoint.seq \in Nat /\ damaged = {}
  BY DEF Typed, TypeOK, Points, Whole, Contiguous
<1>1. CASE Rests
  BY <1>1 DEF Rests, Log!vars, evidence
<1>2. CASE Appends
  <2>1. PICK body \in Bodies : AppendReceipt(body)
    BY <1>2 DEF Appends
  <2>2. head'.seq = head.seq + 1 /\ DOMAIN rows' = DOMAIN rows \cup {head.seq + 1}
    BY <2>1 DEF AppendReceipt
  <2>3. checkpoint' = checkpoint /\ provider' = provider
    BY <1>2 DEF Appends
  <2> QED
    BY <2>2, <2>3 DEF Log!Next, Log!Write
<1>3. CASE Tells
  <2>1. PICK p \in Procs, kind \in Kinds : provider' = provider \cup {NewAnchor(kind, jobs[p].mark)}
    BY <1>3 DEF Tells
  <2>2. jobs[p].mark.seq \in 0..head.seq
    BY <1>0 DEF Typed, TypeOK, Job, Points, Whole, MarksInside
  <2>3. NewAnchor(kind, jobs[p].mark).seq = jobs[p].mark.seq
    BY DEF NewAnchor
  <2>4. {a.seq : a \in provider'} = {a.seq : a \in provider} \cup {jobs[p].mark.seq}
    <3> HIDE DEF NewAnchor
    <3> QED
      BY <2>1, <2>3
  <2>5. UNCHANGED <<rows, head, checkpoint>>
    BY <1>3 DEF Tells, evidence
  <2> QED
    BY <2>2, <2>4, <2>5 DEF Log!Next, Log!Witness
<1>4. ASSUME NEW p \in Pruners, PruneDeletes(p)
      PROVE  Log!Erase
  <2>1. /\ p \in Procs /\ jobs[p].through \in Nat /\ jobs[p].mark.seq = jobs[p].through
        /\ checkpoint.seq < jobs[p].through /\ jobs[p].through < head.seq
    BY <1>4 DEF PruneDeletes, Procs, Whole, MarksInside, Working, Typed, TypeOK, Job
  <2>2. checkpoint' = jobs[p].mark /\ head' = head /\ provider' = provider
    BY <1>0, <1>4, <2>1 DEF PruneDeletes
  <2>3. DOMAIN rows' = {m \in DOMAIN rows : m > jobs[p].through}
    BY <1>4 DEF PruneDeletes, Kept, Restrict
  <2>4. Made(p) \in provider /\ Made(p).seq = jobs[p].mark.seq
    BY <1>4, <2>1 DEF PruneDeletes, Witnessed, MadeIsMade, Made
  <2>5. jobs[p].through \in {a.seq : a \in provider}
    BY <2>1, <2>4
  <2> QED
    BY <2>1, <2>2, <2>3, <2>5 DEF Log!Erase
<1> QED
  BY <1>0, <1>1, <1>2, <1>3, <1>4, FourKinds DEF Log!Next

(* A store nobody damaged keeps the promise of EvidenceLog: only a prefix of the   *)
(* receipts is ever erased, never the newest, and its end was shown to the         *)
(* provider first (retention.py, prune; anchor.py, make_anchor).                   *)
THEOREM ChainKeepsEvidence ==
    ASSUME MaxDamage = 0
    PROVE  Spec => KeepsEvidence
<1>1. Init => Log!Init
  BY DEF Init, Log!Init, Genesis
<1>2. Typed /\ Sound /\ Witnessed /\ Undamaged /\ Undamaged' /\ [Next]_vars
        => [Log!Next]_(Log!vars)
  <2> SUFFICES ASSUME Typed, Sound, Witnessed, damaged = {}, damaged' = {}, [Next]_vars
               PROVE  [Log!Next]_(Log!vars)
    BY DEF Undamaged
  <2>1. CASE Next
    BY <2>1, StepIsLogStep DEF Sound
  <2>2. CASE UNCHANGED vars
    BY <2>2 DEF vars, Log!vars
  <2> QED
    BY <2>1, <2>2
<1> QED
  BY <1>1, <1>2, AlwaysTyped, AlwaysSound, AlwaysWitnessed, NeverDamaged, PTL
  DEF Spec, KeepsEvidence, Log!Spec

-----------------------------------------------------------------------------
(* What a prune at work knows of the chain: the rows it walked are the rows it *)
(* deletes, and what the reader would say afterwards is what it found.         *)
Foreseen ==
    \A p \in Procs : Working(jobs[p].step) =>
        /\ Prefix(jobs[p].through) # {}
        /\ jobs[p].mark = Mark(jobs[p].through)
        /\ ~CausesABreak(jobs[p].through)

LEMMA EvidenceWaits ==
    ASSUME Typed, Next, NEW q \in Procs, Working(jobs[q].step), Working(jobs'[q].step)
    PROVE  UNCHANGED evidence
<1>0. lock = q /\ lock # NoOne
  BY Locked
<1>1. \A p \in Pruners : ~PruneDeletes(p)
  <2> SUFFICES ASSUME NEW p \in Pruners, PruneDeletes(p) PROVE FALSE
    OBVIOUS
  <2>1. p \in Procs /\ lock = p
    BY Locked DEF PruneDeletes, Procs, Working
  <2> QED
    BY <1>0, <2>1 DEF PruneDeletes, NoJob, Working, Typed, TypeOK
<1>2. (\E p \in Anchorers : Anchoring(p)) => UNCHANGED evidence
  BY AnchoringMoves
<1>3. ASSUME NEW p \in Pruners, Pruning(p) PROVE UNCHANGED evidence
  BY <1>0, <1>1, <1>3
  DEF Pruning, PrunePropose, PruneOpen, PruneRefused, PruneConsult, PruneAnchors, PruneFails,
      PruneTold, ChainFree
<1> QED
  BY <1>0, <1>2, <1>3
  DEF Next, PutReceipt, Holding, PlaceHold, ReleaseHold, Spending, Reserve, Commit, Fail,
      Crash, Damage, Tick, ChainFree

LEMMA SameEvidence ==
    ASSUME UNCHANGED evidence, NEW n
    PROVE  Prefix(n)' = Prefix(n) /\ Mark(n)' = Mark(n) /\ CausesABreak(n)' = CausesABreak(n)
<1>1. rows' = rows /\ head' = head /\ checkpoint' = checkpoint
  BY DEF evidence
<1>2. Prefix(n)' = Prefix(n)
  BY <1>1 DEF Prefix, Readable
<1>3. Mark(n)' = Mark(n)
  BY <1>1, <1>2 DEF Mark
<1>4. Kept(n)' = Kept(n) /\ Reported' = Reported
  BY <1>1 DEF Kept, Reported
<1> QED
  BY <1>1, <1>2, <1>3, <1>4 DEF CausesABreak

LEMMA ForeseenKept ==
    ASSUME Typed, Foreseen, Next
    PROVE  Foreseen'
<1> SUFFICES ASSUME NEW q \in Procs, Working(jobs'[q].step), NEW n, n = jobs'[q].through
             PROVE  Prefix(n)' # {} /\ jobs'[q].mark = Mark(n)' /\ ~CausesABreak(n)'
  BY DEF Foreseen
<1>0. jobs[q] \in Job
  BY DEF Typed, TypeOK
<1>1. CASE /\ Working(jobs[q].step)
           /\ jobs'[q].through = jobs[q].through /\ jobs'[q].mark = jobs[q].mark
  <2>1. UNCHANGED evidence
    BY <1>1, EvidenceWaits
  <2>2. Prefix(n) # {} /\ jobs[q].mark = Mark(n) /\ ~CausesABreak(n)
    BY <1>1 DEF Foreseen
  <2> QED
    BY <1>1, <2>1, <2>2, SameEvidence
<1>2. CASE PruneOpen(q)
  <2>1. UNCHANGED evidence /\ Prunable(jobs[q].through)
    BY <1>2 DEF PruneOpen
  <2>2. jobs'[q].through = jobs[q].through /\ jobs'[q].mark = Mark(jobs[q].through)
    BY <1>0, <1>2 DEF PruneOpen, Typed, TypeOK, Job
  <2>3. Prefix(jobs[q].through) # {} /\ ~CausesABreak(jobs[q].through)
    BY <2>1 DEF Prunable
  <2> QED
    BY <2>1, <2>2, <2>3, SameEvidence
<1>3. CASE \/ PruneConsult(q) /\ jobs'[q] = Cleared(q)
           \/ PruneAnchors(q) /\ jobs'[q] = Anchored(q)
  BY <1>0, <1>1, <1>3 DEF PruneConsult, PruneAnchors, Cleared, Anchored, Working, Job
<1> QED
  BY <1>1, <1>2, <1>3, AtWork

LEMMA AlwaysForeseen == Spec => []Foreseen
<1>1. Init => Foreseen
  BY DEF Init, Foreseen, Working, NoJob
<1>2. Typed /\ Foreseen /\ [Next]_vars => Foreseen'
  <2> SUFFICES ASSUME Typed, Foreseen, [Next]_vars PROVE Foreseen'
    OBVIOUS
  <2>1. CASE Next
    BY <2>1, ForeseenKept
  <2>2. CASE UNCHANGED vars
    <3>1. UNCHANGED evidence /\ jobs' = jobs
      BY <2>2 DEF vars, evidence
    <3>2. ASSUME NEW q \in Procs, Working(jobs[q].step), NEW n, n = jobs[q].through
          PROVE  Prefix(n)' # {} /\ jobs[q].mark = Mark(n)' /\ ~CausesABreak(n)'
      <4>1. Prefix(n) # {} /\ jobs[q].mark = Mark(n) /\ ~CausesABreak(n)
        BY <3>2 DEF Foreseen
      <4> QED
        BY <3>1, <4>1, SameEvidence
    <3> QED
      BY <3>1, <3>2 DEF Foreseen
  <2> QED
    BY <2>1, <2>2
<1> QED
  BY <1>1, <1>2, AlwaysTyped, PTL DEF Spec

(* Only the last step of a prune moves the checkpoint. *)
LEMMA OnlyPrunesMark ==
    ASSUME Typed, Next, checkpoint' # checkpoint
    PROVE  \E p \in Pruners : PruneDeletes(p)
<1>1. (\E p \in Anchorers : Anchoring(p)) => checkpoint' = checkpoint
  BY AnchoringMoves DEF evidence
<1> QED
  BY <1>1
  DEF Next, PutReceipt, Holding, PlaceHold, ReleaseHold, Spending, Reserve, Commit, Fail,
      Pruning, PrunePropose, PruneOpen, PruneRefused, PruneConsult, PruneAnchors, PruneFails,
      PruneTold, Crash, Damage, Tick, evidence

(* PruneAddsNoBreak: whatever is wrong with a chain, a prune that moves the      *)
(* checkpoint leaves no break that was not there (retention.py, rule 2), however *)
(* long it held the lock between its check and its delete.                       *)
THEOREM PruneIsHarmless == Spec => PruneAddsNoBreak
<1>1. Typed /\ Foreseen /\ [Next]_vars => [checkpoint' # checkpoint => Reported' \subseteq Reported]_vars
  <2> SUFFICES ASSUME Typed, Foreseen, Next, checkpoint' # checkpoint
               PROVE  Reported' \subseteq Reported
    OBVIOUS
  <2>1. PICK p \in Pruners : PruneDeletes(p)
    BY OnlyPrunesMark
  <2>2. Working(jobs[p].step) /\ p \in Procs
    BY <2>1 DEF PruneDeletes, Working, Procs
  <2>3. jobs[p].mark = Mark(jobs[p].through) /\ ~CausesABreak(jobs[p].through)
    BY <2>2 DEF Foreseen
  <2>4. checkpoint' = jobs[p].mark /\ rows' = Kept(jobs[p].through) /\ head' = head
    BY <2>1 DEF PruneDeletes
  <2>5. Reported' = Breaks(Kept(jobs[p].through), head, Mark(jobs[p].through))
    BY <2>3, <2>4 DEF Reported
  <2> QED
    BY <2>3, <2>5 DEF CausesABreak
<1> QED
  BY <1>1, AlwaysTyped, AlwaysForeseen, PTL DEF Spec, PruneAddsNoBreak

-----------------------------------------------------------------------------
(* A loss.  What is kept lies above the checkpoint, and the checkpoint below the *)
(* head; what was lost is on record.                                             *)
Ordered ==
    /\ checkpoint.seq <= head.seq
    /\ \A n \in DOMAIN rows : checkpoint.seq < n
    /\ damaged \subseteq (1..MaxSeq) \X {"lost", "unreadable", "stripped"}

LEMMA OrderedKept ==
    ASSUME Typed, Numbered, Foreseen, Ordered, Next
    PROVE  Ordered'
<1>0. head.seq \in Nat /\ checkpoint.seq \in Nat /\ DOMAIN rows \subseteq 1..MaxSeq
  BY DEF Typed, TypeOK, Points
<1>1. CASE UNCHANGED <<evidence, damaged>>
  BY <1>1 DEF Ordered, evidence
<1>2. ASSUME NEW body, AppendReceipt(body), checkpoint' = checkpoint, damaged' = damaged
      PROVE  Ordered'
  <2>1. head'.seq = head.seq + 1 /\ DOMAIN rows' = DOMAIN rows \cup {head.seq + 1}
    BY <1>2 DEF AppendReceipt
  <2> QED
    BY <1>0, <1>2, <2>1 DEF Ordered
<1>3. ASSUME NEW n \in 1..MaxSeq, Damage(n)
      PROVE  Ordered'
  <2>1. head' = head /\ checkpoint' = checkpoint /\ DOMAIN rows' \subseteq DOMAIN rows
    BY <1>3 DEF Damage, Restrict
  <2>2. damaged' \in {damaged \cup {<<n, "lost">>}, damaged \cup {<<n, "unreadable">>},
                      damaged \cup {<<n, "stripped">>}}
    BY <1>3 DEF Damage
  <2> QED
    BY <2>1, <2>2 DEF Ordered
<1>4. ASSUME NEW p \in Pruners, PruneDeletes(p)
      PROVE  Ordered'
  <2>0. p \in Procs /\ Working(jobs[p].step)
    BY <1>4 DEF PruneDeletes, Procs, Working
  <2>1. PICK n : n = jobs[p].through
    OBVIOUS
  <2>2. n \in Nat /\ Prefix(n) # {} /\ jobs[p].mark = Mark(n)
    BY <2>0, <2>1 DEF Foreseen, Typed, TypeOK, Job
  <2>3. Prefix(n) \subseteq DOMAIN rows /\ Prefix(n) \subseteq 1..MaxSeq
        /\ \A m \in Prefix(n) : m <= n
    BY <1>0 DEF Prefix, Readable
  <2>4. Mark(n).seq \in Prefix(n)
    BY <2>2, <2>3, Greatest DEF Mark
  <2>5. Mark(n).seq \in Nat /\ Mark(n).seq <= n /\ Mark(n).seq <= head.seq
        /\ Mark(n).seq \in DOMAIN rows
    BY <1>0, <2>3, <2>4 DEF Numbered
  <2>6. checkpoint' = Mark(n) /\ head' = head /\ damaged' = damaged
    BY <1>4, <2>2, <2>5 DEF PruneDeletes, Ordered
  <2>7. DOMAIN rows' = {m \in DOMAIN rows : m > n}
    BY <1>4, <2>1 DEF PruneDeletes, Kept, Restrict
  <2> QED
    BY <1>0, <2>2, <2>5, <2>6, <2>7 DEF Ordered
<1>5. ASSUME NEW p \in Pruners, Pruning(p)
      PROVE  Ordered'
  <2>1. damaged' = damaged
    BY <1>5, PruningMoves
  <2>2. CASE \/ \E n \in 1..MaxSeq : PrunePropose(p, n)
             \/ PruneTold(p)
    BY <1>2, <2>1, <2>2 DEF PrunePropose, PruneTold
  <2>3. CASE \/ PruneOpen(p) \/ PruneRefused(p) \/ PruneConsult(p) \/ PruneAnchors(p)
             \/ PruneFails(p)
    BY <1>1, <2>1, <2>3
    DEF PruneOpen, PruneRefused, PruneConsult, PruneAnchors, PruneFails
  <2> QED
    BY <1>4, <1>5, <2>2, <2>3 DEF Pruning
<1>6. CASE PutReceipt
  BY <1>2, <1>6 DEF PutReceipt
<1>7. ASSUME NEW p \in Anchorers, Anchoring(p)
      PROVE  Ordered'
  BY <1>1, <1>7, AnchoringMoves
<1>8. CASE \/ Tick
           \/ \E h \in Holds : Holding(h)
           \/ \E k \in Keys : Spending(k)
           \/ \E p \in Procs : Crash(p)
  BY <1>1, <1>8
  DEF Tick, Holding, PlaceHold, ReleaseHold, Spending, Reserve, Commit, Fail, Crash
<1> QED
  BY <1>3, <1>5, <1>6, <1>7, <1>8 DEF Next

LEMMA AlwaysOrdered == Spec => []Ordered
<1>1. Init => Ordered
  BY DEF Init, Ordered, Genesis
<1>2. Typed /\ Numbered /\ Foreseen /\ Ordered /\ [Next]_vars => Ordered'
  <2> SUFFICES ASSUME Typed, Numbered, Foreseen, Ordered, [Next]_vars PROVE Ordered'
    OBVIOUS
  <2>1. CASE UNCHANGED vars
    BY <2>1 DEF vars, Ordered
  <2> QED
    BY <2>1, OrderedKept
<1> QED
  BY <1>1, <1>2, AlwaysTyped, AlwaysNumbered, AlwaysForeseen, PTL DEF Spec

(* The least of some receipts is one of them. *)
LEMMA Least ==
    ASSUME NEW S, S \subseteq 1..MaxSeq, S # {}
    PROVE  \E m \in S : \A n \in S : m <= n
<1>1. S \subseteq Nat
  BY ChainConstants
<1>2. PICK m \in S : \A n \in S : ~(<<n, m>> \in OpToRel(<, Nat))
  BY <1>1, NatLessThanWellFounded, WFMin
<1>3. \A n \in S : ~(n < m)
  BY <1>1, <1>2 DEF OpToRel
<1> QED
  BY <1>1, <1>3

(* A walk over rows that miss a number stumbles at the next one, or at the head. *)
LEMMA GapIsFound ==
    ASSUME NEW rs, DOMAIN rs \subseteq 1..MaxSeq, NEW hd, hd.seq \in Nat,
           NEW start, start.seq \in Nat, NEW n \in Nat, n \notin DOMAIN rs,
           start.seq < n, n <= hd.seq
    PROVE  Breaks(rs, hd, start) # {}
<1>0. DOMAIN rs \subseteq Nat
  BY ChainConstants
<1>1. CASE {m \in DOMAIN rs : n < m} = {}
  <2>1. Last(rs, start) # hd.seq
    <3>1. CASE DOMAIN rs = {}
      BY <3>1 DEF Last
    <3>2. CASE DOMAIN rs # {}
      <4>1. Max(DOMAIN rs) \in DOMAIN rs
        BY <3>2, Greatest
      <4>2. Max(DOMAIN rs) < n
        BY <1>0, <1>1, <4>1
      <4> QED
        BY <1>0, <3>2, <4>1, <4>2 DEF Last
    <3> QED
      BY <3>1, <3>2
  <2>2. <<"head_mismatch", hd.seq>> \in HeadBreaks(rs, hd, start)
    <3>1. \A h : hd # [seq |-> Last(rs, start), hash |-> h]
      BY <2>1
    <3> QED
      BY <3>1 DEF HeadBreaks
  <2> QED
    BY <2>2 DEF Breaks
<1>2. CASE {m \in DOMAIN rs : n < m} # {}
  <2> DEFINE Beyond == {m \in DOMAIN rs : n < m}
  <2>1. PICK m \in Beyond : \A k \in Beyond : m <= k
    <3>1. Beyond \subseteq 1..MaxSeq /\ Beyond # {}
      BY <1>2
    <3> HIDE DEF Beyond
    <3> QED
      BY <3>1, Least
  <2>2. \A k \in Below(rs, m) : k < n
    BY <1>0, <2>1 DEF Below
  <2>3. m # ExpectedSeq(rs, start, m)
    <3>1. CASE Below(rs, m) = {}
      BY <1>0, <3>1 DEF ExpectedSeq
    <3>2. CASE Below(rs, m) # {}
      <4>1. Below(rs, m) \subseteq 1..MaxSeq /\ Below(rs, m) \subseteq Nat
        BY <1>0 DEF Below
      <4>2. Max(Below(rs, m)) \in Below(rs, m)
        BY <3>2, <4>1, Greatest
      <4>3. Max(Below(rs, m)) \in Nat /\ Max(Below(rs, m)) < n
        BY <2>2, <4>1, <4>2
      <4> QED
        BY <1>0, <3>2, <4>3 DEF ExpectedSeq
    <3> QED
      BY <3>1, <3>2
  <2>4. <<"missing", ExpectedSeq(rs, start, m)>> \in Breaks(rs, hd, start)
    BY <2>3 DEF Breaks
  <2> QED
    BY <2>4
<1> QED
  BY <1>1, <1>2

(* LossIsReported: a lost row is reported until a prune accounts for it, and no *)
(* append, prune or further damage hides it (receipt.py, verify_chain).         *)
THEOREM LossAlwaysReported == Spec => []LossIsReported
<1>1. Typed /\ Numbered /\ Ordered => LossIsReported
  <2> SUFFICES ASSUME Typed, Numbered, Ordered, NEW d \in damaged, d[2] = "lost", d[1] > checkpoint.seq
               PROVE  Reported # {}
    BY DEF LossIsReported
  <2>1. d[1] \in 1..MaxSeq /\ <<d[1], "lost">> \in damaged
    BY DEF Ordered
  <2>2. d[1] <= head.seq /\ d[1] \notin DOMAIN rows
    BY <2>1 DEF Numbered
  <2>3. /\ DOMAIN rows \subseteq 1..MaxSeq /\ head.seq \in Nat /\ checkpoint.seq \in Nat
        /\ d[1] \in Nat /\ checkpoint.seq < d[1]
    BY <2>1, ChainConstants DEF Typed, TypeOK, Points
  <2> QED
    BY <2>2, <2>3, GapIsFound DEF Reported
<1> QED
  BY <1>1, AlwaysTyped, AlwaysNumbered, AlwaysOrdered, PTL

-----------------------------------------------------------------------------
(* The links.  Each row is hashed over the one before it, the first over what the *)
(* checkpoint names, and the head names the last.                                 *)
HashAt(n) == IF n = checkpoint.seq THEN checkpoint.hash ELSE rows[n].hash

Linked ==
    /\ \A n \in DOMAIN rows :
          /\ rows[n].prev \in Seq(Bodies)
          /\ rows[n].hash = ChainHash(rows[n])
          /\ rows[n].prev = HashAt(n - 1)
    /\ head.hash = HashAt(head.seq)

SoundlyLinked == damaged = {} => Linked

LEMMA LinkedKept ==
    ASSUME Typed, Whole, Foreseen, Linked, damaged' = {}, Next
    PROVE  Linked'
<1>0. /\ head.seq \in Nat /\ checkpoint.seq \in Nat /\ damaged = {} /\ head.hash \in Seq(Bodies)
      /\ checkpoint.seq <= head.seq /\ DOMAIN rows = (checkpoint.seq + 1)..head.seq
  BY DEF Typed, TypeOK, Points, Whole, Contiguous
<1>1. CASE Tells \/ Rests
  BY <1>1 DEF Tells, Rests, Linked, HashAt, evidence
<1>2. CASE Appends
  <2>1. PICK body \in Bodies : AppendReceipt(body)
    BY <1>2 DEF Appends
  <2>2. checkpoint' = checkpoint /\ head'.seq = head.seq + 1 /\ head'.hash = Append(head.hash, body)
        /\ DOMAIN rows' = DOMAIN rows \cup {head.seq + 1}
        /\ \A n \in DOMAIN rows : rows'[n] = rows[n]
    BY <1>2, <2>1 DEF AppendReceipt, Appends
  <2>3. rows'[head.seq + 1] = [body |-> body, prev |-> head.hash, hash |-> Append(head.hash, body),
                               readable |-> TRUE]
    BY <1>0, <2>1 DEF AppendReceipt
  <2>4. \A n \in checkpoint.seq..head.seq : HashAt(n)' = HashAt(n)
    BY <1>0, <2>2 DEF HashAt
  <2>5. ASSUME NEW n \in DOMAIN rows
        PROVE  /\ rows'[n].prev \in Seq(Bodies) /\ rows'[n].hash = ChainHash(rows'[n])
               /\ rows'[n].prev = HashAt(n - 1)'
    <3>1. n - 1 \in checkpoint.seq..head.seq
      BY <1>0
    <3>2. HashAt(n - 1)' = HashAt(n - 1)
      BY <2>4, <3>1
    <3> QED
      BY <2>2, <3>2 DEF Linked
  <2>6. PICK h : h = head.seq
    OBVIOUS
  <2>7. /\ rows'[h + 1].prev \in Seq(Bodies)
        /\ rows'[h + 1].hash = ChainHash(rows'[h + 1])
        /\ rows'[h + 1].prev = HashAt(h)'
    <3>1. HashAt(h)' = HashAt(h) /\ HashAt(h) = head.hash
      BY <1>0, <2>4, <2>6 DEF Linked
    <3> QED
      BY <1>0, <2>3, <2>6, <3>1 DEF ChainHash
  <2>8. (h + 1) - 1 = h /\ h + 1 # checkpoint.seq
    BY <1>0, <2>6
  <2>9. head'.hash = HashAt(h + 1)'
    BY <1>0, <2>2, <2>3, <2>6, <2>8 DEF HashAt
  <2>10. DOMAIN rows' = DOMAIN rows \cup {h + 1} /\ head'.seq = h + 1
    BY <2>2, <2>6
  <2> QED
    BY <2>5, <2>7, <2>8, <2>9, <2>10 DEF Linked
<1>3. ASSUME NEW p \in Pruners, PruneDeletes(p)
      PROVE  Linked'
  <2>0. PICK k : k = jobs[p].through
    OBVIOUS
  <2>1. /\ p \in Procs /\ k \in Nat /\ jobs[p].mark = Mark(k) /\ jobs[p].mark.seq = k
        /\ checkpoint.seq < k /\ k < head.seq
    BY <1>3, <2>0
    DEF PruneDeletes, Procs, Whole, MarksInside, Working, Typed, TypeOK, Job, Foreseen
  <2>2. checkpoint' = [seq |-> k, hash |-> rows[k].hash] /\ head' = head
    <3>1. Mark(k) = [seq |-> k, hash |-> rows[k].hash]
      BY <2>1 DEF Mark
    <3> QED
      BY <1>0, <1>3, <2>1, <3>1 DEF PruneDeletes
  <2>3. DOMAIN rows' = (k + 1)..head.seq /\ \A n \in DOMAIN rows' : rows'[n] = rows[n]
    <3>1. rows' = [n \in {m \in DOMAIN rows : m > k} |-> rows[n]]
      BY <1>3, <2>0 DEF PruneDeletes, Kept, Restrict
    <3> QED
      BY <1>0, <2>1, <3>1
  <2>4. \A n \in k..head.seq : HashAt(n)' = HashAt(n)
    BY <1>0, <2>1, <2>2, <2>3 DEF HashAt
  <2>5. ASSUME NEW n \in DOMAIN rows'
        PROVE  /\ rows'[n].prev \in Seq(Bodies) /\ rows'[n].hash = ChainHash(rows'[n])
               /\ rows'[n].prev = HashAt(n - 1)'
    <3>1. n - 1 \in k..head.seq /\ n \in DOMAIN rows
      BY <1>0, <2>1, <2>3
    <3>2. HashAt(n - 1)' = HashAt(n - 1)
      BY <2>4, <3>1
    <3> QED
      BY <2>3, <3>1, <3>2 DEF Linked
  <2>6. head'.hash = HashAt(head.seq)'
    BY <1>0, <2>1, <2>2, <2>4 DEF Linked
  <2> QED
    BY <2>2, <2>5, <2>6 DEF Linked
<1> QED
  BY <1>0, <1>1, <1>2, <1>3, FourKinds

LEMMA AlwaysLinked == Spec => []SoundlyLinked
<1>1. Init => SoundlyLinked
  BY DEF Init, SoundlyLinked, Linked, HashAt, Genesis
<1>2. Typed /\ Sound /\ Foreseen /\ SoundlyLinked /\ [Next]_vars => SoundlyLinked'
  <2> SUFFICES ASSUME Typed, Sound, Foreseen, SoundlyLinked, [Next]_vars, damaged' = {}
               PROVE  Linked'
    BY DEF SoundlyLinked
  <2>1. CASE Next
    <3>1. damaged = {}
      BY <2>1, DamageGrows
    <3> QED
      BY <2>1, <3>1, LinkedKept DEF Sound, SoundlyLinked
  <2>2. CASE UNCHANGED vars
    BY <2>2 DEF vars, SoundlyLinked, Linked, HashAt
  <2> QED
    BY <2>1, <2>2
<1> QED
  BY <1>1, <1>2, AlwaysTyped, AlwaysSound, AlwaysForeseen, PTL DEF Spec

(* What the walk expects at each number is what is there. *)
LEMMA WalkExpects ==
    ASSUME Typed, Whole, Linked, NEW n \in (checkpoint.seq + 1)..(head.seq + 1)
    PROVE  ExpectedSeq(rows, checkpoint, n) = n /\ ExpectedPrev(rows, checkpoint, n) = HashAt(n - 1)
<1>0. /\ head.seq \in Nat /\ checkpoint.seq \in Nat /\ DOMAIN rows \subseteq 1..MaxSeq
      /\ checkpoint.seq <= head.seq /\ DOMAIN rows = (checkpoint.seq + 1)..head.seq
  BY DEF Typed, TypeOK, Points, Whole, Contiguous
<1>1. Below(rows, n) = (checkpoint.seq + 1)..(n - 1)
  BY <1>0 DEF Below
<1>2. CASE n = checkpoint.seq + 1
  <2>1. Below(rows, n) = {}
    BY <1>0, <1>1, <1>2
  <2>2. n - 1 = checkpoint.seq
    BY <1>0, <1>2
  <2> QED
    BY <1>2, <2>1, <2>2 DEF ExpectedSeq, ExpectedPrev, HashAt
<1>3. CASE n # checkpoint.seq + 1
  <2>1. n - 1 \in Below(rows, n) /\ Below(rows, n) \subseteq DOMAIN rows
        /\ \A m \in Below(rows, n) : m <= n - 1
    BY <1>0, <1>1, <1>3
  <2>2. Max(Below(rows, n)) \in Below(rows, n) /\ \A m \in Below(rows, n) : m <= Max(Below(rows, n))
    BY <1>0, <2>1, Greatest
  <2>3. Max(Below(rows, n)) = n - 1
    <3>1. Max(Below(rows, n)) <= n - 1 /\ n - 1 <= Max(Below(rows, n))
      BY <2>1, <2>2
    <3>2. Max(Below(rows, n)) \in Nat /\ n - 1 \in Nat
      BY <1>0, <1>1, <2>1, <2>2
    <3> QED
      BY <3>1, <3>2
  <2>4. rows[n - 1].readable /\ rows[n - 1].hash = ChainHash(rows[n - 1]) /\ n - 1 # checkpoint.seq
    BY <1>0, <1>3, <2>1 DEF Whole, Contiguous, Linked
  <2>5. Below(rows, n) # {} /\ (n - 1) + 1 = n
    BY <1>0, <2>1
  <2> QED
    BY <2>3, <2>4, <2>5 DEF ExpectedSeq, ExpectedPrev, HashAt
<1> QED
  BY <1>2, <1>3

(* ChainVerifies: a chain nobody damaged verifies at every moment, with writers,  *)
(* prunes, refusals and crashes at any of their steps (receipt.py, verify_chain). *)
THEOREM AlwaysVerifies == Spec => []ChainVerifies
<1>1. Typed /\ Sound /\ SoundlyLinked => ChainVerifies
  <2> SUFFICES ASSUME Typed, Whole, Linked PROVE Reported = {}
    BY DEF Sound, SoundlyLinked, ChainVerifies
  <2>0. /\ head.seq \in Nat /\ checkpoint.seq \in Nat /\ DOMAIN rows \subseteq 1..MaxSeq
        /\ checkpoint.seq <= head.seq /\ DOMAIN rows = (checkpoint.seq + 1)..head.seq
        /\ head = [seq |-> head.seq, hash |-> head.hash]
    BY DEF Typed, TypeOK, Points, Whole, Contiguous
  <2>1. \A n \in DOMAIN rows : /\ n = ExpectedSeq(rows, checkpoint, n)
                               /\ rows[n].prev = ExpectedPrev(rows, checkpoint, n)
    <3>1. \A n \in DOMAIN rows : n \in (checkpoint.seq + 1)..(head.seq + 1)
      BY <2>0
    <3> QED
      BY <3>1, WalkExpects DEF Linked
  <2>2. \A n \in DOMAIN rows : ~Altered(rows[n]) /\ rows[n].hash # NoHash
    <3> SUFFICES ASSUME NEW n \in DOMAIN rows PROVE ~Altered(rows[n]) /\ rows[n].hash # NoHash
      OBVIOUS
    <3>1. rows[n].readable /\ rows[n].hash = ChainHash(rows[n])
      BY DEF Whole, Contiguous, Linked
    <3>2. rows[n].prev \in Seq(Bodies) /\ rows[n].body \in Bodies
      BY DEF Linked, Typed, TypeOK, ReceiptRow
    <3>3. ChainHash(rows[n]) \in Seq(Bodies)
      BY <3>2 DEF ChainHash
    <3> QED
      BY <3>1, <3>3, NoHashIsNone DEF Altered
  <2>3. Last(rows, checkpoint) = head.seq
    <3>1. CASE DOMAIN rows = {}
      <4>1. checkpoint.seq = head.seq
        BY <2>0, <3>1
      <4> QED
        BY <3>1, <4>1 DEF Last
    <3>2. CASE DOMAIN rows # {}
      <4>1. head.seq \in DOMAIN rows
        BY <2>0, <3>2
      <4>2. Max(DOMAIN rows) \in DOMAIN rows /\ head.seq <= Max(DOMAIN rows)
        BY <2>0, <3>2, <4>1, Greatest
      <4>3. Max(DOMAIN rows) = head.seq
        BY <2>0, <4>2
      <4> QED
        BY <3>2, <4>3 DEF Last
    <3> QED
      BY <3>1, <3>2
  <2>4. HeadBreaks(rows, head, checkpoint) = {}
    <3>1. head.seq + 1 \in (checkpoint.seq + 1)..(head.seq + 1) /\ (head.seq + 1) - 1 = head.seq
      BY <2>0
    <3>2. ExpectedPrev(rows, checkpoint, head.seq + 1) = head.hash
      BY <3>1, WalkExpects DEF Linked
    <3> QED
      BY <2>0, <2>3, <3>2 DEF HeadBreaks
  <2> QED
    BY <2>1, <2>2, <2>4 DEF Reported, Breaks
<1> QED
  BY <1>1, AlwaysTyped, AlwaysSound, AlwaysLinked, PTL

-----------------------------------------------------------------------------
(* The pairs.  What was anchored, or is about to be, was a point of the chain, and *)
(* where the chain still reaches so far it is one yet.                             *)
Seen(s, h) == 0 < s /\ s <= head.seq /\ (checkpoint.seq < s => h = HashAt(s))

Shown ==
    /\ \A a \in provider : Seen(a.seq, a.hash)
    /\ \A p \in Procs : jobs[p].step \in {"anchoring", "opened", "cleared"} =>
           Seen(jobs[p].mark.seq, jobs[p].mark.hash)

SoundlyShown == damaged = {} => Shown

LEMMA SeenKept ==
    ASSUME Typed, Whole, Foreseen, damaged' = {}, Next, NEW s \in Nat, NEW h, Seen(s, h)
    PROVE  Seen(s, h)'
<1>0. /\ head.seq \in Nat /\ checkpoint.seq \in Nat /\ damaged = {}
      /\ checkpoint.seq <= head.seq /\ DOMAIN rows = (checkpoint.seq + 1)..head.seq
  BY DEF Typed, TypeOK, Points, Whole, Contiguous
<1>1. CASE Tells \/ Rests
  BY <1>1 DEF Tells, Rests, Seen, HashAt, evidence
<1>2. CASE Appends
  <2>1. PICK body \in Bodies : AppendReceipt(body)
    BY <1>2 DEF Appends
  <2>2. checkpoint' = checkpoint /\ head'.seq = head.seq + 1
        /\ \A n \in DOMAIN rows : rows'[n] = rows[n]
    BY <1>2, <2>1 DEF AppendReceipt, Appends
  <2> QED
    BY <1>0, <2>2 DEF Seen, HashAt
<1>3. ASSUME NEW p \in Pruners, PruneDeletes(p)
      PROVE  Seen(s, h)'
  <2>0. PICK k : k = jobs[p].through
    OBVIOUS
  <2>1. /\ p \in Procs /\ k \in Nat /\ jobs[p].mark.seq = k
        /\ checkpoint.seq < k /\ k < head.seq
    BY <1>3, <2>0
    DEF PruneDeletes, Procs, Whole, MarksInside, Working, Typed, TypeOK, Job
  <2>2. checkpoint'.seq = k /\ head' = head
    BY <1>0, <1>3, <2>1 DEF PruneDeletes
  <2>3. \A n \in (k + 1)..head.seq : rows'[n] = rows[n]
    <3>1. rows' = [n \in {m \in DOMAIN rows : m > k} |-> rows[n]]
      BY <1>3, <2>0 DEF PruneDeletes, Kept, Restrict
    <3> QED
      BY <1>0, <2>1, <3>1
  <2> QED
    BY <1>0, <2>1, <2>2, <2>3 DEF Seen, HashAt
<1> QED
  BY <1>0, <1>1, <1>2, <1>3, FourKinds

(* What a process is about to show is the head, or the receipt a prune marks. *)
LEMMA AboutToShow ==
    ASSUME Typed, ~AnchorEmpty, Next, NEW q \in Procs,
           jobs'[q].step \in {"anchoring", "opened", "cleared"}
    PROVE  \/ /\ jobs[q].step \in {"anchoring", "opened", "cleared"}
              /\ jobs'[q].mark = jobs[q].mark
           \/ /\ UNCHANGED evidence /\ head.seq > 0 /\ jobs'[q].mark = head
           \/ /\ UNCHANGED evidence /\ Prunable(jobs[q].through)
              /\ jobs'[q].mark = Mark(jobs[q].through)
<1>0. jobs \in [Procs -> Job] /\ jobs[q] \in Job
  BY DEF Typed, TypeOK
<1>1. CASE jobs'[q] = jobs[q]
  BY <1>1
<1>2. CASE Working(jobs'[q].step)
  <2>1. CASE PruneOpen(q)
    BY <1>0, <2>1 DEF PruneOpen, Job
  <2>2. CASE PruneConsult(q) /\ jobs'[q] = Cleared(q)
    BY <1>0, <2>2 DEF PruneConsult, Cleared, Job
  <2>3. CASE PruneAnchors(q) /\ jobs'[q] = Anchored(q)
    BY <1>0, <2>3 DEF PruneAnchors, Anchored, Job
  <2> QED
    BY <1>1, <1>2, <2>1, <2>2, <2>3, AtWork
<1>3. CASE jobs'[q].step = "anchoring" /\ jobs'[q] # jobs[q]
  <2>1. ASSUME NEW p \in Pruners, Pruning(p)
        PROVE  FALSE
    BY <1>3, <2>1, PruningMoves
  <2>2. ASSUME NEW p \in Procs, Crash(p)
        PROVE  FALSE
    BY <1>0, <1>3, <2>2 DEF Crash, NoJob
  <2>3. PICK p \in Anchorers : Anchoring(p)
    BY <1>3, <2>1, <2>2
    DEF Next, PutReceipt, Holding, PlaceHold, ReleaseHold, Spending, Reserve, Commit, Fail,
        Damage, Tick
  <2>4. p = q /\ UNCHANGED evidence
    BY <1>3, <2>3, AnchoringMoves
  <2>5. AnchorHead(q)
    BY <1>0, <1>3, <2>3, <2>4 DEF Anchoring, AnchorMade, AnchorCached, AnchorFails, NoJob, Job
  <2>6. PICK kind \in Kinds :
            jobs' = [jobs EXCEPT ![q] = [NoJob EXCEPT !.step = "anchoring", !.mark = head,
                                                      !.kind = kind]]
    BY <2>5 DEF AnchorHead
  <2>7. jobs'[q].mark = head
    BY <1>0, <2>6 DEF NoJob
  <2> QED
    BY <2>4, <2>5, <2>7 DEF AnchorHead
<1> QED
  BY <1>1, <1>2, <1>3 DEF Working

LEMMA ShownKept ==
    ASSUME Typed, ~AnchorEmpty, Whole, Foreseen, Linked, Shown, damaged' = {}, Next
    PROVE  Shown'
<1>0. /\ head.seq \in Nat /\ checkpoint.seq \in Nat /\ damaged = {}
      /\ \A p \in Procs : jobs[p].mark.seq \in Nat /\ jobs[p].through \in Nat
      /\ \A a \in provider : a.seq \in Nat
  BY DEF Typed, TypeOK, Points, Whole, Contiguous, Job, Anchor
<1>1. ASSUME NEW a \in provider', NEW s, s = a.seq, NEW h, h = a.hash
      PROVE  Seen(s, h)'
  <2>1. CASE a \in provider
    BY <1>0, <1>1, <2>1, SeenKept DEF Shown
  <2>2. CASE a \notin provider
    <3>1. Tells
      BY <1>0, <2>2, FourKinds DEF Appends, Rests, PruneDeletes
    <3>2. PICK p \in Procs, kind \in Kinds :
              /\ jobs[p].step \in {"anchoring", "cleared"}
              /\ provider' = provider \cup {NewAnchor(kind, jobs[p].mark)}
      BY <3>1 DEF Tells
    <3>3. a = NewAnchor(kind, jobs[p].mark)
      BY <2>2, <3>2
    <3>4. s = jobs[p].mark.seq /\ h = jobs[p].mark.hash
      BY <1>1, <3>3 DEF NewAnchor
    <3>5. Seen(s, h)
      BY <3>2, <3>4 DEF Shown
    <3> QED
      BY <1>0, <3>4, <3>5, SeenKept
  <2> QED
    BY <2>1, <2>2
<1>2. ASSUME NEW q \in Procs, jobs'[q].step \in {"anchoring", "opened", "cleared"},
             NEW s, s = jobs'[q].mark.seq, NEW h, h = jobs'[q].mark.hash
      PROVE  Seen(s, h)'
  <2>1. s \in Nat /\ Seen(s, h)
    <3>1. CASE /\ jobs[q].step \in {"anchoring", "opened", "cleared"}
               /\ jobs'[q].mark = jobs[q].mark
      BY <1>0, <1>2, <3>1 DEF Shown
    <3>2. CASE head.seq > 0 /\ jobs'[q].mark = head
      BY <1>0, <1>2, <3>2 DEF Seen, Linked
    <3>3. CASE Prunable(jobs[q].through) /\ jobs'[q].mark = Mark(jobs[q].through)
      <4>1. PICK n : n = jobs[q].through
        OBVIOUS
      <4>2. n \in Nat /\ Mark(n).seq = n /\ checkpoint.seq < n /\ n < head.seq
        BY <1>0, <3>3, <4>1, MarkIsThrough DEF Whole
      <4>3. Mark(n).hash = rows[n].hash
        BY <4>2 DEF Mark
      <4> QED
        BY <1>0, <1>2, <3>3, <4>1, <4>2, <4>3 DEF Seen, HashAt
    <3> QED
      BY <1>2, <3>1, <3>2, <3>3, AboutToShow
  <2> QED
    BY <2>1, SeenKept
<1> QED
  BY <1>1, <1>2 DEF Shown

LEMMA AlwaysShown == ASSUME ~AnchorEmpty PROVE Spec => []SoundlyShown
<1>1. Init => SoundlyShown
  BY DEF Init, SoundlyShown, Shown, NoJob
<1>2. Typed /\ Sound /\ Foreseen /\ SoundlyLinked /\ SoundlyShown /\ [Next]_vars => SoundlyShown'
  <2> SUFFICES ASSUME Typed, Sound, Foreseen, SoundlyLinked, SoundlyShown, [Next]_vars, damaged' = {}
               PROVE  Shown'
    BY DEF SoundlyShown
  <2>1. CASE Next
    <3>1. damaged = {}
      BY <2>1, DamageGrows
    <3> QED
      BY <2>1, <3>1, ShownKept DEF Sound, SoundlyLinked, SoundlyShown
  <2>2. CASE UNCHANGED vars
    BY <2>2 DEF vars, SoundlyShown, Shown, Seen, HashAt
  <2> QED
    BY <2>1, <2>2
<1> QED
  BY <1>1, <1>2, AlwaysTyped, AlwaysSound, AlwaysForeseen, AlwaysLinked, PTL DEF Spec

(* NoFalseTamper: where nobody anchors before the first receipt, an honest store is *)
(* never accused, whatever was anchored before, during or after a prune that ended  *)
(* or died (anchor.py, verify_anchors).                                             *)
THEOREM NeverAccused ==
    ASSUME ~AnchorEmpty
    PROVE  Spec => []NoFalseTamper
<1>1. Typed /\ Sound /\ SoundlyLinked /\ SoundlyShown /\ Witnessed => NoFalseTamper
  <2> SUFFICES ASSUME Typed, Whole, Linked, Shown, Witnessed, NEW a \in provider
               PROVE  ~AnchorBroken(a)
    BY DEF Sound, SoundlyLinked, SoundlyShown, NoFalseTamper
  <2>0. /\ head.seq \in Nat /\ checkpoint.seq \in Nat /\ a.seq \in Nat
        /\ DOMAIN rows = (checkpoint.seq + 1)..head.seq
    BY DEF Typed, TypeOK, Points, Whole, Contiguous, Anchor
  <2>1. 0 < a.seq /\ a.seq <= head.seq /\ (checkpoint.seq < a.seq => a.hash = HashAt(a.seq))
    BY DEF Shown, Seen
  <2>2. CASE checkpoint.seq < a.seq
    <3>1. a.seq \in DOMAIN rows /\ rows[a.seq].hash = a.hash
      BY <2>0, <2>1, <2>2 DEF HashAt
    <3>2. rows[a.seq].hash # NoHash
      <4>1. rows[a.seq].prev \in Seq(Bodies) /\ rows[a.seq].body \in Bodies
            /\ rows[a.seq].hash = ChainHash(rows[a.seq])
        BY <3>1 DEF Linked, Typed, TypeOK, ReceiptRow
      <4>2. ChainHash(rows[a.seq]) \in Seq(Bodies)
        BY <4>1 DEF ChainHash
      <4> QED
        BY <4>1, <4>2, NoHashIsNone
    <3> QED
      BY <3>1, <3>2 DEF AnchorBroken
  <2>3. CASE a.seq <= checkpoint.seq
    <3>1. a.seq \notin DOMAIN rows /\ checkpoint.seq > 0 /\ checkpoint # Genesis
      BY <2>0, <2>1, <2>3 DEF Genesis
    <3>2. Accounted(a)
      BY <2>3, <3>1 DEF Accounted, Witnessed, ErasureIsWitnessed
    <3> QED
      BY <3>1, <3>2 DEF AnchorBroken
  <2> QED
    BY <2>0, <2>2, <2>3
<1> QED
  BY <1>1, AlwaysTyped, AlwaysSound, AlwaysLinked, AlwaysShown, AlwaysWitnessed, PTL

=============================================================================
