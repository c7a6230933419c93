------------------------- MODULE PostgresStore_proofs -------------------------
(* Proofs about the PostgreSQL store.  PostgresInv ties every client's program   *)
(* counter to what it has read, what it waits for and what it may commit; the    *)
(* three invariants after it (HoldersInv, AnswersInv, TokensInv) say what a      *)
(* lost COMMIT may have left behind, BudgetInv what an anchor protects.  A step  *)
(* lands at most one transaction, so most of it is shown per transaction.        *)
EXTENDS PostgresStore, EffectStore_proofs

Pcs == {"idle", "expire", "plan", "ambiguate", "price", "write", "lost", "missed", "run"} \cup Ended

ClientRecord ==
    [pc : Pcs, stage : Stages, at : Nat, again : BOOLEAN, restaged : BOOLEAN,
     record : EffectRecord, request : ApprovalRecord, tries : Nat, attempt : Nat,
     value : Tokens \cup {NoToken}, result : Stages]

Stampings == {<<>>} \cup (Clients \X BOOLEAN)

Transaction ==
    [key : Keys \cup {NoKey}, record : EffectRecord, id : Approvals \cup {NoApproval},
     request : ApprovalRecord, rows : SUBSET Consumption, release : BOOLEAN,
     cont : Keys \cup {NoKey}, value : Tokens \cup {NoToken}, by : Stampings]

PostgresTypeOK ==
    /\ TypeOK
    /\ jobs \in [Clients -> Jobs]
    /\ clients \in [Clients -> ClientRecord]
    /\ doubt \in [Clients -> Transaction]
    /\ anchors \in [Lines -> SUBSET Clients]
    /\ stamps \in [Keys -> Stampings]

-----------------------------------------------------------------------------
(* What a client may commit *)

(* The reservation, decided with the clock at t. *)
Reserving(c, tx, t, b) ==
    /\ Runs(c) /\ Free(effects[Key(c)])
    /\ Request(c) # NoApproval => Consumable(Request(c), Hash(c), t)
    /\ tx = [NoTx EXCEPT !.key = Key(c), !.by = <<c, b>>,
                !.record = Reserved(effects[Key(c)], Action(c), t),
                !.id = Request(c),
                !.request = IF Request(c) = NoApproval THEN NoRequest
                            ELSE [approvals[Request(c)] EXCEPT !.status = "consumed"],
                !.rows = Rows(Hash(c), Key(c), effects[Key(c)].attempt + 1, t)]

(* The attempt of a record moves on, or is given up. *)
Transiting(c, tx, s) ==
    /\ Runs(c) /\ effects[Key(c)].state \in Expected(s)
    /\ tx = [NoTx EXCEPT !.key = Key(c), !.record = Transitioned(effects[Key(c)], s),
                         !.release = s = "failed"]

Resolving(c, tx, s) ==
    /\ Does(c) = "resolve" /\ effects[Key(c)].state = "ambiguous"
    /\ tx = [NoTx EXCEPT !.key = Key(c), !.release = s = "failed",
                !.record = [Transitioned(effects[Key(c)], s) EXCEPT !.resolvedBy = "human"]]

Holding(c, tx, t, tok) ==
    /\ Runs(c) /\ effects[Key(c)].state = "executing"
    /\ tx = [NoTx EXCEPT !.key = Key(c),
                !.record = [effects[Key(c)] EXCEPT !.lease = t + SuspendTimeout],
                !.cont = Key(c), !.value = tok]

Taking(c, tx) == Does(c) = "take" /\ tx = [NoTx EXCEPT !.cont = Key(c)]

Granting(c, tx) ==
    LET r == approvals[Request(c)] IN
    /\ Does(c) = "grant" /\ r.status = "pending"
    /\ tx = [NoTx EXCEPT !.id = Request(c),
                !.request = [r EXCEPT !.answers = AnswersWith(r, jobs[c].who),
                    !.status = IF Reached(r, jobs[c].who) THEN "granted" ELSE "pending"]]

Denying(c, tx, answers) ==
    /\ Does(c) = "deny" /\ approvals[Request(c)].status = "pending"
    /\ tx = [NoTx EXCEPT !.id = Request(c),
                !.request = [approvals[Request(c)] EXCEPT !.answers = answers, !.status = "denied"]]

Expiring(c, tx) ==
    LET r == approvals[Request(c)] IN
    /\ Request(c) \in Approvals /\ r.status \in {"pending", "granted"}
    /\ r.hash \in Hashes /\ now > r.expires
    /\ tx = [NoTx EXCEPT !.id = Request(c), !.request = [r EXCEPT !.status = "expired"]]

Lawful(c, tx) ==
    \/ \E t \in 0..now, b \in BOOLEAN : Reserving(c, tx, t, b)
    \/ \E s \in Transitions : Transiting(c, tx, s)
    \/ \E s \in Resolutions : Resolving(c, tx, s)
    \/ \E t \in 0..now, tok \in Tokens : Holding(c, tx, t, tok)
    \/ Taking(c, tx) \/ Granting(c, tx) \/ Expiring(c, tx)
    \/ \E answers \in SUBSET Principals : Denying(c, tx, answers)

(* No other transaction in doubt has locked a row of this one. *)
Clear(d, tx) ==
    /\ tx.key # NoKey => doubt[d].key # tx.key
    /\ tx.id # NoApproval => doubt[d].id # tx.id
    /\ tx.cont # NoKey => doubt[d].cont # tx.cont

-----------------------------------------------------------------------------
(* What a client knows *)

(* A record that was read under a reservation is still the same, or has moved on. *)
Current(s, r) ==
    s.attempt <= r.attempt /\ (s.attempt = r.attempt /\ r.state = "reserved" => r = s)

SameRequest(s, r) ==
    r.status # "absent" /\ s.hash = r.hash /\ s.expires = r.expires /\ s.needed = r.needed

(* The stages belong to a run; the steps to their stages. *)
InPlace(c, x) ==
    /\ Runs(c) <=> x.stage # "once"
    /\ x.pc = "plan" => x.stage = "reserve"
    /\ x.pc = "price" => x.stage = "reserve"
    /\ x.pc = "ambiguate" => x.stage = "reserve"
    /\ x.pc = "run" => Runs(c)
    /\ x.pc = "missed" => x.stage \in Transitions
    /\ x.pc = "expire" => Request(c) \in Approvals
    /\ x.pc = "write" => Does(c) # "nothing"
    /\ x.attempt > 0 => Runs(c)
    /\ x.result \in Resolutions => Runs(c)

(* At what it was consumable, if anything had to be. *)
Presentable(c, t) ==
    /\ t <= now
    /\ Request(c) # NoApproval =>
           /\ approvals[Request(c)].status # "absent"
           /\ approvals[Request(c)].hash = Hash(c)
           /\ t <= approvals[Request(c)].expires

KnowsReservation(c, x) ==
    /\ x.stage = "reserve" /\ x.pc \in {"plan", "price", "write"} => Presentable(c, x.at)
    /\ x.stage = "reserve" /\ x.pc \in {"price", "write"} => Free(x.record)
    /\ x.pc = "ambiguate" => x.record.state \in Unfinished /\ Agrees(x.record)

KnowsRecord(c, x) ==
    /\ x.pc = "write" /\ x.stage \in Transitions =>
           /\ HeldIn(x.record, Action(c), Expected(x.stage)) /\ Agrees(x.record)
           /\ x.record.state = "reserved" => Current(x.record, effects[Key(c)])
    /\ x.pc = "write" /\ x.stage = "hold" =>
           HeldIn(x.record, Action(c), {"executing"}) /\ Agrees(x.record) /\ x.at <= now
    /\ x.pc = "write" /\ Does(c) = "resolve" => x.record.state = "ambiguous" /\ Agrees(x.record)
    /\ x.pc = "write" /\ Does(c) = "take" => x.value # NoToken

KnowsRequest(c, x) ==
    /\ x.pc = "write" /\ Does(c) \in {"grant", "deny"} =>
           x.request.status = "pending" /\ SameRequest(x.request, approvals[Request(c)])
    /\ x.pc = "expire" =>
           /\ x.request.status \in {"pending", "granted"}
           /\ approvals[Request(c)].status # "absent"
           /\ now > approvals[Request(c)].expires

Knows(c, x) == InPlace(c, x) /\ KnowsReservation(c, x) /\ KnowsRecord(c, x) /\ KnowsRequest(c, x)

-----------------------------------------------------------------------------
(* A request that exists is for some action hash. *)
Hashed == \A id \in Approvals : approvals[id].status # "absent" => approvals[id].hash \in Hashes

(* A transaction in doubt may land, and no two have locked one row. *)
Doubtful ==
    \A c \in Clients :
        /\ doubt[c] # NoTx => Lawful(c, doubt[c])
        /\ \A d \in Clients \ {c} : Clear(d, doubt[c])

PostgresInv ==
    /\ PostgresTypeOK /\ RecordsAgree /\ Hashed /\ Doubtful
    /\ \A c \in Clients : Knows(c, clients[c])

-----------------------------------------------------------------------------
LEMMA JobFacts ==
    ASSUME jobs \in [Clients -> Jobs], NEW c \in Clients
    PROVE  /\ Runs(c) => /\ Key(c) \in Keys /\ Action(c) \in Actions /\ Hash(c) \in Hashes
                         /\ Request(c) \in Approvals \cup {NoApproval}
           /\ Does(c) \in {"grant", "deny"} =>
                  Request(c) \in Approvals /\ jobs[c].who \in Principals \cup {Nobody}
           /\ Does(c) \in {"resolve", "take"} => Key(c) \in Keys
           /\ Request(c) \in Approvals \cup {NoApproval}
           /\ Key(c) \in Keys \cup {NoKey}
           /\ ~Runs(c) <=> Does(c) \in {"grant", "deny", "resolve", "take", "nothing"}
  BY DEF Jobs, Runs, Key, Action, Hash, Request, Does

LEMMA Nulls == NoKey \notin Keys /\ NoApproval \notin Approvals /\ NoToken \notin Tokens
  BY PostgresConstants, StoreConstants

LEMMA NoTxType == NoTx \in Transaction
<1>1. NoRecord \in EffectRecord
  BY DEF NoRecord, EffectRecord, EffectStates, NoLease, NoResolver
<1>2. NoRequest \in ApprovalRecord
  BY StoreConstants DEF NoRequest, ApprovalRecord, ApprovalStatus
<1> QED
  BY <1>1, <1>2 DEF NoTx, Transaction, Stampings

(* A transaction that differs from none at all in some columns. *)
LEMMA SomeTx ==
    ASSUME NEW tx \in Transaction,
           tx.key # NoKey \/ tx.id # NoApproval \/ tx.cont # NoKey
    PROVE  tx # NoTx
  BY DEF NoTx

(* What a transaction does to the record of its key. *)
EffectWrite(c, tx) ==
    LET r == effects[Key(c)] IN
    tx.key # NoKey =>
        /\ tx.key = Key(c) /\ Key(c) \in Keys
        /\ Agrees(tx.record)
        /\ r.state # "committed"
        /\ \/ /\ Runs(c) /\ Free(r) /\ tx.record.state = "reserved"
              /\ tx.record.attempt = r.attempt + 1
              /\ tx.by \in {c} \X BOOLEAN
           \/ /\ ~Free(r) /\ tx.record.state # "reserved"
              /\ tx.record.attempt = r.attempt
              /\ tx.by = <<>>

(* ... to an approval request ... *)
RequestWrite(c, tx) ==
    LET q == approvals[Request(c)] IN
    tx.id # NoApproval =>
        /\ tx.id = Request(c) /\ Request(c) \in Approvals
        /\ q.status \in {"pending", "granted"}
        /\ SameRequest(tx.request, q) /\ tx.request.status # "absent"
        /\ Runs(c) /\ tx.key # NoKey => q.status = "granted" /\ tx.request.status = "consumed"

(* ... and to a continuation. *)
ContinuationWrite(c, tx) ==
    /\ tx.cont # NoKey => tx.cont = Key(c) /\ Key(c) \in Keys
    /\ tx.value # NoToken => tx.cont # NoKey /\ tx.key # NoKey /\ Runs(c)
    /\ tx.release => tx.key # NoKey
    /\ tx.by # <<>> => tx.key # NoKey

LEMMA LawfulShape ==
    ASSUME PostgresTypeOK, RecordsAgree, NEW c \in Clients, NEW tx, Lawful(c, tx)
    PROVE  /\ tx \in Transaction /\ tx # NoTx
           /\ EffectWrite(c, tx) /\ RequestWrite(c, tx) /\ ContinuationWrite(c, tx)
<1> DEFINE Shaped == /\ tx \in Transaction /\ tx # NoTx
                     /\ EffectWrite(c, tx) /\ RequestWrite(c, tx) /\ ContinuationWrite(c, tx)
<1>0. /\ jobs \in [Clients -> Jobs] /\ now \in Nat
      /\ \A k \in Keys : effects[k] \in EffectRecord /\ Agrees(effects[k])
      /\ \A id \in Approvals : approvals[id] \in ApprovalRecord
  BY AgreesEach DEF PostgresTypeOK, TypeOK
<1>n. NoTx \in Transaction /\ NoRequest \in ApprovalRecord
  BY NoTxType DEF NoTx, Transaction
<1>1. ASSUME NEW t \in 0..now, NEW b \in BOOLEAN, Reserving(c, tx, t, b) PROVE Shaped
  <2>1. /\ Key(c) \in Keys /\ Action(c) \in Actions /\ Hash(c) \in Hashes
        /\ Request(c) \in Approvals \cup {NoApproval} /\ Runs(c)
    BY <1>0, <1>1, JobFacts DEF Reserving
  <2> DEFINE r == effects[Key(c)]
             q == IF Request(c) = NoApproval THEN NoRequest
                  ELSE [approvals[Request(c)] EXCEPT !.status = "consumed"]
             new == Reserved(r, Action(c), t)
             rows == Rows(Hash(c), Key(c), r.attempt + 1, t)
  <2>2. t \in Nat /\ r \in EffectRecord /\ Agrees(r) /\ Free(r) /\ r.attempt \in Nat
    BY <1>0, <1>1, <2>1 DEF Reserving, EffectRecord
  <2>3. new \in EffectRecord /\ Agrees(new) /\ new.state = "reserved" /\ new.attempt = r.attempt + 1
    BY <2>1, <2>2, ReservedType, ReservedAgrees DEF Reserved
  <2>4. q \in ApprovalRecord
    BY <1>0, <1>n, <2>1 DEF ApprovalRecord, ApprovalStatus
  <2>5. rows \subseteq Consumption
    BY <2>1, <2>2, RowsType
  <2>6. /\ tx = [NoTx EXCEPT !.key = Key(c), !.by = <<c, b>>, !.record = new, !.id = Request(c),
                            !.request = q, !.rows = rows]
    BY <1>1 DEF Reserving
  <2>7. /\ tx.key = Key(c) /\ tx.by = <<c, b>> /\ tx.record = new /\ tx.id = Request(c)
        /\ tx.request = q /\ tx.rows = rows /\ tx.cont = NoKey /\ tx.value = NoToken /\ ~tx.release
    BY <2>6 DEF NoTx
  <2>8. tx \in Transaction
    BY <1>n, <2>1, <2>3, <2>4, <2>5, <2>6 DEF Transaction, Stampings
  <2>9. Request(c) # NoApproval => approvals[Request(c)].status = "granted"
    BY <1>1 DEF Reserving, Consumable, GrantedFor
  <2>10. EffectWrite(c, tx)
    BY <2>1, <2>2, <2>3, <2>7 DEF EffectWrite, Free
  <2>11. RequestWrite(c, tx)
    <3> SUFFICES ASSUME Request(c) # NoApproval PROVE RequestWrite(c, tx)
      BY <2>7 DEF RequestWrite
    <3>1. approvals[Request(c)] \in ApprovalRecord /\ Request(c) \in Approvals
      BY <1>0, <2>1
    <3>2. /\ q.hash = approvals[Request(c)].hash /\ q.expires = approvals[Request(c)].expires
          /\ q.needed = approvals[Request(c)].needed /\ q.status = "consumed"
      BY <3>1 DEF ApprovalRecord
    <3> QED
      BY <2>7, <2>9, <3>1, <3>2 DEF RequestWrite, SameRequest
  <2>12. ContinuationWrite(c, tx)
    BY <2>1, <2>7, Nulls DEF ContinuationWrite
  <2> QED
    BY <2>1, <2>7, <2>8, <2>10, <2>11, <2>12, SomeTx, Nulls
<1>2. ASSUME NEW s \in Transitions, Transiting(c, tx, s) PROVE Shaped
  <2>1. Key(c) \in Keys /\ Runs(c)
    BY <1>0, <1>2, JobFacts DEF Transiting
  <2> DEFINE r == effects[Key(c)]
             new == Transitioned(r, s)
  <2>2. r \in EffectRecord /\ Agrees(r) /\ r.state \in Unfinished \cup {"ambiguous"}
        /\ (r.state = "ambiguous" => s = "ambiguous")
    BY <1>0, <1>2, <2>1 DEF Transiting, Expected, Transitions, Resolutions, Unfinished
  <2>3. new \in EffectRecord /\ new.state = s /\ new.attempt = r.attempt /\ s # "reserved"
    BY <2>2, TransitionedType DEF Transitions, EffectStates, Unfinished, Resolutions, Transitioned, EffectRecord
  <2>4. Agrees(new)
    <3>1. CASE r.state \in Unfinished
      BY <2>2, <3>1, TransitionedAgrees DEF Transitions
    <3>2. CASE r.state = "ambiguous"
      BY <2>2, <3>2 DEF Agrees, Transitioned, EffectRecord, Unfinished, Resolutions, NoLease, NoResolver
    <3> QED
      BY <2>2, <3>1, <3>2
  <2>5. tx = [NoTx EXCEPT !.key = Key(c), !.record = new, !.release = s = "failed"]
    BY <1>2 DEF Transiting
  <2>6. /\ tx.key = Key(c) /\ tx.by = <<>> /\ tx.record = new /\ tx.id = NoApproval
        /\ tx.cont = NoKey /\ tx.value = NoToken
    BY <2>5 DEF NoTx
  <2>7. tx \in Transaction
    BY <1>n, <2>1, <2>3, <2>5 DEF Transaction
  <2>8. EffectWrite(c, tx)
    BY <2>1, <2>2, <2>3, <2>4, <2>6 DEF EffectWrite, Free, Unfinished
  <2> QED
    BY <2>1, <2>6, <2>7, <2>8, SomeTx, Nulls DEF RequestWrite, ContinuationWrite
<1>3. ASSUME NEW s \in Resolutions, Resolving(c, tx, s) PROVE Shaped
  <2>1. Key(c) \in Keys
    BY <1>0, <1>3, JobFacts DEF Resolving
  <2> DEFINE r == effects[Key(c)]
             new == [Transitioned(r, s) EXCEPT !.resolvedBy = "human"]
  <2>2. r \in EffectRecord /\ Agrees(r) /\ r.state = "ambiguous"
    BY <1>0, <1>3, <2>1 DEF Resolving
  <2>3. new \in EffectRecord /\ new.state = s /\ new.attempt = r.attempt
    BY <2>2 DEF Transitioned, EffectRecord, EffectStates, Resolutions, Resolvers, NoLease
  <2>4. Agrees(new)
    BY <2>2, ResolvedAgrees DEF Resolvers
  <2>5. tx = [NoTx EXCEPT !.key = Key(c), !.record = new, !.release = s = "failed"]
    BY <1>3 DEF Resolving
  <2>6. /\ tx.key = Key(c) /\ tx.by = <<>> /\ tx.record = new /\ tx.id = NoApproval
        /\ tx.cont = NoKey /\ tx.value = NoToken
    BY <2>5 DEF NoTx
  <2>7. tx \in Transaction
    BY <1>n, <2>1, <2>3, <2>5 DEF Transaction
  <2>8. EffectWrite(c, tx)
    BY <2>1, <2>2, <2>3, <2>4, <2>6 DEF EffectWrite, Free, Resolutions
  <2> QED
    BY <2>1, <2>6, <2>7, <2>8, SomeTx, Nulls DEF RequestWrite, ContinuationWrite
<1>4. ASSUME NEW t \in 0..now, NEW tok \in Tokens, Holding(c, tx, t, tok) PROVE Shaped
  <2>1. Key(c) \in Keys /\ Runs(c)
    BY <1>0, <1>4, JobFacts DEF Holding
  <2> DEFINE r == effects[Key(c)]
             new == [r EXCEPT !.lease = t + SuspendTimeout]
  <2>2. r \in EffectRecord /\ Agrees(r) /\ r.state = "executing" /\ t + SuspendTimeout \in Nat
    BY <1>0, <1>4, <2>1, StoreConstants DEF Holding
  <2>3. new \in EffectRecord /\ new.state = "executing" /\ new.attempt = r.attempt
    BY <2>2 DEF EffectRecord
  <2>4. Agrees(new)
    BY <2>2, ExtendedAgrees
  <2>5. tx = [NoTx EXCEPT !.key = Key(c), !.record = new, !.cont = Key(c), !.value = tok]
    BY <1>4 DEF Holding
  <2>6. /\ tx.key = Key(c) /\ tx.by = <<>> /\ tx.record = new /\ tx.id = NoApproval
        /\ tx.cont = Key(c) /\ tx.value = tok /\ ~tx.release
    BY <2>5 DEF NoTx
  <2>7. tx \in Transaction
    BY <1>n, <2>1, <2>3, <2>5 DEF Transaction
  <2>8. EffectWrite(c, tx)
    BY <2>1, <2>2, <2>3, <2>4, <2>6 DEF EffectWrite, Free
  <2> QED
    BY <2>1, <2>6, <2>7, <2>8, SomeTx, Nulls DEF RequestWrite, ContinuationWrite
<1>5. CASE Taking(c, tx)
  <2>1. Key(c) \in Keys
    BY <1>0, <1>5, JobFacts DEF Taking
  <2>2. tx = [NoTx EXCEPT !.cont = Key(c)]
    BY <1>5 DEF Taking
  <2>3. /\ tx.key = NoKey /\ tx.by = <<>> /\ tx.id = NoApproval
        /\ tx.cont = Key(c) /\ tx.value = NoToken /\ ~tx.release
    BY <2>2 DEF NoTx
  <2>4. tx \in Transaction
    BY <1>n, <2>1, <2>2 DEF Transaction
  <2> QED
    BY <2>1, <2>3, <2>4, SomeTx, Nulls DEF EffectWrite, RequestWrite, ContinuationWrite
<1>6. ASSUME NEW new \in ApprovalRecord, Request(c) \in Approvals,
             approvals[Request(c)].status \in {"pending", "granted"},
             SameRequest(new, approvals[Request(c)]), new.status # "absent",
             tx = [NoTx EXCEPT !.id = Request(c), !.request = new]
      PROVE  Shaped
  <2>1. /\ tx.key = NoKey /\ tx.by = <<>> /\ tx.id = Request(c) /\ tx.request = new
        /\ tx.cont = NoKey /\ tx.value = NoToken /\ ~tx.release
    BY <1>6 DEF NoTx
  <2>2. tx \in Transaction
    BY <1>n, <1>6 DEF Transaction
  <2> QED
    BY <1>6, <2>1, <2>2, SomeTx, Nulls DEF EffectWrite, RequestWrite, ContinuationWrite
<1>7. CASE Granting(c, tx)
  <2> DEFINE r == approvals[Request(c)]
             new == [r EXCEPT !.answers = AnswersWith(r, jobs[c].who),
                              !.status = IF Reached(r, jobs[c].who) THEN "granted" ELSE "pending"]
  <2>1. /\ Request(c) \in Approvals /\ jobs[c].who \in Principals \cup {Nobody}
        /\ r \in ApprovalRecord /\ r.status = "pending"
    BY <1>0, <1>7, JobFacts DEF Granting
  <2>2. AnswersWith(r, jobs[c].who) \in SUBSET Principals
    BY <2>1 DEF AnswersWith, ApprovalRecord
  <2>3. new \in ApprovalRecord /\ SameRequest(new, r) /\ new.status # "absent"
    BY <2>1, <2>2 DEF ApprovalRecord, ApprovalStatus, SameRequest
  <2>4. tx = [NoTx EXCEPT !.id = Request(c), !.request = new]
    BY <1>7 DEF Granting
  <2>5. /\ approvals[Request(c)].status \in {"pending", "granted"}
        /\ SameRequest(new, approvals[Request(c)])
    BY <2>1, <2>3
  <2> HIDE DEF new, Shaped
  <2>6. Shaped
    BY <1>6, <2>1, <2>3, <2>4, <2>5
  <2> QED
    BY <2>6 DEF Shaped
<1>8. ASSUME NEW answers \in SUBSET Principals, Denying(c, tx, answers) PROVE Shaped
  <2> DEFINE r == approvals[Request(c)]
             new == [r EXCEPT !.answers = answers, !.status = "denied"]
  <2>1. /\ Request(c) \in Approvals /\ r \in ApprovalRecord /\ r.status = "pending"
    BY <1>0, <1>8, JobFacts DEF Denying
  <2>3. new \in ApprovalRecord /\ SameRequest(new, r) /\ new.status # "absent"
    BY <2>1 DEF ApprovalRecord, ApprovalStatus, SameRequest
  <2>4. tx = [NoTx EXCEPT !.id = Request(c), !.request = new]
    BY <1>8 DEF Denying
  <2> QED
    BY <1>6, <2>1, <2>3, <2>4
<1>9. CASE Expiring(c, tx)
  <2> DEFINE r == approvals[Request(c)]
             new == [r EXCEPT !.status = "expired"]
  <2>1. Request(c) \in Approvals /\ r \in ApprovalRecord /\ r.status \in {"pending", "granted"}
    BY <1>0, <1>9 DEF Expiring
  <2>3. new \in ApprovalRecord /\ SameRequest(new, r) /\ new.status # "absent"
    BY <2>1 DEF ApprovalRecord, ApprovalStatus, SameRequest
  <2>4. tx = [NoTx EXCEPT !.id = Request(c), !.request = new]
    BY <1>9 DEF Expiring
  <2> QED
    BY <1>6, <2>1, <2>3, <2>4
<1> QED
  BY <1>1, <1>2, <1>3, <1>4, <1>5, <1>7, <1>8, <1>9 DEF Lawful

-----------------------------------------------------------------------------
(* What a step does to the tables *)

(* Attempts and requests only move on. *)
Onward ==
    /\ jobs' = jobs /\ now' \in Nat /\ now' >= now
    /\ \A k \in Keys : effects'[k].attempt \in Nat /\ Current(effects[k], effects'[k])
    /\ \A id \in Approvals : approvals[id].status # "absent" =>
           SameRequest(approvals[id], approvals'[id])

(* The rows of a transaction stay as they are. *)
Untouched(tx) ==
    /\ jobs' = jobs /\ now' \in Nat /\ now' >= now
    /\ tx.key # NoKey => effects'[tx.key] = effects[tx.key]
    /\ tx.id # NoApproval => approvals'[tx.id] = approvals[tx.id]

LEMMA LandsTyped ==
    ASSUME PostgresTypeOK, RecordsAgree, NEW c \in Clients, NEW tx, Lawful(c, tx), Lands(tx)
    PROVE  TypeOK' /\ RecordsAgree' /\ stamps' \in [Keys -> Stampings] /\ now' = now
<1>1. /\ tx \in Transaction
      /\ EffectWrite(c, tx) /\ RequestWrite(c, tx) /\ ContinuationWrite(c, tx)
  BY LawfulShape
<1>2. TypeOK /\ stamps \in [Keys -> Stampings]
  BY DEF PostgresTypeOK
<1>3. effects' \in [Keys -> EffectRecord]
  BY <1>1, <1>2 DEF Lands, Transaction, TypeOK
<1>4. approvals' \in [Approvals -> ApprovalRecord]
  BY <1>1, <1>2 DEF Lands, Transaction, TypeOK
<1>5. continuations' \in [Keys -> Continuation]
  <2>1. CASE tx.cont = NoKey
    BY <1>2, <2>1 DEF Lands, TypeOK
  <2>2. CASE tx.cont # NoKey
    <3>1. tx.cont \in Keys /\ tx.value \in Tokens \cup {NoToken}
          /\ tx.record.action \in Actions \cup {NoAction}
      BY <1>1, <2>2 DEF Transaction, EffectRecord
    <3>2. continuations[tx.cont] \in Continuation
      BY <1>2, <3>1 DEF TypeOK
    <3> DEFINE act == IF tx.key = NoKey THEN continuations[tx.cont].action ELSE tx.record.action
    <3>3. act \in Actions \cup {NoAction}
      BY <3>1, <3>2 DEF Continuation
    <3>4. continuations' = [continuations EXCEPT ![tx.cont] =
              [[continuations[tx.cont] EXCEPT !.token = tx.value] EXCEPT !.action = act]]
      BY <2>2, <1>2, <3>1, <3>2 DEF Lands, TypeOK, Continuation
    <3>5. [[continuations[tx.cont] EXCEPT !.token = tx.value] EXCEPT !.action = act] \in Continuation
      BY <3>1, <3>2, <3>3 DEF Continuation
    <3> QED
      BY <1>2, <3>1, <3>4, <3>5 DEF TypeOK
  <2> QED
    BY <2>1, <2>2
<1>6. ledger' \subseteq Consumption
  <2>1. CASE tx.release
    <3>1. tx.key \in Keys
      BY <1>1, <2>1 DEF ContinuationWrite, EffectWrite
    <3> QED
      BY <1>2, <2>1, <3>1, ReleasedType DEF Lands, TypeOK
  <2>2. CASE ~tx.release
    BY <1>1, <1>2, <2>2 DEF Lands, NewRows, Transaction, TypeOK
  <2> QED
    BY <2>1, <2>2
<1>7. now' = now /\ now' \in Nat
  BY <1>2 DEF Lands, TypeOK
<1>8. stamps' \in [Keys -> Stampings]
  BY <1>1, <1>2 DEF Lands, Transaction
<1>9. RecordsAgree'
  <2>1. \A k \in Keys : Agrees(effects[k])
    BY AgreesEach
  <2>2. \A k \in Keys : Agrees(effects'[k])
    BY <1>1, <1>2, <2>1 DEF Lands, EffectWrite, TypeOK
  <2> QED
    BY <2>2 DEF RecordsAgree, Agrees
<1> QED
  BY <1>3, <1>4, <1>5, <1>6, <1>7, <1>8, <1>9 DEF TypeOK

LEMMA LandsOnward ==
    ASSUME PostgresTypeOK, RecordsAgree, Hashed, NEW c \in Clients, NEW tx, Lawful(c, tx), Lands(tx),
           jobs' = jobs
    PROVE  Onward /\ Hashed'
<1>1. /\ tx \in Transaction
      /\ EffectWrite(c, tx) /\ RequestWrite(c, tx)
  BY LawfulShape
<1>2. TypeOK
  BY DEF PostgresTypeOK
<1>3. ASSUME NEW k \in Keys PROVE Current(effects[k], effects'[k])
  <2>1. effects[k].attempt \in Nat /\ effects[k] \in EffectRecord
    BY <1>2 DEF TypeOK, EffectRecord
  <2>2. CASE tx.key # k
    BY <1>2, <2>1, <2>2 DEF Lands, TypeOK, Current
  <2>3. CASE tx.key = k
    <3>1. tx.key # NoKey /\ Key(c) = k /\ effects'[k] = tx.record
      BY <1>1, <1>2, <2>3, Nulls DEF Lands, TypeOK, EffectWrite
    <3> QED
      BY <1>1, <2>1, <3>1 DEF EffectWrite, Current
  <2> QED
    BY <2>2, <2>3
<1>4. ASSUME NEW id \in Approvals, approvals[id].status # "absent"
      PROVE  SameRequest(approvals[id], approvals'[id])
  <2>1. CASE tx.id # id
    BY <1>2, <1>4, <2>1 DEF Lands, TypeOK, SameRequest
  <2>2. CASE tx.id = id
    <3>1. tx.id # NoApproval /\ Request(c) = id /\ approvals'[id] = tx.request
      BY <1>1, <1>2, <2>2, Nulls DEF Lands, TypeOK, RequestWrite
    <3> QED
      BY <1>1, <3>1 DEF RequestWrite, SameRequest
  <2> QED
    BY <2>1, <2>2
<1>5. Hashed'
  <2> SUFFICES ASSUME NEW id \in Approvals, approvals'[id].status # "absent"
               PROVE  approvals'[id].hash \in Hashes
    BY DEF Hashed
  <2>1. CASE tx.id # id
    BY <1>2, <2>1 DEF Lands, TypeOK, Hashed
  <2>2. CASE tx.id = id
    <3>1. tx.id # NoApproval /\ Request(c) = id /\ approvals'[id] = tx.request
      BY <1>1, <1>2, <2>2, Nulls DEF Lands, TypeOK, RequestWrite
    <3> QED
      BY <1>1, <3>1 DEF RequestWrite, SameRequest, Hashed
  <2> QED
    BY <2>1, <2>2
<1>6. now' \in Nat /\ now' >= now
  BY <1>2 DEF Lands, TypeOK
<1>7. \A k \in Keys : effects'[k].attempt \in Nat
  BY LandsTyped DEF TypeOK, EffectRecord
<1> QED
  BY <1>3, <1>4, <1>5, <1>6, <1>7 DEF Onward

LEMMA PutOnward ==
    ASSUME PostgresTypeOK, Hashed, NEW id \in Approvals, NEW h \in Hashes, NEW n \in 1..MaxNeeded,
           PutApprovalRequest(id, h, n), jobs' = jobs
    PROVE  Onward /\ Hashed' /\ TypeOK' /\ \A x \in Approvals : x = id \/ approvals'[x] = approvals[x]
<1>1. TypeOK /\ now \in Nat
  BY DEF PostgresTypeOK, TypeOK
<1>2. /\ approvals[id].status = "absent" /\ \A x \in Approvals \ {id} : approvals'[x] = approvals[x]
      /\ approvals'[id] = [status |-> "pending", hash |-> h, expires |-> now + ApprovalTTL,
                           needed |-> n, answers |-> {}]
      /\ UNCHANGED <<effects, ledger, continuations, now>>
      /\ approvals' = [approvals EXCEPT ![id] =
             [status |-> "pending", hash |-> h, expires |-> now + ApprovalTTL,
              needed |-> n, answers |-> {}]]
  BY <1>1 DEF PutApprovalRequest, TypeOK
<1>3. \A k \in Keys : effects[k].attempt \in Nat
  BY <1>1 DEF TypeOK, EffectRecord
<1>4. TypeOK'
  BY <1>1, <1>2, StoreConstants DEF TypeOK, ApprovalRecord, ApprovalStatus
<1>5. Onward
  BY <1>1, <1>2, <1>3 DEF Onward, Current, SameRequest
<1>6. Hashed'
  BY <1>2 DEF Hashed
<1> QED
  BY <1>2, <1>4, <1>5, <1>6

LEMMA KnowsStays ==
    ASSUME PostgresTypeOK, Onward, NEW c \in Clients, NEW x \in ClientRecord, Knows(c, x)
    PROVE  Knows(c, x)'
<1>1. /\ Request(c) \in Approvals \cup {NoApproval}
      /\ Runs(c) => Key(c) \in Keys
      /\ Does(c) \in {"grant", "deny"} => Request(c) \in Approvals
      /\ now \in Nat /\ x.at \in Nat /\ x.record.attempt \in Nat
  BY JobFacts DEF PostgresTypeOK, TypeOK, ClientRecord, EffectRecord
<1>2. /\ Request(c)' = Request(c) /\ Key(c)' = Key(c) /\ Does(c)' = Does(c) /\ Hash(c)' = Hash(c)
      /\ Action(c)' = Action(c) /\ Runs(c)' = Runs(c)
  BY DEF Onward, Request, Key, Does, Hash, Action, Runs
<1>3. InPlace(c, x)'
  BY <1>2 DEF Knows, InPlace
<1>4. ASSUME Presentable(c, x.at) PROVE Presentable(c, x.at)'
  <2>1. \A id \in Approvals : approvals[id] \in ApprovalRecord
    BY DEF PostgresTypeOK, TypeOK
  <2> QED
    BY <1>1, <1>2, <1>4, <2>1 DEF Presentable, Onward, SameRequest, ApprovalRecord
<1>5. KnowsReservation(c, x)'
  BY <1>2, <1>4 DEF Knows, KnowsReservation
<1>6. ASSUME Runs(c), Current(x.record, effects[Key(c)]), x.record.state = "reserved"
      PROVE  Current(x.record, effects[Key(c)])'
  <2>1. Current(effects[Key(c)], effects'[Key(c)])
    BY <1>1, <1>6 DEF Onward
  <2>2. effects[Key(c)].attempt \in Nat
    BY <1>1, <1>6 DEF PostgresTypeOK, TypeOK, EffectRecord
  <2>3. effects'[Key(c)].attempt \in Nat
    BY <1>1, <1>6 DEF Onward
  <2> QED
    BY <1>1, <1>2, <1>6, <2>1, <2>2, <2>3 DEF Current
<1>7. KnowsRecord(c, x)'
  <2>1. /\ HeldIn(x.record, Action(c), Expected(x.stage))' <=> HeldIn(x.record, Action(c), Expected(x.stage))
        /\ HeldIn(x.record, Action(c), {"executing"})' <=> HeldIn(x.record, Action(c), {"executing"})
        /\ x.at <= now => x.at <= now'
        /\ x.pc = "write" /\ x.stage \in Transitions => Runs(c)
    BY <1>1, <1>2 DEF HeldIn, Expected, Onward, Knows, InPlace, Transitions
  <2> QED
    BY <1>2, <1>6, <2>1 DEF Knows, KnowsRecord
<1>8. KnowsRequest(c, x)'
  <2>1. \A id \in Approvals : approvals[id].expires \in Nat
    BY DEF PostgresTypeOK, TypeOK, ApprovalRecord
  <2>2. ASSUME Request(c) \in Approvals, SameRequest(x.request, approvals[Request(c)])
        PROVE  SameRequest(x.request, approvals[Request(c)])'
    BY <1>2, <2>2 DEF Onward, SameRequest
  <2>3. ASSUME Request(c) \in Approvals, approvals[Request(c)].status # "absent",
               now > approvals[Request(c)].expires
        PROVE  approvals'[Request(c)].status # "absent" /\ now' > approvals'[Request(c)].expires
    BY <1>1, <2>1, <2>3 DEF Onward, SameRequest
  <2>4. x.pc = "expire" => Request(c) \in Approvals
    BY DEF Knows, InPlace
  <2> QED
    BY <1>1, <1>2, <2>2, <2>3, <2>4 DEF Knows, KnowsRequest
<1> QED
  BY <1>3, <1>5, <1>7, <1>8 DEF Knows

LEMMA LawfulStays ==
    ASSUME PostgresTypeOK, RecordsAgree, NEW c \in Clients, NEW tx, Lawful(c, tx), Untouched(tx)
    PROVE  Lawful(c, tx)'
<1>1. /\ EffectWrite(c, tx) /\ RequestWrite(c, tx) /\ now \in Nat
      /\ Request(c) \in Approvals \cup {NoApproval}
  BY LawfulShape, JobFacts DEF PostgresTypeOK, TypeOK
<1>2. /\ Request(c)' = Request(c) /\ Key(c)' = Key(c) /\ Does(c)' = Does(c) /\ Hash(c)' = Hash(c)
      /\ Action(c)' = Action(c) /\ Runs(c)' = Runs(c) /\ jobs' = jobs
  BY DEF Untouched, Request, Key, Does, Hash, Action, Runs
<1>3. tx.key # NoKey => effects'[Key(c)] = effects[Key(c)]
  BY <1>1 DEF Untouched, EffectWrite
<1>4. tx.id # NoApproval => approvals'[Request(c)] = approvals[Request(c)]
  BY <1>1 DEF Untouched, RequestWrite
<1>5. now' \in Nat /\ now' >= now
  BY DEF Untouched
<1>6. ASSUME NEW t \in 0..now, NEW b \in BOOLEAN, Reserving(c, tx, t, b) PROVE Lawful(c, tx)'
  <2>1. tx.key = Key(c) /\ tx.id = Request(c) /\ Key(c) \in Keys
    BY <1>6, JobFacts DEF Reserving, NoTx, PostgresTypeOK
  <2>2. Reserving(c, tx, t, b)'
    BY <1>2, <1>3, <1>4, <1>6, <2>1, Nulls DEF Reserving, Consumable, GrantedFor
  <2>3. t \in 0..now'
    BY <1>1, <1>5
  <2> QED
    BY <2>2, <2>3 DEF Lawful
<1>7. ASSUME NEW s \in Transitions, Transiting(c, tx, s) PROVE Lawful(c, tx)'
  <2>1. tx.key = Key(c) /\ Key(c) \in Keys
    BY <1>7, JobFacts DEF Transiting, NoTx, PostgresTypeOK
  <2>2. Transiting(c, tx, s)'
    BY <1>2, <1>3, <1>7, <2>1, Nulls DEF Transiting
  <2> QED
    BY <2>2 DEF Lawful
<1>8. ASSUME NEW s \in Resolutions, Resolving(c, tx, s) PROVE Lawful(c, tx)'
  <2>1. tx.key = Key(c) /\ Key(c) \in Keys
    BY <1>8, JobFacts DEF Resolving, NoTx, PostgresTypeOK
  <2>2. Resolving(c, tx, s)'
    BY <1>2, <1>3, <1>8, <2>1, Nulls DEF Resolving
  <2> QED
    BY <2>2 DEF Lawful
<1>9. ASSUME NEW t \in 0..now, NEW tok \in Tokens, Holding(c, tx, t, tok) PROVE Lawful(c, tx)'
  <2>1. tx.key = Key(c) /\ Key(c) \in Keys
    BY <1>9, JobFacts DEF Holding, NoTx, PostgresTypeOK
  <2>2. Holding(c, tx, t, tok)'
    BY <1>2, <1>3, <1>9, <2>1, Nulls DEF Holding
  <2>3. t \in 0..now'
    BY <1>1, <1>5
  <2> QED
    BY <2>2, <2>3 DEF Lawful
<1>10. CASE Taking(c, tx)
  <2>1. Taking(c, tx)'
    BY <1>2, <1>10 DEF Taking
  <2> QED
    BY <2>1 DEF Lawful
<1>11. CASE Granting(c, tx)
  <2>1. tx.id = Request(c) /\ Request(c) \in Approvals
    BY <1>11, JobFacts DEF Granting, NoTx, PostgresTypeOK
  <2> DEFINE Granted(r, w) == [NoTx EXCEPT !.id = Request(c),
                !.request = [r EXCEPT !.answers = AnswersWith(r, w),
                    !.status = IF Reached(r, w) THEN "granted" ELSE "pending"]]
  <2>3. PICK r, w : r = approvals[Request(c)] /\ w = jobs[c].who
    OBVIOUS
  <2>4. /\ r.status = "pending" /\ Does(c) = "grant" /\ tx = Granted(r, w)
    BY <1>11, <2>3 DEF Granting
  <2>5. r = approvals'[Request(c)] /\ w = jobs'[c].who
    BY <1>2, <1>4, <2>1, <2>3, Nulls
  <2>2. Granting(c, tx)'
    BY <1>2, <2>4, <2>5 DEF Granting, AnswersWith, Reached
  <2> QED
    BY <2>2 DEF Lawful
<1>12. CASE Expiring(c, tx)
  <2>1. tx.id = Request(c) /\ Request(c) \in Approvals
    BY <1>12 DEF Expiring, NoTx
  <2>2. approvals[Request(c)].expires \in Nat
    BY <2>1 DEF PostgresTypeOK, TypeOK, ApprovalRecord
  <2>4. PICK r : r = approvals[Request(c)]
    OBVIOUS
  <2>5. /\ r.status \in {"pending", "granted"} /\ r.hash \in Hashes /\ now > r.expires
        /\ tx = [NoTx EXCEPT !.id = Request(c), !.request = [r EXCEPT !.status = "expired"]]
    BY <1>12, <2>4 DEF Expiring
  <2>6. r = approvals'[Request(c)]
    BY <1>4, <2>1, <2>4, Nulls
  <2>7. now' > r.expires
    BY <1>1, <1>5, <2>2, <2>4, <2>5
  <2>3. Expiring(c, tx)'
    BY <1>2, <2>1, <2>5, <2>6, <2>7 DEF Expiring
  <2> QED
    BY <2>3 DEF Lawful
<1>13. ASSUME NEW answers \in SUBSET Principals, Denying(c, tx, answers) PROVE Lawful(c, tx)'
  <2>1. tx.id = Request(c) /\ Request(c) \in Approvals
    BY <1>13, JobFacts DEF Denying, NoTx, PostgresTypeOK
  <2>2. Denying(c, tx, answers)'
    BY <1>2, <1>4, <1>13, <2>1, Nulls DEF Denying
  <2> QED
    BY <2>2 DEF Lawful
<1> QED
  BY <1>6, <1>7, <1>8, <1>9, <1>10, <1>11, <1>12, <1>13 DEF Lawful

-----------------------------------------------------------------------------
(* The turn of a client *)

(* What a client is newly told is so. *)
Told(c, x, y) ==
    /\ y.attempt # x.attempt =>
           /\ Runs(c) /\ y.attempt = effects'[Key(c)].attempt
           /\ stamps'[Key(c)] \in {c} \X BOOLEAN
    /\ y.result # x.result => y.pc = "done"
    /\ y.result # x.result /\ y.result \in Resolutions =>
           Runs(c) /\ effects'[Key(c)].state = y.result

(* A value that is new to everybody. *)
Fresh(tx) ==
    tx.value # NoToken =>
        /\ \A k \in Keys : k # tx.cont => continuations[k].token # tx.value
        /\ \A d \in Clients : clients[d].value # tx.value /\ doubt[d].value # tx.value

(* A resumption ends with the value it took. *)
TakesWhatItRead(c, tx, x, y) ==
    Does(c) = "take" /\ y.pc = "done" =>
        /\ tx.cont = Key(c) /\ tx.value = NoToken /\ x.pc = "write"
        /\ continuations[Key(c)].token = x.value /\ x.value # NoToken

Committable(c, tx) == Lawful(c, tx) /\ Fresh(tx) /\ \A d \in Clients : Clear(d, tx)

ReadsOn(c, x, y) ==
    /\ UNCHANGED <<vars, stamps>> /\ doubt' = doubt
    /\ Does(c) = "take" => y.pc # "done" \/ y = x
    /\ y.value # x.value => y.pc = "write"

Commits(c, tx, x, y) ==
    /\ Committable(c, tx) /\ Lands(tx) /\ doubt' = doubt
    /\ y.value = x.value /\ TakesWhatItRead(c, tx, x, y)

Loses(c, tx, x, y) ==
    /\ Committable(c, tx) /\ UNCHANGED <<vars, stamps>>
    /\ doubt' = [doubt EXCEPT ![c] = tx]
    /\ y.value = x.value /\ y.pc = "lost"

Turn(c) ==
    \E y \in ClientRecord :
        /\ clients' = [clients EXCEPT ![c] = y] /\ jobs' = jobs
        /\ Told(c, clients[c], y) /\ Knows(c, y)'
        /\ \/ ReadsOn(c, clients[c], y)
           \/ \E tx : Commits(c, tx, clients[c], y) \/ Loses(c, tx, clients[c], y)

Resting == {"idle", "run", "done", "refused", "lost"}

LEMMA Rests ==
    ASSUME NEW c \in Clients, NEW y, y.pc \in Resting, InPlace(c, y)
    PROVE  Knows(c, y)
  BY DEF Resting, Knows, KnowsReservation, KnowsRecord, KnowsRequest

LEMMA RestsOn ==
    ASSUME NEW c \in Clients, NEW y, y.pc \in Resting, InPlace(c, y), jobs' = jobs
    PROVE  Knows(c, y)'
<1>1. InPlace(c, y)'
  BY DEF InPlace, Runs, Does, Request
<1> QED
  BY <1>1 DEF Resting, Knows, KnowsReservation, KnowsRecord, KnowsRequest

LEMMA ForgetShape ==
    ASSUME NEW x \in ClientRecord
    PROVE  /\ Forget(x) \in ClientRecord
           /\ Forget(x).pc = x.pc /\ Forget(x).stage = x.stage /\ Forget(x).value = x.value
           /\ Forget(x).attempt = x.attempt /\ Forget(x).result = x.result
           /\ Forget(x).restaged = FALSE /\ Forget(x).again = FALSE
<1>1. NoRecord \in EffectRecord /\ NoRequest \in ApprovalRecord
  BY NoTxType DEF NoTx, Transaction
<1> QED
  BY <1>1 DEF Forget, ClientRecord

(* A client that forgets what it read, and rests. *)
LEMMA Resets ==
    ASSUME NEW c \in Clients, NEW x \in ClientRecord, InPlace(c, x),
           NEW pc \in {"idle", "done", "refused"}
    PROVE  /\ [Forget(x) EXCEPT !.pc = pc] \in ClientRecord
           /\ [Forget(x) EXCEPT !.pc = pc].pc = pc
           /\ [Forget(x) EXCEPT !.pc = pc].value = x.value
           /\ [Forget(x) EXCEPT !.pc = pc].attempt = x.attempt
           /\ [Forget(x) EXCEPT !.pc = pc].result = x.result
           /\ InPlace(c, [Forget(x) EXCEPT !.pc = pc])
<1> DEFINE y == [Forget(x) EXCEPT !.pc = pc]
<1>1. Forget(x) \in ClientRecord
  BY ForgetShape
<1>2. /\ y \in ClientRecord /\ y.pc = pc /\ y.stage = Forget(x).stage /\ y.value = Forget(x).value
      /\ y.attempt = Forget(x).attempt /\ y.result = Forget(x).result
  BY <1>1 DEF ClientRecord, Pcs, Ended
<1>3. y.stage = x.stage /\ y.value = x.value /\ y.attempt = x.attempt /\ y.result = x.result
  BY <1>2, ForgetShape
<1>4. InPlace(c, y)
  BY <1>2, <1>3 DEF InPlace
<1> QED
  BY <1>2, <1>3, <1>4

(* A client that reads, or writes nothing. *)
LEMMA ReadTurn ==
    ASSUME PostgresInv, NEW c \in Clients, NEW y \in ClientRecord,
           clients' = [clients EXCEPT ![c] = y], jobs' = jobs,
           UNCHANGED <<vars, stamps>>, doubt' = doubt,
           y.attempt = clients[c].attempt, y.result = clients[c].result,
           y.value # clients[c].value => y.pc = "write",
           Does(c) = "take" => y.pc # "done" \/ y = clients[c],
           Knows(c, y)
    PROVE  Turn(c)
<1>1. PostgresTypeOK /\ now \in Nat /\ now' = now
  BY DEF PostgresInv, PostgresTypeOK, TypeOK, vars
<1>2. Onward
  BY <1>1 DEF Onward, vars, Current, SameRequest, PostgresTypeOK, TypeOK, EffectRecord
<1>3. Knows(c, y)'
  BY <1>1, <1>2, KnowsStays
<1>4. Told(c, clients[c], y) /\ ReadsOn(c, clients[c], y)
  BY DEF Told, ReadsOn
<1> QED
  BY <1>3, <1>4 DEF Turn

LEMMA RefusedTurn ==
    ASSUME PostgresInv, NEW c \in Clients, End(c, "refused"), jobs' = jobs,
           UNCHANGED <<vars, stamps, doubt>>
    PROVE  Turn(c)
<1>1. clients[c] \in ClientRecord /\ InPlace(c, clients[c])
  BY DEF PostgresInv, PostgresTypeOK, Knows
<1>0. PICK y : y = [Forget(clients[c]) EXCEPT !.pc = "refused"]
  OBVIOUS
<1>2. /\ y \in ClientRecord /\ y.pc = "refused" /\ y.value = clients[c].value
      /\ y.attempt = clients[c].attempt /\ y.result = clients[c].result /\ InPlace(c, y)
  BY <1>0, <1>1, Resets
<1>3. clients' = [clients EXCEPT ![c] = y]
  BY <1>0 DEF End
<1>4. Knows(c, y)
  BY <1>2, Rests DEF Resting
<1> QED
  BY <1>2, <1>3, <1>4, ReadTurn

(* A transaction lands, is refused, or is in doubt. *)
LEMMA CommitTurn ==
    ASSUME PostgresInv, NEW c \in Clients, NEW tx, NEW next \in ClientRecord,
           Committable(c, tx), Commit(c, tx, next), jobs' = jobs,
           next.pc \in Resting, InPlace(c, next), next.value = clients[c].value,
           Lands(tx) => Told(c, clients[c], next),
           TakesWhatItRead(c, tx, clients[c], next)
    PROVE  Turn(c)
<1>1. clients[c] \in ClientRecord /\ InPlace(c, clients[c]) /\ clients \in [Clients -> ClientRecord]
  BY DEF PostgresInv, PostgresTypeOK, Knows
<1>2. CASE Lands(tx) /\ clients' = [clients EXCEPT ![c] = next] /\ UNCHANGED doubt
  <2>1. Knows(c, next)'
    BY RestsOn
  <2>2. Commits(c, tx, clients[c], next)
    BY <1>2 DEF Commits
  <2> QED
    BY <1>2, <2>1, <2>2 DEF Turn
<1>3. CASE End(c, "refused") /\ UNCHANGED <<vars, stamps, doubt>>
  BY <1>3, RefusedTurn
<1>4. CASE doubt' = [doubt EXCEPT ![c] = tx] /\ Goto(c, "lost") /\ UNCHANGED <<vars, stamps>>
  <2>0. PICK y : y = [clients[c] EXCEPT !.pc = "lost"]
    OBVIOUS
  <2>1. /\ y \in ClientRecord /\ y.pc = "lost" /\ y.stage = clients[c].stage
        /\ y.attempt = clients[c].attempt /\ y.result = clients[c].result
        /\ y.value = clients[c].value
    BY <1>1, <2>0 DEF ClientRecord, Pcs
  <2>2. InPlace(c, y)
    BY <1>1, <2>1 DEF InPlace
  <2>3. Knows(c, y)'
    BY <2>1, <2>2, RestsOn DEF Resting
  <2>4. clients' = [clients EXCEPT ![c] = y]
    BY <1>1, <1>4, <2>0 DEF Goto
  <2>5. Told(c, clients[c], y) /\ Loses(c, tx, clients[c], y)
    BY <1>4, <2>1 DEF Told, Loses
  <2> QED
    BY <2>1, <2>3, <2>4, <2>5 DEF Turn
<1> QED
  BY <1>2, <1>3, <1>4 DEF Commit

LEMMA ProceedShape ==
    ASSUME PostgresInv, NEW c \in Clients
    PROVE  /\ Proceed(c) \in ClientRecord /\ InPlace(c, Proceed(c))
           /\ Proceed(c).pc \in Resting /\ Proceed(c).value = clients[c].value
           /\ Stage(c) = "reserve" =>
                  /\ Proceed(c).attempt = clients[c].record.attempt + 1
                  /\ Proceed(c).result = clients[c].result
           /\ Stage(c) # "reserve" => Proceed(c).attempt = clients[c].attempt
           /\ Proceed(c).result \in {clients[c].result, Stage(c)}
           /\ Proceed(c).result # clients[c].result => Proceed(c).pc = "done"
           /\ Stage(c) = "executing" => Proceed(c).result = clients[c].result
           /\ Stage(c) \in {"reserve", "executing"} => Proceed(c).pc # "done"
<1>1. clients[c] \in ClientRecord /\ InPlace(c, clients[c])
  BY DEF PostgresInv, PostgresTypeOK, Knows
<1> DEFINE x == clients[c]
<1>2. /\ Forget(x) \in ClientRecord
      /\ Forget(x).pc = x.pc /\ Forget(x).stage = x.stage /\ Forget(x).value = x.value
      /\ Forget(x).attempt = x.attempt /\ Forget(x).result = x.result
  BY <1>1, ForgetShape
<1>3. x.stage \in Stages /\ x.record.attempt \in Nat /\ x.result \in Stages /\ x.attempt \in Nat
  BY <1>1 DEF ClientRecord, EffectRecord
<1>4. Runs(c) <=> x.stage # "once"
  BY <1>1 DEF InPlace
<1>5. PICK f : f = Forget(x)
  OBVIOUS
<1>6. CASE x.stage = "reserve"
  <2>0. PICK n \in Nat : n = x.record.attempt + 1
    BY <1>3
  <2>a. PICK g : g = [f EXCEPT !.stage = "executing", !.pc = "idle"]
    OBVIOUS
  <2>b. /\ g \in ClientRecord /\ g.pc = "idle" /\ g.stage = "executing" /\ g.value = x.value
        /\ g.result = x.result
    BY <1>2, <1>5, <2>a DEF ClientRecord, Stages, Pcs
  <2>1. PICK y : y = [g EXCEPT !.attempt = n]
    OBVIOUS
  <2>2. Proceed(c) = y
    BY <1>5, <1>6, <2>0, <2>a, <2>1 DEF Proceed, Stage, Enter
  <2>3. /\ y \in ClientRecord /\ y.pc = "idle" /\ y.stage = "executing" /\ y.value = x.value
        /\ y.attempt = x.record.attempt + 1 /\ y.result = x.result
    BY <2>0, <2>b, <2>1 DEF ClientRecord
  <2>4. InPlace(c, y)
    BY <1>1, <1>4, <1>6, <2>3 DEF InPlace
  <2> QED
    BY <1>6, <2>2, <2>3, <2>4 DEF Stage, Resting
<1>7. CASE x.stage = "executing"
  <2>1. PICK y : y = [f EXCEPT !.stage = "run", !.pc = "run"]
    OBVIOUS
  <2>2. Proceed(c) = y
    BY <1>5, <1>7, <2>1 DEF Proceed, Stage, Enter
  <2>3. /\ y \in ClientRecord /\ y.pc = "run" /\ y.stage = "run" /\ y.value = x.value
        /\ y.attempt = x.attempt /\ y.result = x.result
    BY <1>2, <1>3, <1>5, <2>1 DEF ClientRecord, Stages, Pcs
  <2>4. InPlace(c, y)
    BY <1>1, <1>4, <1>7, <2>3 DEF InPlace
  <2> QED
    BY <1>7, <2>2, <2>3, <2>4 DEF Stage, Resting
<1>8. CASE x.stage \notin {"reserve", "executing"}
  <2>1. PICK y : y = [f EXCEPT !.pc = "done", !.result = x.stage]
    OBVIOUS
  <2>2. Proceed(c) = y
    BY <1>5, <1>8, <2>1 DEF Proceed, Stage
  <2>3. /\ y \in ClientRecord /\ y.pc = "done" /\ y.stage = x.stage /\ y.value = x.value
        /\ y.attempt = x.attempt /\ y.result = x.stage
    BY <1>2, <1>3, <1>5, <2>1 DEF ClientRecord, Pcs, Ended
  <2>4. InPlace(c, y)
    BY <1>1, <1>4, <1>8, <2>3 DEF InPlace, Resolutions
  <2> QED
    BY <1>8, <2>2, <2>3, <2>4 DEF Stage, Resting
<1> QED
  BY <1>6, <1>7, <1>8

-----------------------------------------------------------------------------
(* Every action of a client is a turn of it *)

LEMMA Situation ==
    ASSUME PostgresInv, NEW c \in Clients
    PROVE  /\ clients \in [Clients -> ClientRecord] /\ clients[c] \in ClientRecord
           /\ Knows(c, clients[c]) /\ InPlace(c, clients[c])
           /\ Key(c) \in Keys => effects[Key(c)] \in EffectRecord /\ Agrees(effects[Key(c)])
           /\ Request(c) \in Approvals \cup {NoApproval}
           /\ \A id \in Approvals : approvals[id] \in ApprovalRecord
           /\ now \in Nat
           /\ Runs(c) => /\ Key(c) \in Keys /\ Action(c) \in Actions /\ Hash(c) \in Hashes
           /\ Does(c) \in {"grant", "deny"} =>
                  Request(c) \in Approvals /\ jobs[c].who \in Principals \cup {Nobody}
           /\ Does(c) \in {"resolve", "take"} => Key(c) \in Keys
           /\ Runs(c) => Does(c) \notin {"resolve", "take", "grant", "deny", "nothing"}
  BY JobFacts, AgreesEach DEF PostgresInv, PostgresTypeOK, TypeOK, Knows

(* A read by which a client moves on to another program counter. *)
LEMMA MoveTurn ==
    ASSUME PostgresInv, NEW c \in Clients, NEW y \in ClientRecord,
           clients' = [clients EXCEPT ![c] = y], jobs' = jobs,
           Reads(c), y.attempt = clients[c].attempt, y.result = clients[c].result,
           y.value = clients[c].value, y.pc # "done", Knows(c, y)
    PROVE  Turn(c)
  BY ReadTurn DEF Reads

LEMMA OpenReservationTurn ==
    ASSUME PostgresInv, NEW c \in Clients, OpenReservation(c), jobs' = jobs
    PROVE  Turn(c)
<1>1. PICK x : x = clients[c]
  OBVIOUS
<1>2. /\ x \in ClientRecord /\ InPlace(c, x) /\ x.pc = "idle" /\ x.stage = "reserve" /\ Runs(c)
      /\ Request(c) \in Approvals \cup {NoApproval} /\ now \in Nat
      /\ \A id \in Approvals : approvals[id] \in ApprovalRecord
      /\ clients \in [Clients -> ClientRecord]
  BY <1>1, Situation DEF OpenReservation, At, Stage, InPlace
<1>3. CASE /\ Request(c) # NoApproval => Consumable(Request(c), Hash(c), now)
           /\ clients' = [clients EXCEPT ![c].pc = "plan", ![c].at = now]
  <2>1. PICK y : y = [x EXCEPT !.pc = "plan", !.at = now]
    OBVIOUS
  <2>2. /\ y \in ClientRecord /\ y.pc = "plan" /\ y.stage = "reserve" /\ y.at = now
        /\ y.attempt = x.attempt /\ y.result = x.result /\ y.value = x.value
    BY <1>2, <2>1 DEF ClientRecord, Pcs
  <2>3. InPlace(c, y)
    BY <1>2, <2>2 DEF InPlace
  <2>4. Presentable(c, now)
    BY <1>2, <1>3 DEF Presentable, Consumable, GrantedFor
  <2>5. Knows(c, y)
    BY <2>2, <2>3, <2>4 DEF Knows, KnowsReservation, KnowsRecord, KnowsRequest
  <2>6. clients' = [clients EXCEPT ![c] = y]
    BY <1>1, <1>2, <1>3, <2>1
  <2> QED
    BY <1>1, <2>2, <2>5, <2>6, MoveTurn DEF OpenReservation
<1>4. CASE /\ Request(c) # NoApproval /\ Overdue(Request(c), Hash(c), now)
           /\ clients' = [clients EXCEPT ![c].pc = "expire", ![c].request = approvals[Request(c)]]
  <2>1. PICK y : y = [x EXCEPT !.pc = "expire", !.request = approvals[Request(c)]]
    OBVIOUS
  <2>2. /\ y \in ClientRecord /\ y.pc = "expire" /\ y.stage = "reserve"
        /\ y.attempt = x.attempt /\ y.result = x.result /\ y.value = x.value
        /\ y.request = approvals[Request(c)]
    BY <1>2, <1>4, <2>1 DEF ClientRecord, Pcs
  <2>3. InPlace(c, y)
    BY <1>2, <1>4, <2>2 DEF InPlace
  <2>5. Knows(c, y)
    BY <1>4, <2>2, <2>3 DEF Knows, KnowsReservation, KnowsRecord, KnowsRequest, Overdue, GrantedFor
  <2>6. clients' = [clients EXCEPT ![c] = y]
    BY <1>1, <1>2, <1>4, <2>1
  <2> QED
    BY <1>1, <2>2, <2>5, <2>6, MoveTurn DEF OpenReservation
<1> QED
  BY <1>3, <1>4 DEF OpenReservation

LEMMA RefusedIsTurn ==
    ASSUME PostgresInv, NEW c \in Clients, Refused(c), jobs' = jobs
    PROVE  Turn(c)
  BY RefusedTurn DEF Refused

LEMMA PlanReservationTurn ==
    ASSUME PostgresInv, NEW c \in Clients, PlanReservation(c), jobs' = jobs
    PROVE  Turn(c)
<1>1. PICK x : x = clients[c]
  OBVIOUS
<1>2. /\ x \in ClientRecord /\ InPlace(c, x) /\ x.pc = "plan" /\ x.stage = "reserve" /\ Runs(c)
      /\ Knows(c, x) /\ Key(c) \in Keys
      /\ effects[Key(c)] \in EffectRecord /\ Agrees(effects[Key(c)])
      /\ clients \in [Clients -> ClientRecord]
  BY <1>1, Situation DEF PlanReservation, At, InPlace
<1>3. ASSUME NEW pc \in {"price", "write", "ambiguate"},
             clients' = [clients EXCEPT ![c].pc = pc, ![c].record = effects[Key(c)]], Reads(c),
             pc # "ambiguate" => Free(effects[Key(c)]),
             pc = "ambiguate" => effects[Key(c)].state \in Unfinished
      PROVE  Turn(c)
  <2>1. PICK y : y = [x EXCEPT !.pc = pc, !.record = effects[Key(c)]]
    OBVIOUS
  <2>2. /\ y \in ClientRecord /\ y.pc = pc /\ y.stage = "reserve" /\ y.record = effects[Key(c)]
        /\ y.attempt = x.attempt /\ y.result = x.result /\ y.value = x.value /\ y.at = x.at
    BY <1>2, <2>1 DEF ClientRecord, Pcs
  <2>3. InPlace(c, y) /\ Does(c) \notin {"resolve", "take", "grant", "deny"}
    BY <1>2, <2>2, Situation DEF InPlace
  <2>4. Presentable(c, y.at)
    BY <1>2, <2>2 DEF Knows, KnowsReservation
  <2>5. Knows(c, y)
    BY <1>2, <1>3, <2>2, <2>3, <2>4 DEF Knows, KnowsReservation, KnowsRecord, KnowsRequest, Transitions
  <2>6. clients' = [clients EXCEPT ![c] = y]
    BY <1>1, <1>2, <1>3, <2>1
  <2> QED
    BY <1>1, <1>3, <2>2, <2>5, <2>6, MoveTurn
<1>4. CASE Refused(c)
  BY <1>4, RefusedIsTurn
<1>5. CASE Free(effects[Key(c)]) /\ ~Refused(c)
  <2>1. PICK pc \in {"price", "write"} :
           pc = IF \E l \in Lines : Cost[Hash(c)][l] > 0 THEN "price" ELSE "write"
    OBVIOUS
  <2>2. clients' = [clients EXCEPT ![c].pc = pc, ![c].record = effects[Key(c)]] /\ Reads(c)
    BY <1>5, <2>1 DEF PlanReservation, Lapsed, Free, Unfinished
  <2> QED
    BY <1>3, <1>5, <2>2
<1>6. CASE ~Free(effects[Key(c)]) /\ ~Refused(c)
  <2>1. /\ Lapsed(effects[Key(c)], clients[c].at) /\ Reads(c)
        /\ clients' = [clients EXCEPT ![c].pc = "ambiguate", ![c].record = effects[Key(c)]]
    BY <1>6 DEF PlanReservation
  <2> QED
    BY <1>3, <2>1 DEF Lapsed
<1> QED
  BY <1>4, <1>5, <1>6

(* Two records of one attempt in one state differ in the lease at most. *)
LEMMA SameRecord ==
    ASSUME NEW r \in EffectRecord, NEW s \in EffectRecord, Agrees(r), Agrees(s),
           r.action = s.action, r.state = s.state, r.attempt = s.attempt,
           r.state \in Unfinished \cup {"ambiguous"}
    PROVE  /\ \A t : [r EXCEPT !.lease = t] = [s EXCEPT !.lease = t]
           /\ \A to : to # "executing" => Transitioned(r, to) = Transitioned(s, to)
           /\ r.state = "ambiguous" => r = s
<1>1. r.resolvedBy = s.resolvedBy
  BY DEF Agrees, Unfinished, Resolutions
<1>2. \A t : [r EXCEPT !.lease = t] = [s EXCEPT !.lease = t]
  BY <1>1 DEF EffectRecord
<1>3. \A to : to # "executing" => Transitioned(r, to) = Transitioned(s, to)
  BY <1>1 DEF EffectRecord, Transitioned
<1>5. r.state = "ambiguous" => r.lease = s.lease
  BY DEF Agrees, Unfinished
<1>4. r.state = "ambiguous" => r = s
  <2>1. /\ r = [state |-> r.state, action |-> r.action, attempt |-> r.attempt,
                lease |-> r.lease, resolvedBy |-> r.resolvedBy]
        /\ s = [state |-> s.state, action |-> s.action, attempt |-> s.attempt,
                lease |-> s.lease, resolvedBy |-> s.resolvedBy]
    BY DEF EffectRecord
  <2> QED
    BY <1>1, <1>5, <2>1
<1> QED
  BY <1>2, <1>3, <1>4

LEMMA NothingReleased ==
    ASSUME NEW k, NEW r, NEW to, to # "failed"
    PROVE  [NoTx EXCEPT !.key = k, !.record = r]
               = [NoTx EXCEPT !.key = k, !.record = r, !.release = to = "failed"]
<1>1. PICK n \in Transaction : n = NoTx
  BY NoTxType
<1>2. n.release = FALSE
  BY <1>1 DEF NoTx
<1>3. [n EXCEPT !.key = k, !.record = r]
          = [n EXCEPT !.key = k, !.record = r, !.release = to = "failed"]
  BY <1>2 DEF Transaction
<1> QED
  BY <1>1, <1>3

LEMMA AmbiguateTurn ==
    ASSUME PostgresInv, NEW c \in Clients, Ambiguate(c), jobs' = jobs
    PROVE  Turn(c)
<1>1. PICK x : x = clients[c]
  OBVIOUS
<1>2. /\ x \in ClientRecord /\ InPlace(c, x) /\ x.pc = "ambiguate" /\ x.stage = "reserve" /\ Runs(c)
      /\ Knows(c, x) /\ Key(c) \in Keys
      /\ effects[Key(c)] \in EffectRecord /\ Agrees(effects[Key(c)])
  BY <1>1, Situation DEF Ambiguate, At, InPlace
<1>3. CASE Refused(c)
  BY <1>3, RefusedIsTurn
<1>4. CASE Unmoved(c) /\ ~Refused(c)
  <2>1. PICK tx : tx = [NoTx EXCEPT !.key = Key(c), !.record = Transitioned(x.record, "ambiguous")]
    OBVIOUS
  <2>2. PICK y : y = [Forget(x) EXCEPT !.pc = "refused"]
    OBVIOUS
  <2>3. Commit(c, tx, y)
    BY <1>1, <1>4, <2>1, <2>2 DEF Ambiguate
  <2>4. x.record \in EffectRecord /\ x.record.state \in Unfinished /\ Agrees(x.record)
    BY <1>2 DEF Knows, KnowsReservation, ClientRecord
  <2>5. Transitioned(x.record, "ambiguous") = Transitioned(effects[Key(c)], "ambiguous")
        /\ effects[Key(c)].state \in Unfinished
    BY <1>1, <1>2, <1>4, <2>4, SameRecord DEF Unmoved
  <2>6. Transiting(c, tx, "ambiguous")
    <3>1. tx = [NoTx EXCEPT !.key = Key(c), !.record = Transitioned(effects[Key(c)], "ambiguous"),
                            !.release = "ambiguous" = "failed"]
      BY <1>2, <2>1, <2>5, NothingReleased
    <3>2. effects[Key(c)].state \in Expected("ambiguous")
      BY <2>5 DEF Expected, Resolutions
    <3> QED
      BY <1>2, <3>1, <3>2 DEF Transiting
  <2>7. /\ tx.key = Key(c) /\ tx.id = NoApproval /\ tx.cont = NoKey /\ tx.value = NoToken
    BY <2>1 DEF NoTx
  <2>8. Committable(c, tx)
    BY <2>6, <2>7 DEF Committable, Lawful, Transitions, Fresh, Clear, Ambiguate, KeyFree
  <2>9. /\ y \in ClientRecord /\ y.pc = "refused" /\ y.value = x.value /\ y.attempt = x.attempt
        /\ y.result = x.result /\ InPlace(c, y)
    BY <1>2, <2>2, Resets
  <2>10. Told(c, x, y) /\ TakesWhatItRead(c, tx, x, y)
    BY <2>9 DEF Told, TakesWhatItRead
  <2> QED
    BY <1>1, <2>3, <2>8, <2>9, <2>10, CommitTurn DEF Resting
<1> QED
  BY <1>3, <1>4 DEF Ambiguate

LEMMA ExpireTurn ==
    ASSUME PostgresInv, NEW c \in Clients, Expire(c), jobs' = jobs
    PROVE  Turn(c)
<1>1. PICK x : x = clients[c]
  OBVIOUS
<1>2. /\ x \in ClientRecord /\ InPlace(c, x) /\ x.pc = "expire"
      /\ Knows(c, x) /\ Request(c) \in Approvals
      /\ approvals[Request(c)] \in ApprovalRecord
  BY <1>1, Situation DEF Expire, At, InPlace
<1>3. CASE Refused(c)
  BY <1>3, RefusedIsTurn
<1>4. CASE approvals[Request(c)].status = x.request.status /\ ~Refused(c)
  <2>1. PICK tx : tx = [NoTx EXCEPT !.id = Request(c),
                           !.request = [approvals[Request(c)] EXCEPT !.status = "expired"]]
    OBVIOUS
  <2>2. PICK y : y = [Forget(x) EXCEPT !.pc = "refused"]
    OBVIOUS
  <2>3. Commit(c, tx, y)
    BY <1>1, <1>4, <2>1, <2>2 DEF Expire
  <2>4. /\ approvals[Request(c)].status \in {"pending", "granted"}
        /\ now > approvals[Request(c)].expires
    BY <1>2, <1>4 DEF Knows, KnowsRequest
  <2>5. approvals[Request(c)].hash \in Hashes
    BY <1>2, <2>4 DEF PostgresInv, Hashed
  <2>6. Expiring(c, tx)
    BY <1>2, <2>1, <2>4, <2>5 DEF Expiring
  <2>7. tx.key = NoKey /\ tx.id = Request(c) /\ tx.cont = NoKey /\ tx.value = NoToken
    BY <2>1 DEF NoTx
  <2>8. Committable(c, tx)
    BY <2>6, <2>7 DEF Committable, Lawful, Fresh, Clear, Expire, RequestFree
  <2>9. /\ y \in ClientRecord /\ y.pc = "refused" /\ y.value = x.value /\ y.attempt = x.attempt
        /\ y.result = x.result /\ InPlace(c, y)
    BY <1>2, <2>2, Resets
  <2>10. Told(c, x, y) /\ TakesWhatItRead(c, tx, x, y)
    BY <2>9 DEF Told, TakesWhatItRead
  <2> QED
    BY <1>1, <2>3, <2>8, <2>9, <2>10, CommitTurn DEF Resting
<1> QED
  BY <1>1, <1>3, <1>4 DEF Expire

LEMMA PriceTurn ==
    ASSUME PostgresInv, NEW c \in Clients, Price(c), jobs' = jobs
    PROVE  Turn(c)
<1>1. PICK x : x = clients[c]
  OBVIOUS
<1>2. /\ x \in ClientRecord /\ InPlace(c, x) /\ x.pc = "price" /\ x.stage = "reserve" /\ Runs(c)
      /\ Knows(c, x) /\ clients \in [Clients -> ClientRecord]
  BY <1>1, Situation DEF Price, At, InPlace
<1>3. CASE UNCHANGED <<vars, clients, doubt, stamps>>
  <2>1. clients' = [clients EXCEPT ![c] = x]
    BY <1>1, <1>2, <1>3
  <2> QED
    BY <1>1, <1>2, <1>3, <2>1, ReadTurn
<1>4. CASE Misses(c, "write")
  <2>1. PICK y : y = [x EXCEPT !.pc = "write"]
    OBVIOUS
  <2>2. /\ y \in ClientRecord /\ y.pc = "write" /\ y.stage = "reserve" /\ y.record = x.record
        /\ y.attempt = x.attempt /\ y.result = x.result /\ y.value = x.value /\ y.at = x.at
    BY <1>2, <2>1 DEF ClientRecord, Pcs
  <2>3. InPlace(c, y) /\ Does(c) \notin {"resolve", "take", "grant", "deny"}
    BY <1>2, <2>2, Situation DEF InPlace
  <2>4. Knows(c, y)
    BY <1>2, <2>2, <2>3 DEF Knows, KnowsReservation, KnowsRecord, KnowsRequest, Transitions
  <2>5. clients' = [clients EXCEPT ![c] = y] /\ Reads(c)
    BY <1>1, <1>2, <1>4, <2>1 DEF Misses, Goto
  <2> QED
    BY <1>1, <2>2, <2>4, <2>5, MoveTurn
<1>5. CASE Refused(c)
  BY <1>5, RefusedIsTurn
<1> QED
  BY <1>3, <1>4, <1>5 DEF Price

(* A client of a run learns from a read what has become of its write. *)
LEMMA ToldTurn ==
    ASSUME PostgresInv, NEW c \in Clients, NEW y \in ClientRecord, Runs(c),
           clients' = [clients EXCEPT ![c] = y], jobs' = jobs, Reads(c),
           Told(c, clients[c], y), y.value = clients[c].value,
           y.pc \in Resting, InPlace(c, y)
    PROVE  Turn(c)
<1>1. Knows(c, y)'
  BY RestsOn
<1>2. Does(c) # "take"
  BY Situation
<1>3. ReadsOn(c, clients[c], y)
  BY <1>2 DEF ReadsOn, Reads
<1> QED
  BY <1>1, <1>3 DEF Turn

LEMMA StillInPlace ==
    ASSUME NEW c, NEW x, NEW y, InPlace(c, x), y.pc \in {"idle", "done", "refused", "lost"},
           y.stage = x.stage, y.attempt = x.attempt, y.result = x.result
    PROVE  InPlace(c, y)
  BY DEF InPlace

(* A client that starts its stage again. *)
LEMMA AgainTurn ==
    ASSUME PostgresInv, NEW c \in Clients, NEW y \in ClientRecord, y.pc = "idle",
           y.stage = clients[c].stage, y.value = clients[c].value,
           y.attempt = clients[c].attempt, y.result = clients[c].result,
           Reads(c), jobs' = jobs, clients' = [clients EXCEPT ![c] = y]
    PROVE  Turn(c)
<1>1. InPlace(c, y)
  BY Situation, StillInPlace
<1>2. Knows(c, y)
  BY <1>1, Rests DEF Resting
<1> QED
  BY <1>2, MoveTurn

LEMMA ReissueTurn ==
    ASSUME PostgresInv, NEW c \in Clients, Reissue(c), Reads(c), jobs' = jobs
    PROVE  Turn(c)
<1>1. PICK x \in ClientRecord : x = clients[c]
  BY Situation
<1>2. PICK f : f = Forget(x)
  OBVIOUS
<1>3. /\ f \in ClientRecord /\ f.stage = x.stage /\ f.value = x.value /\ f.attempt = x.attempt
      /\ f.result = x.result
  BY <1>2, ForgetShape
<1>4. PICK y : y = [f EXCEPT !.pc = "idle", !.again = TRUE, !.restaged = x.restaged]
  OBVIOUS
<1>5. /\ y \in ClientRecord /\ y.pc = "idle" /\ y.stage = x.stage /\ y.value = x.value
      /\ y.attempt = x.attempt /\ y.result = x.result
  BY <1>3, <1>4 DEF ClientRecord, Pcs
<1>6. clients' = [clients EXCEPT ![c] = y]
  BY <1>1, <1>2, <1>4 DEF Reissue
<1> QED
  BY <1>1, <1>5, <1>6, AgainTurn

(* What it writes is decided on the record and the request that are there. *)
LEMMA ReservationIsLawful ==
    ASSUME PostgresInv, NEW c \in Clients, At(c, "write"), Stage(c) = "reserve",
           Renewable(c), Spendable(c)
    PROVE  /\ Reserving(c, ReservationTx(c), clients[c].at, clients[c].again)
           /\ clients[c].again \in BOOLEAN /\ clients[c].at \in 0..now
<1>1. PICK x : x = clients[c]
  OBVIOUS
<1>2. /\ x \in ClientRecord /\ InPlace(c, x) /\ x.pc = "write" /\ x.stage = "reserve" /\ Runs(c)
      /\ Knows(c, x) /\ now \in Nat
  BY <1>1, Situation DEF At, Stage, InPlace
<1>3. /\ Presentable(c, x.at) /\ Free(x.record) /\ x.at \in Nat /\ x.at <= now
  BY <1>2 DEF Knows, KnowsReservation, Presentable, ClientRecord
<1>4. /\ effects[Key(c)].state = x.record.state /\ effects[Key(c)].attempt = x.record.attempt
      /\ Free(effects[Key(c)])
  BY <1>1, <1>3 DEF Renewable, Free
<1>5. Request(c) # NoApproval => Consumable(Request(c), Hash(c), x.at)
  BY <1>3 DEF Spendable, Presentable, Consumable, GrantedFor
<1>6. Reserving(c, ReservationTx(c), x.at, x.again)
  BY <1>1, <1>2, <1>4, <1>5 DEF Reserving, ReservationTx, Reserved, Stamp
<1> QED
  BY <1>1, <1>2, <1>3, <1>6 DEF ClientRecord

LEMMA WriteReservationTurn ==
    ASSUME PostgresInv, NEW c \in Clients, WriteReservation(c), jobs' = jobs
    PROVE  Turn(c)
<1>1. PICK x : x = clients[c]
  OBVIOUS
<1>2. /\ x \in ClientRecord /\ InPlace(c, x) /\ x.pc = "write" /\ x.stage = "reserve" /\ Runs(c)
      /\ Knows(c, x) /\ Key(c) \in Keys /\ now \in Nat
      /\ effects[Key(c)] \in EffectRecord
      /\ Request(c) \in Approvals \cup {NoApproval}
      /\ clients \in [Clients -> ClientRecord]
  BY <1>1, Situation DEF WriteReservation, At, Stage, InPlace
<1>3. CASE Refused(c)
  BY <1>3, RefusedIsTurn
<1>4. CASE Renewable(c) /\ Spendable(c) /\ ~Refused(c)
  <2>1. PICK tx : tx = ReservationTx(c)
    OBVIOUS
  <2>2. PICK y : y = Proceed(c)
    OBVIOUS
  <2>3. Commit(c, tx, y)
    BY <1>4, <2>1, <2>2 DEF WriteReservation
  <2>5. effects[Key(c)].attempt = x.record.attempt
    BY <1>1, <1>4 DEF Renewable
  <2>7. Reserving(c, tx, x.at, x.again) /\ x.again \in BOOLEAN /\ x.at \in 0..now
    BY <1>1, <1>4, <2>1, ReservationIsLawful DEF WriteReservation
  <2>9. /\ tx.key = Key(c) /\ tx.id = Request(c) /\ tx.cont = NoKey /\ tx.value = NoToken
        /\ tx.by = <<c, x.again>> /\ tx.record.attempt = x.record.attempt + 1
    BY <2>5, <2>7 DEF Reserving, NoTx, Reserved
  <2>10. Committable(c, tx)
    <3>1. Lawful(c, tx)
      BY <2>7 DEF Lawful
    <3>2. \A d \in Clients : Clear(d, tx)
      BY <2>9 DEF Clear, WriteReservation, KeyFree, RequestFree
    <3> QED
      BY <2>9, <3>1, <3>2 DEF Committable, Fresh
  <2>11. /\ y \in ClientRecord /\ InPlace(c, y) /\ y.pc \in Resting /\ y.value = x.value
         /\ y.attempt = x.record.attempt + 1 /\ y.result = x.result
    BY <1>1, <1>2, <2>2, ProceedShape DEF Stage
  <2>12. Lands(tx) => Told(c, x, y)
    <3> SUFFICES ASSUME Lands(tx) PROVE Told(c, x, y)
      OBVIOUS
    <3>1. effects'[Key(c)] = tx.record /\ stamps'[Key(c)] = tx.by
      BY <1>2, <2>9, Nulls DEF Lands, PostgresInv, PostgresTypeOK, TypeOK
    <3> QED
      BY <1>2, <2>7, <2>9, <2>11, <3>1 DEF Told
  <2>13. TakesWhatItRead(c, tx, x, y)
    BY <1>2, Situation DEF TakesWhatItRead
  <2> QED
    BY <1>1, <2>3, <2>10, <2>11, <2>12, <2>13, CommitTurn
<1> QED
  BY <1>3, <1>4 DEF WriteReservation

LEMMA ResolveLostReservationTurn ==
    ASSUME PostgresInv, NEW c \in Clients, ResolveLostReservation(c), jobs' = jobs
    PROVE  Turn(c)
<1>1. PICK x : x = clients[c]
  OBVIOUS
<1>2. /\ x \in ClientRecord /\ InPlace(c, x) /\ x.pc = "lost" /\ x.stage = "reserve" /\ Runs(c)
      /\ Key(c) \in Keys /\ Reads(c)
  BY <1>1, Situation DEF ResolveLostReservation, At, Stage, InPlace
<1>3. CASE End(c, "refused")
  BY <1>2, <1>3, RefusedTurn DEF Reads
<1>4. CASE Reissue(c)
  BY <1>2, <1>4, ReissueTurn
<1>5. CASE OwnWrite(c) /\ clients' = [clients EXCEPT ![c] = Proceed(c)]
  <2>1. PICK y : y = Proceed(c)
    OBVIOUS
  <2>2. /\ y \in ClientRecord /\ InPlace(c, y) /\ y.pc \in Resting /\ y.value = x.value
        /\ y.attempt = x.record.attempt + 1 /\ y.result = x.result
    BY <1>1, <1>2, <2>1, ProceedShape DEF Stage
  <2>3. /\ effects'[Key(c)].attempt = x.record.attempt + 1
        /\ stamps'[Key(c)] = <<c, x.again>> /\ x.again \in BOOLEAN
    BY <1>1, <1>2, <1>5 DEF OwnWrite, Reserved, Reads, vars, Stamp, ClientRecord
  <2>4. Told(c, x, y)
    BY <1>2, <2>2, <2>3 DEF Told
  <2> QED
    BY <1>1, <1>2, <1>5, <2>1, <2>2, <2>4, ToldTurn
<1> QED
  BY <1>3, <1>4, <1>5 DEF ResolveLostReservation

LEMMA ReadForTransitionTurn ==
    ASSUME PostgresInv, NEW c \in Clients, ReadForTransition(c), jobs' = jobs
    PROVE  Turn(c)
<1>1. PICK x : x = clients[c]
  OBVIOUS
<1>2. /\ x \in ClientRecord /\ InPlace(c, x) /\ x.pc = "idle" /\ x.stage \in Transitions /\ Runs(c)
      /\ Key(c) \in Keys /\ effects[Key(c)] \in EffectRecord /\ Agrees(effects[Key(c)])
      /\ clients \in [Clients -> ClientRecord]
      /\ Does(c) \notin {"resolve", "take", "grant", "deny", "nothing"}
  BY <1>1, Situation DEF ReadForTransition, At, Stage, InPlace, Transitions
<1>3. CASE Refused(c)
  BY <1>3, RefusedIsTurn
<1>4. CASE Mine(c) /\ ~Refused(c)
  <2>1. PICK y : y = [x EXCEPT !.pc = "write", !.record = effects[Key(c)]]
    OBVIOUS
  <2>2. /\ y \in ClientRecord /\ y.pc = "write" /\ y.stage = x.stage /\ y.record = effects[Key(c)]
        /\ y.attempt = x.attempt /\ y.result = x.result /\ y.value = x.value
    BY <1>2, <2>1 DEF ClientRecord, Pcs
  <2>3. InPlace(c, y)
    BY <1>2, <2>2 DEF InPlace, Transitions
  <2>4. HeldIn(y.record, Action(c), Expected(y.stage)) /\ Current(y.record, effects[Key(c)])
    BY <1>1, <1>2, <1>4, <2>2 DEF Mine, Stage, Current, EffectRecord
  <2>5. Knows(c, y)
    BY <1>2, <2>2, <2>3, <2>4 DEF Knows, KnowsReservation, KnowsRecord, KnowsRequest, Transitions
  <2>6. clients' = [clients EXCEPT ![c] = y] /\ Reads(c)
    BY <1>1, <1>2, <1>4, <2>1 DEF ReadForTransition
  <2> QED
    BY <1>1, <2>2, <2>5, <2>6, MoveTurn
<1> QED
  BY <1>3, <1>4 DEF ReadForTransition

(* The record that was read, written on, is the one that is there, written on. *)
LEMMA UnmovedRecord ==
    ASSUME PostgresInv, NEW c \in Clients, At(c, "write"), Stage(c) \in Transitions,
           Unmoved(c)
    PROVE  /\ Runs(c) /\ effects[Key(c)].state \in Expected(Stage(c))
           /\ Transitioned(clients[c].record, Stage(c)) = Transitioned(effects[Key(c)], Stage(c))
<1>1. PICK x : x = clients[c]
  OBVIOUS
<1>2. PICK r : r = effects[Key(c)]
  OBVIOUS
<1>3. /\ x \in ClientRecord /\ InPlace(c, x) /\ x.pc = "write" /\ x.stage \in Transitions /\ Runs(c)
      /\ r \in EffectRecord /\ Agrees(r) /\ Knows(c, x)
  BY <1>1, <1>2, Situation DEF At, Stage, InPlace, Transitions
<1>4. /\ x.record \in EffectRecord /\ Agrees(x.record) /\ x.record.state \in Expected(x.stage)
      /\ x.record.state = "reserved" => Current(x.record, r)
  BY <1>2, <1>3 DEF Knows, KnowsRecord, ClientRecord, HeldIn
<1>5. x.record.action = r.action /\ x.record.state = r.state /\ x.record.attempt = r.attempt
  BY <1>1, <1>2 DEF Unmoved
<1>6. CASE x.stage = "executing"
  <2>1. x.record.state = "reserved"
    BY <1>4, <1>6 DEF Expected, Resolutions
  <2>2. x.record = r
    BY <1>4, <1>5, <2>1 DEF Current
  <2> QED
    BY <1>1, <1>2, <1>3, <1>4, <2>2 DEF Stage
<1>7. CASE x.stage # "executing"
  <2>1. x.record.state \in Unfinished \cup {"ambiguous"}
    BY <1>3, <1>4, <1>7 DEF Expected, Transitions, Resolutions, Unfinished
  <2>2. Transitioned(x.record, x.stage) = Transitioned(r, x.stage)
    BY <1>3, <1>4, <1>5, <1>7, <2>1, SameRecord
  <2> QED
    BY <1>1, <1>2, <1>3, <1>4, <1>5, <2>2 DEF Stage
<1> QED
  BY <1>6, <1>7

LEMMA WriteTransitionTurn ==
    ASSUME PostgresInv, NEW c \in Clients, WriteTransition(c), jobs' = jobs
    PROVE  Turn(c)
<1>1. PICK x : x = clients[c]
  OBVIOUS
<1>2. /\ x \in ClientRecord /\ InPlace(c, x) /\ x.pc = "write" /\ x.stage \in Transitions /\ Runs(c)
      /\ Key(c) \in Keys /\ clients \in [Clients -> ClientRecord]
      /\ Does(c) \notin {"resolve", "take", "grant", "deny"}
  BY <1>1, Situation DEF WriteTransition, At, Stage, InPlace, Transitions
<1>3. CASE Misses(c, "missed")
  <2>1. PICK y : y = [x EXCEPT !.pc = "missed"]
    OBVIOUS
  <2>2. /\ y \in ClientRecord /\ y.pc = "missed" /\ y.stage = x.stage
        /\ y.attempt = x.attempt /\ y.result = x.result /\ y.value = x.value
    BY <1>2, <2>1 DEF ClientRecord, Pcs
  <2>3. InPlace(c, y)
    BY <1>2, <2>2 DEF InPlace
  <2>4. Knows(c, y)
    BY <1>2, <2>2, <2>3 DEF Knows, KnowsReservation, KnowsRecord, KnowsRequest
  <2>5. clients' = [clients EXCEPT ![c] = y] /\ Reads(c)
    BY <1>1, <1>2, <1>3, <2>1 DEF Misses, Goto
  <2> QED
    BY <1>1, <2>2, <2>4, <2>5, MoveTurn
<1>4. CASE Unmoved(c) /\ ~Misses(c, "missed")
  <2>1. PICK tx : tx = [NoTx EXCEPT !.key = Key(c), !.record = Transitioned(x.record, x.stage),
                                    !.release = x.stage = "failed"]
    OBVIOUS
  <2>2. PICK y : y = Proceed(c)
    OBVIOUS
  <2>3. Commit(c, tx, y)
    BY <1>1, <1>4, <2>1, <2>2 DEF WriteTransition, Stage
  <2>4. /\ effects[Key(c)].state \in Expected(x.stage)
        /\ Transitioned(x.record, x.stage) = Transitioned(effects[Key(c)], x.stage)
    BY <1>1, <1>4, UnmovedRecord DEF WriteTransition, Stage
  <2>5. Transiting(c, tx, x.stage)
    BY <1>2, <2>1, <2>4 DEF Transiting
  <2>6. /\ tx.key = Key(c) /\ tx.id = NoApproval /\ tx.cont = NoKey /\ tx.value = NoToken
        /\ tx.record = Transitioned(x.record, x.stage)
    BY <2>1 DEF NoTx
  <2>7. Committable(c, tx)
    BY <1>2, <2>5, <2>6 DEF Committable, Lawful, Fresh, Clear, WriteTransition, KeyFree
  <2>8. /\ y \in ClientRecord /\ InPlace(c, y) /\ y.pc \in Resting /\ y.value = x.value
        /\ y.attempt = x.attempt
        /\ y.result \in {x.result, x.stage}
        /\ y.result # x.result => y.pc = "done"
        /\ x.stage = "executing" => y.result = x.result
    BY <1>1, <1>2, <2>2, ProceedShape DEF Stage, Transitions
  <2>9. Lands(tx) => Told(c, x, y)
    <3> SUFFICES ASSUME Lands(tx) PROVE Told(c, x, y)
      OBVIOUS
    <3>1. effects'[Key(c)] = Transitioned(x.record, x.stage)
      BY <1>2, <2>6, Nulls DEF Lands, PostgresInv, PostgresTypeOK, TypeOK
    <3>2. effects'[Key(c)].state = x.stage
      BY <1>2, <3>1 DEF Transitioned, ClientRecord, EffectRecord
    <3> QED
      BY <1>2, <2>8, <3>2 DEF Told
  <2>10. TakesWhatItRead(c, tx, x, y)
    BY <1>2 DEF TakesWhatItRead
  <2> QED
    BY <1>1, <2>3, <2>7, <2>8, <2>9, <2>10, CommitTurn
<1> QED
  BY <1>3, <1>4 DEF WriteTransition

LEMMA RestageTurn ==
    ASSUME PostgresInv, NEW c \in Clients, Restage(c), jobs' = jobs
    PROVE  Turn(c)
<1>1. PICK x \in ClientRecord : x = clients[c]
  BY Situation
<1>2. PICK f : f = Forget(x)
  OBVIOUS
<1>3. /\ f \in ClientRecord /\ f.stage = x.stage /\ f.value = x.value /\ f.attempt = x.attempt
      /\ f.result = x.result
  BY <1>2, ForgetShape
<1>4. CASE Refused(c)
  BY <1>4, RefusedIsTurn
<1>5. CASE ~Refused(c)
  <2>1. PICK y : y = [f EXCEPT !.pc = "idle", !.restaged = TRUE, !.again = x.again]
    OBVIOUS
  <2>2. /\ y \in ClientRecord /\ y.pc = "idle" /\ y.stage = x.stage /\ y.value = x.value
        /\ y.attempt = x.attempt /\ y.result = x.result
    BY <1>3, <2>1 DEF ClientRecord, Pcs
  <2>3. clients' = [clients EXCEPT ![c] = y] /\ Reads(c)
    BY <1>1, <1>2, <1>5, <2>1 DEF Restage
  <2> QED
    BY <1>1, <2>2, <2>3, AgainTurn
<1> QED
  BY <1>4, <1>5

LEMMA ResolveLostUpdateTurn ==
    ASSUME PostgresInv, NEW c \in Clients, ResolveLostUpdate(c), jobs' = jobs
    PROVE  Turn(c)
<1>1. PICK x : x = clients[c]
  OBVIOUS
<1>2. /\ x \in ClientRecord /\ InPlace(c, x) /\ x.pc = "lost" /\ x.stage \in Transitions /\ Runs(c)
      /\ Key(c) \in Keys /\ Reads(c)
  BY <1>1, Situation DEF ResolveLostUpdate, At, Stage, InPlace, Transitions
<1>3. CASE End(c, "refused")
  BY <1>2, <1>3, RefusedTurn DEF Reads
<1>4. CASE Reissue(c)
  BY <1>2, <1>4, ReissueTurn
<1>5. CASE Landed(c) /\ clients' = [clients EXCEPT ![c] = Proceed(c)]
  <2>1. PICK y : y = Proceed(c)
    OBVIOUS
  <2>2. /\ y \in ClientRecord /\ InPlace(c, y) /\ y.pc \in Resting /\ y.value = x.value
        /\ y.attempt = x.attempt
        /\ y.result \in {x.result, x.stage}
        /\ y.result # x.result => y.pc = "done"
        /\ x.stage = "executing" => y.result = x.result
    BY <1>1, <1>2, <2>1, ProceedShape DEF Stage, Transitions
  <2>3. effects'[Key(c)].state = x.stage
    BY <1>1, <1>2, <1>5 DEF Landed, Reads, vars, Stage
  <2>4. Told(c, x, y)
    BY <1>2, <2>2, <2>3 DEF Told
  <2> QED
    BY <1>1, <1>2, <1>5, <2>1, <2>2, <2>4, ToldTurn
<1> QED
  BY <1>3, <1>4, <1>5 DEF ResolveLostUpdate

LEMMA RaiseAmbiguousWriteTurn ==
    ASSUME PostgresInv, NEW c \in Clients, RaiseAmbiguousWrite(c), jobs' = jobs
    PROVE  Turn(c)
  BY RefusedTurn DEF RaiseAmbiguousWrite, Reads

LEMMA ExecutorEndsTurn ==
    ASSUME PostgresInv, NEW c \in Clients, NEW stage \in Resolutions \cup {"ambiguous", "hold"},
           ExecutorEnds(c, stage), jobs' = jobs
    PROVE  Turn(c)
<1>1. PICK x \in ClientRecord : x = clients[c]
  BY Situation
<1>2. InPlace(c, x) /\ x.pc = "run" /\ Runs(c)
  BY <1>1, Situation DEF ExecutorEnds, At, InPlace
<1>3. PICK f : f = Forget(x)
  OBVIOUS
<1>4. /\ f \in ClientRecord /\ f.value = x.value /\ f.attempt = x.attempt /\ f.result = x.result
  BY <1>3, ForgetShape
<1>5. PICK y : y = [f EXCEPT !.stage = stage, !.pc = IF stage = "run" THEN "run" ELSE "idle"]
  OBVIOUS
<1>6. /\ y \in ClientRecord /\ y.pc = "idle" /\ y.stage = stage /\ y.value = x.value
      /\ y.attempt = x.attempt /\ y.result = x.result /\ stage # "once"
  BY <1>4, <1>5 DEF ClientRecord, Pcs, Stages, Resolutions
<1>7. InPlace(c, y)
  BY <1>2, <1>6 DEF InPlace
<1>8. Knows(c, y)
  BY <1>6, <1>7, Rests DEF Resting
<1>9. clients' = [clients EXCEPT ![c] = y] /\ Reads(c)
  BY <1>1, <1>3, <1>5 DEF ExecutorEnds, Enter
<1> QED
  BY <1>1, <1>6, <1>8, <1>9, MoveTurn

LEMMA ReadForHoldTurn ==
    ASSUME PostgresInv, NEW c \in Clients, ReadForHold(c), jobs' = jobs
    PROVE  Turn(c)
<1>1. PICK x : x = clients[c]
  OBVIOUS
<1>2. /\ x \in ClientRecord /\ InPlace(c, x) /\ x.pc = "idle" /\ x.stage = "hold" /\ Runs(c)
      /\ Key(c) \in Keys /\ effects[Key(c)] \in EffectRecord /\ Agrees(effects[Key(c)])
      /\ clients \in [Clients -> ClientRecord] /\ now \in Nat
      /\ Does(c) \notin {"resolve", "take", "grant", "deny", "nothing"}
  BY <1>1, Situation DEF ReadForHold, At, Stage, InPlace
<1>3. CASE Refused(c)
  BY <1>3, RefusedIsTurn
<1>4. CASE ~Refused(c)
  <2>1. PICK y : y = [x EXCEPT !.pc = "write", !.at = now, !.record = effects[Key(c)]]
    OBVIOUS
  <2>2. /\ y \in ClientRecord /\ y.pc = "write" /\ y.stage = "hold" /\ y.record = effects[Key(c)]
        /\ y.attempt = x.attempt /\ y.result = x.result /\ y.value = x.value /\ y.at = now
    BY <1>2, <2>1 DEF ClientRecord, Pcs
  <2>3. InPlace(c, y)
    BY <1>2, <2>2 DEF InPlace
  <2>4. HeldIn(y.record, Action(c), {"executing"})
    BY <1>4, <2>2 DEF ReadForHold, Extendable, HeldIn
  <2>5. Knows(c, y)
    BY <1>2, <2>2, <2>3, <2>4 DEF Knows, KnowsReservation, KnowsRecord, KnowsRequest, Transitions
  <2>6. clients' = [clients EXCEPT ![c] = y] /\ Reads(c)
    BY <1>1, <1>2, <1>4, <2>1 DEF ReadForHold
  <2> QED
    BY <1>1, <2>2, <2>5, <2>6, MoveTurn
<1> QED
  BY <1>3, <1>4

LEMMA WriteHoldTurn ==
    ASSUME PostgresInv, NEW c \in Clients, WriteHold(c), jobs' = jobs
    PROVE  Turn(c)
<1>1. PICK x : x = clients[c]
  OBVIOUS
<1>2. /\ x \in ClientRecord /\ InPlace(c, x) /\ x.pc = "write" /\ x.stage = "hold" /\ Runs(c)
      /\ Key(c) \in Keys /\ effects[Key(c)] \in EffectRecord /\ Agrees(effects[Key(c)])
      /\ now \in Nat /\ Knows(c, x)
      /\ Does(c) \notin {"resolve", "take", "grant", "deny", "nothing"}
  BY <1>1, Situation DEF WriteHold, At, Stage, InPlace
<1>3. CASE Refused(c)
  BY <1>3, RefusedIsTurn
<1>4. CASE ~Refused(c)
  <2>1. PICK t : t = x.at
    OBVIOUS
  <2>2. PICK tok \in Tokens :
           /\ \A k \in Keys \ {Key(c)} : continuations[k].token # tok
           /\ \A d \in Clients : clients[d].value # tok /\ doubt[d].value # tok
           /\ Commit(c, [NoTx EXCEPT !.key = Key(c),
                            !.record = [x.record EXCEPT !.lease = t + SuspendTimeout],
                            !.cont = Key(c), !.value = tok], Proceed(c))
    BY <1>1, <1>4, <2>1 DEF WriteHold
  <2>3. PICK tx : tx = [NoTx EXCEPT !.key = Key(c),
                            !.record = [x.record EXCEPT !.lease = t + SuspendTimeout],
                            !.cont = Key(c), !.value = tok]
    OBVIOUS
  <2>4. PICK y : y = Proceed(c)
    OBVIOUS
  <2>5. /\ t \in Nat /\ t <= now /\ x.record.state = "executing" /\ x.record \in EffectRecord
        /\ Agrees(x.record)
    BY <1>2, <2>1 DEF Knows, KnowsRecord, ClientRecord, HeldIn
  <2>6. Unmoved(c)
    BY <1>4 DEF WriteHold
  <2>7. /\ effects[Key(c)].state = "executing"
        /\ \A u : [x.record EXCEPT !.lease = u] = [effects[Key(c)] EXCEPT !.lease = u]
    BY <1>1, <1>2, <2>5, <2>6, SameRecord DEF Unmoved, Unfinished
  <2>a. PICK until : until = t + SuspendTimeout
    OBVIOUS
  <2>b. [x.record EXCEPT !.lease = until] = [effects[Key(c)] EXCEPT !.lease = until]
    BY <2>7
  <2>c. Holding(c, tx, t, tok)
    BY <1>2, <2>3, <2>7, <2>a, <2>b DEF Holding
  <2>8. Holding(c, tx, t, tok) /\ t \in 0..now
    BY <1>2, <2>5, <2>c
  <2>9. /\ tx.key = Key(c) /\ tx.id = NoApproval /\ tx.cont = Key(c) /\ tx.value = tok
    BY <2>3 DEF NoTx
  <2>10. Committable(c, tx)
    <3>1. Lawful(c, tx)
      BY <2>8 DEF Lawful
    <3>2. Fresh(tx)
      BY <2>2, <2>9 DEF Fresh
    <3>3. \A d \in Clients : Clear(d, tx)
      BY <2>9 DEF Clear, WriteHold, KeyFree, ContinuationFree
    <3> QED
      BY <3>1, <3>2, <3>3 DEF Committable
  <2>11. /\ y \in ClientRecord /\ InPlace(c, y) /\ y.pc \in Resting /\ y.value = x.value
         /\ y.attempt = x.attempt /\ y.result \in {x.result, "hold"}
         /\ y.result # x.result => y.pc = "done"
    BY <1>1, <1>2, <2>4, ProceedShape DEF Stage
  <2>12. Told(c, x, y) /\ TakesWhatItRead(c, tx, x, y)
    BY <1>2, <2>11 DEF Told, TakesWhatItRead, Resolutions
  <2> QED
    BY <1>1, <2>2, <2>3, <2>4, <2>10, <2>11, <2>12, CommitTurn
<1> QED
  BY <1>3, <1>4

LEMMA ReadContinuationTurn ==
    ASSUME PostgresInv, NEW c \in Clients, ReadContinuation(c), jobs' = jobs
    PROVE  Turn(c)
<1>1. PICK x : x = clients[c]
  OBVIOUS
<1>2. /\ x \in ClientRecord /\ InPlace(c, x) /\ x.pc = "idle" /\ Does(c) = "take" /\ ~Runs(c)
      /\ Key(c) \in Keys /\ continuations[Key(c)] \in Continuation
      /\ clients \in [Clients -> ClientRecord]
  BY <1>1, Situation DEF ReadContinuation, At, Runs, PostgresInv, PostgresTypeOK, TypeOK
<1>3. CASE Refused(c)
  BY <1>3, RefusedIsTurn
<1>4. CASE ~Refused(c)
  <2>1. PICK tok : tok = continuations[Key(c)].token
    OBVIOUS
  <2>2. PICK y : y = [x EXCEPT !.pc = "write", !.value = tok]
    OBVIOUS
  <2>3. tok \in Tokens
    BY <1>2, <1>4, <2>1 DEF ReadContinuation, Continuation
  <2>4. /\ y \in ClientRecord /\ y.pc = "write" /\ y.stage = x.stage
        /\ y.attempt = x.attempt /\ y.result = x.result /\ y.value = tok
    BY <1>2, <2>2, <2>3 DEF ClientRecord, Pcs
  <2>5. InPlace(c, y) /\ y.stage = "once"
    BY <1>2, <2>4 DEF InPlace
  <2>6. Knows(c, y)
    BY <1>2, <2>3, <2>4, <2>5, Nulls DEF Knows, KnowsReservation, KnowsRecord, KnowsRequest, Transitions
  <2>7. clients' = [clients EXCEPT ![c] = y] /\ Reads(c)
    BY <1>1, <1>2, <1>4, <2>1, <2>2 DEF ReadContinuation
  <2> QED
    BY <1>1, <2>4, <2>6, <2>7, ReadTurn DEF Reads
<1> QED
  BY <1>3, <1>4

LEMMA WriteTakeTurn ==
    ASSUME PostgresInv, NEW c \in Clients, WriteTake(c), jobs' = jobs
    PROVE  Turn(c)
<1>1. PICK x : x = clients[c]
  OBVIOUS
<1>2. /\ x \in ClientRecord /\ InPlace(c, x) /\ x.pc = "write" /\ Does(c) = "take" /\ ~Runs(c)
      /\ Key(c) \in Keys /\ Knows(c, x) /\ x.stage = "once" /\ x.value # NoToken
  BY <1>1, Situation DEF WriteTake, At, Runs, InPlace, Knows, KnowsRecord
<1>3. CASE Refused(c)
  BY <1>3, RefusedIsTurn
<1>4. CASE ~Refused(c)
  <2>1. PICK tx : tx = [NoTx EXCEPT !.cont = Key(c)]
    OBVIOUS
  <2>2. PICK y : y = Proceed(c)
    OBVIOUS
  <2>3. Commit(c, tx, y) /\ continuations[Key(c)].token = x.value
    BY <1>1, <1>4, <2>1, <2>2 DEF WriteTake
  <2>4. Taking(c, tx)
    BY <1>2, <2>1 DEF Taking
  <2>5. tx.key = NoKey /\ tx.id = NoApproval /\ tx.cont = Key(c) /\ tx.value = NoToken
    BY <2>1 DEF NoTx
  <2>6. Committable(c, tx)
    BY <2>4, <2>5 DEF Committable, Lawful, Fresh, Clear, WriteTake, ContinuationFree
  <2>7. /\ y \in ClientRecord /\ InPlace(c, y) /\ y.pc \in Resting /\ y.value = x.value
        /\ y.attempt = x.attempt /\ y.result \in {x.result, "once"}
        /\ y.result # x.result => y.pc = "done"
    BY <1>1, <1>2, <2>2, ProceedShape DEF Stage
  <2>8. Told(c, x, y) /\ TakesWhatItRead(c, tx, x, y)
    BY <1>2, <2>3, <2>5, <2>7 DEF Told, TakesWhatItRead, Resolutions
  <2> QED
    BY <1>1, <2>3, <2>6, <2>7, <2>8, CommitTurn
<1> QED
  BY <1>3, <1>4

LEMMA ReadForAnswerTurn ==
    ASSUME PostgresInv, NEW c \in Clients, ReadForAnswer(c), jobs' = jobs
    PROVE  Turn(c)
<1>1. PICK x : x = clients[c]
  OBVIOUS
<1>2. PICK q : q = approvals[Request(c)]
  OBVIOUS
<1>3. /\ x \in ClientRecord /\ InPlace(c, x) /\ x.pc = "idle" /\ Does(c) \in {"grant", "deny"}
      /\ ~Runs(c) /\ Request(c) \in Approvals /\ q \in ApprovalRecord /\ now \in Nat
      /\ clients \in [Clients -> ClientRecord]
  BY <1>1, <1>2, Situation DEF ReadForAnswer, At, Runs
<1>4. CASE Refused(c)
  BY <1>4, RefusedIsTurn
<1>5. CASE ~Refused(c)
  <2>1. PICK pc \in {"write", "expire"} : pc = IF Answerable(Request(c), now) THEN "write" ELSE "expire"
    OBVIOUS
  <2>2. PICK y : y = [x EXCEPT !.pc = pc, !.request = q]
    OBVIOUS
  <2>3. /\ q.status = "pending" /\ q.expires \in Nat
        /\ pc = "expire" => now > q.expires
    BY <1>2, <1>3, <1>5, <2>1 DEF ReadForAnswer, Answerable, ApprovalRecord
  <2>4. /\ y \in ClientRecord /\ y.pc = pc /\ y.stage = x.stage /\ y.request = q
        /\ y.attempt = x.attempt /\ y.result = x.result /\ y.value = x.value
    BY <1>3, <2>1, <2>2 DEF ClientRecord, Pcs
  <2>5. InPlace(c, y) /\ y.stage = "once"
    BY <1>3, <2>1, <2>4 DEF InPlace
  <2>6. Knows(c, y)
    BY <1>2, <1>3, <2>1, <2>3, <2>4, <2>5
    DEF Knows, KnowsReservation, KnowsRecord, KnowsRequest, Transitions, SameRequest
  <2>7. clients' = [clients EXCEPT ![c] = y] /\ Reads(c)
    BY <1>1, <1>2, <1>3, <1>5, <2>1, <2>2 DEF ReadForAnswer
  <2> QED
    BY <1>1, <2>1, <2>4, <2>6, <2>7, MoveTurn
<1> QED
  BY <1>4, <1>5

LEMMA WriteGrantTurn ==
    ASSUME PostgresInv, NEW c \in Clients, WriteGrant(c), jobs' = jobs
    PROVE  Turn(c)
<1>1. PICK x \in ClientRecord : x = clients[c]
  BY Situation
<1>2. PICK q : q = approvals[Request(c)]
  OBVIOUS
<1>3. /\ InPlace(c, x) /\ x.pc = "write" /\ Does(c) = "grant"
      /\ ~Runs(c) /\ Request(c) \in Approvals /\ q \in ApprovalRecord
      /\ Knows(c, x) /\ x.stage = "once"
  BY <1>1, <1>2, Situation DEF WriteGrant, At, Runs, InPlace
<1>4. CASE Refused(c)
  BY <1>4, RefusedIsTurn
<1>5. CASE ~Refused(c) /\ GrantStands(c)
  <2>1. /\ x.request.status = q.status /\ x.request.answers = q.answers /\ q.status = "pending"
        /\ x.request.hash = q.hash /\ x.request.expires = q.expires /\ x.request.needed = q.needed
        /\ x.request \in ApprovalRecord
    BY <1>1, <1>2, <1>3, <1>5 DEF GrantStands, Knows, KnowsRequest, SameRequest, ClientRecord
  <2>2. x.request = q
    <3>1. /\ q = [status |-> q.status, hash |-> q.hash, expires |-> q.expires, needed |-> q.needed,
                 answers |-> q.answers]
          /\ x.request = [status |-> x.request.status, hash |-> x.request.hash,
                 expires |-> x.request.expires, needed |-> x.request.needed,
                 answers |-> x.request.answers]
      BY <1>3, <2>1 DEF ApprovalRecord
    <3> QED
      BY <2>1, <3>1
  <2>3. PICK tx : tx = Answered(c, IF Reached(x.request, jobs[c].who) THEN "granted" ELSE "pending")
    OBVIOUS
  <2>4. PICK y : y = Proceed(c)
    OBVIOUS
  <2>5. Commit(c, tx, y)
    BY <1>1, <1>5, <2>3, <2>4 DEF WriteGrant
  <2>6. tx = [NoTx EXCEPT !.id = Request(c),
               !.request = [q EXCEPT !.answers = AnswersWith(q, jobs[c].who),
                   !.status = IF Reached(q, jobs[c].who) THEN "granted" ELSE "pending"]]
    BY <1>1, <2>2, <2>3 DEF Answered
  <2>7. Granting(c, tx)
    BY <1>2, <1>3, <2>1, <2>6 DEF Granting
  <2>8. tx.key = NoKey /\ tx.id = Request(c) /\ tx.cont = NoKey /\ tx.value = NoToken
    BY <2>6 DEF NoTx
  <2>9. Committable(c, tx)
    BY <2>7, <2>8 DEF Committable, Lawful, Fresh, Clear, WriteGrant, RequestFree
  <2>10. /\ y \in ClientRecord /\ InPlace(c, y) /\ y.pc \in Resting /\ y.value = x.value
         /\ y.attempt = x.attempt /\ y.result \in {x.result, "once"}
         /\ y.result # x.result => y.pc = "done"
    BY <1>1, <1>3, <2>4, ProceedShape DEF Stage
  <2>11. Told(c, x, y) /\ TakesWhatItRead(c, tx, x, y)
    BY <1>3, <2>10 DEF Told, TakesWhatItRead, Resolutions
  <2> QED
    BY <1>1, <2>5, <2>9, <2>10, <2>11, CommitTurn
<1>6. CASE ~Refused(c) /\ ~GrantStands(c)
  <2>1. PICK f : f = Forget(x)
    OBVIOUS
  <2>2. /\ f \in ClientRecord /\ f.stage = x.stage /\ f.value = x.value /\ f.attempt = x.attempt
        /\ f.result = x.result
    BY <2>1, ForgetShape
  <2>3. PICK n \in Nat : n = x.tries + 1
    BY DEF ClientRecord
  <2>4. PICK y : y = [f EXCEPT !.pc = "idle", !.tries = n]
    OBVIOUS
  <2>5. /\ y \in ClientRecord /\ y.pc = "idle" /\ y.stage = x.stage /\ y.value = x.value
        /\ y.attempt = x.attempt /\ y.result = x.result
    BY <2>2, <2>4 DEF ClientRecord, Pcs
  <2>6. clients' = [clients EXCEPT ![c] = y] /\ Reads(c)
    BY <1>1, <1>6, <2>1, <2>3, <2>4 DEF WriteGrant
  <2> QED
    BY <1>1, <2>5, <2>6, AgainTurn
<1> QED
  BY <1>4, <1>5, <1>6

LEMMA WriteDenialTurn ==
    ASSUME PostgresInv, NEW c \in Clients, WriteDenial(c), jobs' = jobs
    PROVE  Turn(c)
<1>1. PICK x \in ClientRecord : x = clients[c]
  BY Situation
<1>2. PICK q : q = approvals[Request(c)]
  OBVIOUS
<1>3. /\ InPlace(c, x) /\ x.pc = "write" /\ Does(c) = "deny"
      /\ ~Runs(c) /\ Request(c) \in Approvals /\ q \in ApprovalRecord
      /\ jobs[c].who \in Principals \cup {Nobody}
      /\ Knows(c, x) /\ x.stage = "once"
  BY <1>1, <1>2, Situation DEF WriteDenial, At, Runs, InPlace
<1>4. CASE Refused(c)
  BY <1>4, RefusedIsTurn
<1>5. CASE ~Refused(c)
  <2>1. /\ x.request.status = q.status /\ q.status = "pending"
        /\ x.request.hash = q.hash /\ x.request.expires = q.expires /\ x.request.needed = q.needed
        /\ x.request \in ApprovalRecord
    BY <1>1, <1>2, <1>3, <1>5 DEF WriteDenial, Knows, KnowsRequest, SameRequest, ClientRecord
  <2>2. PICK answers : answers = AnswersWith(x.request, jobs[c].who)
    OBVIOUS
  <2>3. answers \in SUBSET Principals
    BY <1>3, <2>1, <2>2 DEF AnswersWith, ApprovalRecord
  <2>4. [x.request EXCEPT !.answers = answers, !.status = "denied"]
            = [q EXCEPT !.answers = answers, !.status = "denied"]
    BY <1>3, <2>1 DEF ApprovalRecord
  <2>5. PICK tx : tx = Answered(c, "denied")
    OBVIOUS
  <2>6. PICK y : y = Proceed(c)
    OBVIOUS
  <2>7. Commit(c, tx, y)
    BY <1>5, <2>5, <2>6 DEF WriteDenial
  <2>8. tx = [NoTx EXCEPT !.id = Request(c),
               !.request = [q EXCEPT !.answers = answers, !.status = "denied"]]
    BY <1>1, <2>2, <2>4, <2>5 DEF Answered
  <2>9. Denying(c, tx, answers)
    BY <1>2, <1>3, <2>1, <2>8 DEF Denying
  <2>10. tx.key = NoKey /\ tx.id = Request(c) /\ tx.cont = NoKey /\ tx.value = NoToken
    BY <2>8 DEF NoTx
  <2>11. Committable(c, tx)
    BY <2>3, <2>9, <2>10 DEF Committable, Lawful, Fresh, Clear, WriteDenial, RequestFree
  <2>12. /\ y \in ClientRecord /\ InPlace(c, y) /\ y.pc \in Resting /\ y.value = x.value
         /\ y.attempt = x.attempt /\ y.result \in {x.result, "once"}
         /\ y.result # x.result => y.pc = "done"
    BY <1>1, <1>3, <2>6, ProceedShape DEF Stage
  <2>13. Told(c, x, y) /\ TakesWhatItRead(c, tx, x, y)
    BY <1>3, <2>12 DEF Told, TakesWhatItRead, Resolutions
  <2> QED
    BY <1>1, <2>7, <2>11, <2>12, <2>13, CommitTurn
<1> QED
  BY <1>4, <1>5

LEMMA ReadForResolutionTurn ==
    ASSUME PostgresInv, NEW c \in Clients, ReadForResolution(c), jobs' = jobs
    PROVE  Turn(c)
<1>1. PICK x : x = clients[c]
  OBVIOUS
<1>2. /\ x \in ClientRecord /\ InPlace(c, x) /\ x.pc = "idle" /\ Does(c) = "resolve" /\ ~Runs(c)
      /\ Key(c) \in Keys /\ effects[Key(c)] \in EffectRecord /\ Agrees(effects[Key(c)])
      /\ clients \in [Clients -> ClientRecord]
  BY <1>1, Situation DEF ReadForResolution, At, Runs
<1>3. CASE Refused(c)
  BY <1>3, RefusedIsTurn
<1>4. CASE ~Refused(c)
  <2>1. PICK y : y = [x EXCEPT !.pc = "write", !.record = effects[Key(c)]]
    OBVIOUS
  <2>2. /\ y \in ClientRecord /\ y.pc = "write" /\ y.stage = x.stage /\ y.record = effects[Key(c)]
        /\ y.attempt = x.attempt /\ y.result = x.result /\ y.value = x.value
    BY <1>2, <2>1 DEF ClientRecord, Pcs
  <2>3. InPlace(c, y) /\ y.stage = "once"
    BY <1>2, <2>2 DEF InPlace
  <2>4. Knows(c, y)
    BY <1>2, <1>4, <2>2, <2>3
    DEF Knows, KnowsReservation, KnowsRecord, KnowsRequest, Transitions, ReadForResolution
  <2>5. clients' = [clients EXCEPT ![c] = y] /\ Reads(c)
    BY <1>1, <1>2, <1>4, <2>1 DEF ReadForResolution
  <2> QED
    BY <1>1, <2>2, <2>4, <2>5, MoveTurn
<1> QED
  BY <1>3, <1>4

LEMMA WriteResolutionTurn ==
    ASSUME PostgresInv, NEW c \in Clients, WriteResolution(c), jobs' = jobs
    PROVE  Turn(c)
<1>1. PICK x \in ClientRecord : x = clients[c]
  BY Situation
<1>2. /\ InPlace(c, x) /\ x.pc = "write" /\ Does(c) = "resolve" /\ ~Runs(c)
      /\ Key(c) \in Keys /\ effects[Key(c)] \in EffectRecord /\ Agrees(effects[Key(c)])
      /\ Knows(c, x) /\ x.stage = "once"
  BY <1>1, Situation DEF WriteResolution, At, Runs, InPlace
<1>3. CASE Refused(c)
  BY <1>3, RefusedIsTurn
<1>4. CASE ~Refused(c)
  <2>1. PICK s \in Resolutions :
           Commit(c, [NoTx EXCEPT !.key = Key(c),
                         !.record = [Transitioned(x.record, s) EXCEPT !.resolvedBy = "human"],
                         !.release = s = "failed"], Proceed(c))
    BY <1>1, <1>4 DEF WriteResolution
  <2>2. x.record.state = "ambiguous" /\ Agrees(x.record) /\ x.record \in EffectRecord
    BY <1>2 DEF Knows, KnowsRecord, ClientRecord
  <2>3. x.record = effects[Key(c)]
    BY <1>1, <1>2, <1>4, <2>2, SameRecord DEF WriteResolution, Unmoved
  <2>4. PICK tx : tx = [NoTx EXCEPT !.key = Key(c),
                         !.record = [Transitioned(x.record, s) EXCEPT !.resolvedBy = "human"],
                         !.release = s = "failed"]
    OBVIOUS
  <2>5. PICK y : y = Proceed(c)
    OBVIOUS
  <2>6. tx.key = Key(c) /\ tx.id = NoApproval /\ tx.cont = NoKey /\ tx.value = NoToken
    BY <2>4 DEF NoTx
  <2>7. PICK r : r = effects[Key(c)]
    OBVIOUS
  <2>8. tx = [NoTx EXCEPT !.key = Key(c), !.release = s = "failed",
                !.record = [Transitioned(r, s) EXCEPT !.resolvedBy = "human"]]
    <3>1. PICK n \in Transaction : n = NoTx
      BY NoTxType
    <3>2. PICK new, b : new = [Transitioned(r, s) EXCEPT !.resolvedBy = "human"] /\ b = (s = "failed")
      OBVIOUS
    <3>3. [n EXCEPT !.key = Key(c), !.record = new, !.release = b]
        = [n EXCEPT !.key = Key(c), !.release = b, !.record = new]
      BY DEF Transaction
    <3> QED
      BY <2>3, <2>4, <2>7, <3>1, <3>2, <3>3
  <2>9. Resolving(c, tx, s)
    BY <1>2, <2>2, <2>3, <2>7, <2>8 DEF Resolving
  <2>10. Committable(c, tx)
    BY <2>6, <2>9 DEF Committable, Lawful, Fresh, Clear, WriteResolution, KeyFree
  <2>11. /\ y \in ClientRecord /\ InPlace(c, y) /\ y.pc \in Resting /\ y.value = x.value
         /\ y.attempt = x.attempt /\ y.result \in {x.result, "once"}
         /\ y.result # x.result => y.pc = "done"
    BY <1>1, <1>2, <2>5, ProceedShape DEF Stage
  <2>12. Told(c, x, y) /\ TakesWhatItRead(c, tx, x, y)
    BY <1>2, <2>11 DEF Told, TakesWhatItRead, Resolutions
  <2> QED
    BY <1>1, <2>1, <2>4, <2>5, <2>10, <2>11, <2>12, CommitTurn
<1> QED
  BY <1>3, <1>4

LEMMA ClientTurns ==
    ASSUME PostgresInv, NEW c \in Clients, ClientStep(c) \/ Breaks(c)
    PROVE  Turn(c)
<1>1. jobs' = jobs
  BY DEF ClientStep, Breaks
<1>2. CASE Breaks(c) \/ NotConsumable(c)
  BY <1>1, <1>2, RefusedIsTurn DEF Breaks, NotConsumable
<1>3. CASE RunStep(c)
  <2>1. CASE OpenReservation(c) \/ PlanReservation(c) \/ Ambiguate(c) \/ Price(c) \/ WriteReservation(c)
    BY <1>1, <2>1, OpenReservationTurn, PlanReservationTurn, AmbiguateTurn, PriceTurn,
       WriteReservationTurn
  <2>2. CASE ResolveLostReservation(c) \/ ReadForTransition(c) \/ WriteTransition(c) \/ Restage(c)
    BY <1>1, <2>2, ResolveLostReservationTurn, ReadForTransitionTurn, WriteTransitionTurn, RestageTurn
  <2>3. CASE ResolveLostUpdate(c) \/ ReadForHold(c) \/ WriteHold(c)
    BY <1>1, <2>3, ResolveLostUpdateTurn, ReadForHoldTurn, WriteHoldTurn
  <2>4. CASE \E stage \in Resolutions \cup {"ambiguous", "hold"} : ExecutorEnds(c, stage)
    BY <1>1, <2>4, ExecutorEndsTurn
  <2> QED
    BY <1>2, <1>3, <2>1, <2>2, <2>3, <2>4 DEF RunStep
<1>4. CASE OtherStep(c)
  <2>1. CASE Expire(c) \/ RaiseAmbiguousWrite(c) \/ ReadContinuation(c) \/ WriteTake(c)
    BY <1>1, <2>1, ExpireTurn, RaiseAmbiguousWriteTurn, ReadContinuationTurn, WriteTakeTurn
  <2>2. CASE ReadForAnswer(c) \/ WriteGrant(c) \/ WriteDenial(c)
    BY <1>1, <2>2, ReadForAnswerTurn, WriteGrantTurn, WriteDenialTurn
  <2>3. CASE ReadForResolution(c) \/ WriteResolution(c)
    BY <1>1, <2>3, ReadForResolutionTurn, WriteResolutionTurn
  <2> QED
    BY <1>4, <2>1, <2>2, <2>3 DEF OtherStep
<1> QED
  BY <1>2, <1>3, <1>4 DEF ClientStep

-----------------------------------------------------------------------------
(* The invariant is kept *)

(* An operation that has ended takes no step. *)
LEMMA StillAtWork ==
    ASSUME NEW c \in Clients, ClientStep(c) \/ Breaks(c)
    PROVE  clients[c].pc \notin Ended
<1>1. CASE Breaks(c)
  BY <1>1 DEF Breaks, Ended
<1>2. CASE RunStep(c)
  BY <1>2 DEF RunStep, At, Ended, OpenReservation, NotConsumable, PlanReservation, Ambiguate, Price,
      WriteReservation, ResolveLostReservation, ReadForTransition, WriteTransition, Restage,
      ResolveLostUpdate, ExecutorEnds, ReadForHold, WriteHold
<1>3. CASE OtherStep(c)
  BY <1>3 DEF OtherStep, At, Ended, Expire, RaiseAmbiguousWrite, ReadContinuation, WriteTake,
      ReadForAnswer, WriteGrant, WriteDenial, ReadForResolution, WriteResolution
<1> QED
  BY <1>1, <1>2, <1>3 DEF ClientStep

(* A client locks an anchor for itself, or gives its own back. *)
AnchorsMove(c) ==
    \/ anchors' = anchors
    \/ anchors' = [l \in Lines |-> anchors[l] \ {c}]
    \/ LockNextAnchor(c)

(* By a step of its own it gives back nothing that a transaction in doubt needs. *)
AnchorsKept(c) ==
    \/ anchors' = anchors
    \/ doubt[c] = NoTx /\ anchors' = [l \in Lines |-> anchors[l] \ {c}]
    \/ LockNextAnchor(c)

LEMMA AnchorsMoved ==
    ASSUME NEW c \in Clients, ClientStep(c) \/ Breaks(c)
    PROVE  AnchorsKept(c)
<1>1. Unlock(c) => AnchorsKept(c)
  BY DEF Unlock, AnchorsKept
<1>2. Reads(c) => AnchorsKept(c)
  BY DEF Reads, AnchorsKept
<1>3. Refused(c) => AnchorsKept(c)
  BY <1>1 DEF Refused
<1>4. \A tx, next : Commit(c, tx, next) => AnchorsKept(c)
  BY <1>1 DEF Commit, AnchorsKept
<1>5. CASE Breaks(c)
  BY <1>3, <1>5 DEF Breaks
<1>6. CASE RunStep(c)
  BY <1>2, <1>3, <1>4, <1>6 DEF RunStep, Misses, OpenReservation, NotConsumable, PlanReservation,
      Ambiguate, WriteReservation, ResolveLostReservation, ReadForTransition, WriteTransition,
      Restage, ResolveLostUpdate, ExecutorEnds, ReadForHold, WriteHold, Price, AnchorsKept
<1>7. CASE OtherStep(c)
  BY <1>2, <1>3, <1>4, <1>7 DEF OtherStep, Expire, RaiseAmbiguousWrite, ReadContinuation, WriteTake,
      ReadForAnswer, WriteGrant, WriteDenial, ReadForResolution, WriteResolution
<1> QED
  BY <1>5, <1>6, <1>7 DEF ClientStep

LEMMA AnchorsTyped ==
    ASSUME anchors \in [Lines -> SUBSET Clients], NEW c \in Clients, AnchorsMove(c)
    PROVE  anchors' \in [Lines -> SUBSET Clients]
  BY DEF AnchorsMove, LockNextAnchor, Unlocked, ChargedLines

(* What one step of the system is. *)
Deciding(c) ==
    /\ doubt[c] # NoTx /\ doubt' = [doubt EXCEPT ![c] = NoTx]
    /\ Lands(doubt[c]) \/ UNCHANGED <<vars, stamps>>
    /\ UNCHANGED <<jobs, clients>>

Putting ==
    /\ \E id \in Approvals, h \in Hashes, n \in 1..MaxNeeded : PutApprovalRequest(id, h, n)
    /\ UNCHANGED <<jobs, clients, doubt, anchors, stamps>>

Waiting == (Tick \/ UNCHANGED vars) /\ UNCHANGED <<jobs, clients, doubt, anchors, stamps>>

LEMMA PostgresKinds ==
    ASSUME PostgresInv, [PostgresNext]_postgresVars
    PROVE  \/ \E c \in Clients : Turn(c) /\ AnchorsMove(c) /\ clients[c].pc \notin Ended
           \/ \E c \in Clients : Deciding(c) /\ AnchorsMove(c)
           \/ Putting
           \/ Waiting
<1>1. CASE \E c \in Clients : ClientStep(c) \/ Breaks(c)
  BY <1>1, ClientTurns, StillAtWork, AnchorsMoved DEF AnchorsKept, AnchorsMove
<1>2. CASE \E c \in Clients : Decide(c)
  BY <1>2 DEF Decide, Deciding, AnchorsMove
<1>3. CASE \E c \in Clients : Request(c) # NoApproval /\ PutRequest(Request(c))
  <2>1. PICK c \in Clients : Request(c) # NoApproval /\ PutRequest(Request(c))
    BY <1>3
  <2>2. PICK id : id = Request(c)
    OBVIOUS
  <2>3. id \in Approvals /\ PutRequest(id)
    BY <2>1, <2>2, Situation
  <2> QED
    BY <2>3 DEF PutRequest, Putting
<1>4. CASE Tick /\ UNCHANGED <<jobs, clients, doubt, anchors, stamps>>
  BY <1>4 DEF Waiting
<1>5. CASE UNCHANGED postgresVars
  BY <1>5 DEF Waiting, postgresVars
<1> QED
  BY <1>1, <1>2, <1>3, <1>4, <1>5 DEF PostgresNext

LEMMA DoubtStays ==
    ASSUME PostgresInv, NEW d \in Clients, NEW tx, tx = doubt[d], tx # NoTx, Untouched(tx)
    PROVE  Lawful(d, tx)'
  BY LawfulStays DEF PostgresInv, Doubtful

(* A transaction in doubt has locked no row that another one writes. *)
LEMMA LandsBeside ==
    ASSUME PostgresInv, NEW c \in Clients, NEW tx, Lawful(c, tx), Lands(tx), jobs' = jobs,
           NEW d \in Clients, Clear(d, tx), NEW other, other = doubt[d]
    PROVE  Untouched(other)
<1>1. /\ tx.key # NoKey => other.key # tx.key
      /\ tx.id # NoApproval => other.id # tx.id
  BY DEF Clear
<1>2. TypeOK /\ other \in Transaction
  BY DEF PostgresInv, PostgresTypeOK
<1>3. ASSUME other.key # NoKey PROVE effects'[other.key] = effects[other.key]
  BY <1>1, <1>2, <1>3 DEF Lands, TypeOK, Transaction
<1>4. ASSUME other.id # NoApproval PROVE approvals'[other.id] = approvals[other.id]
  BY <1>1, <1>2, <1>4 DEF Lands, TypeOK, Transaction
<1>5. now' = now /\ now \in Nat
  BY <1>2 DEF Lands, TypeOK
<1> QED
  BY <1>3, <1>4, <1>5 DEF Untouched

LEMMA StaysUntouched ==
    ASSUME UNCHANGED vars, jobs' = jobs, now \in Nat, NEW tx
    PROVE  Untouched(tx)
  BY DEF Untouched, vars

(* The transactions in doubt after a step: those from before it, and one more at most. *)
LEMMA DoubtfulStays ==
    ASSUME PostgresInv, jobs' = jobs, NEW c \in Clients, NEW tx,
           doubt' = doubt \/ doubt' = [doubt EXCEPT ![c] = tx],
           \A d \in Clients : \A other : other = doubt[d] /\ other # NoTx /\ doubt'[d] = other
               => Untouched(other),
           doubt' # doubt => tx = NoTx \/ (Lawful(c, tx)' /\ \A d \in Clients : Clear(d, tx))
    PROVE  Doubtful'
<1>1. Doubtful /\ doubt \in [Clients -> Transaction]
  BY DEF PostgresInv, PostgresTypeOK
<1>2. ASSUME NEW d \in Clients, NEW other, other = doubt'[d], other # NoTx PROVE Lawful(d, other)'
  <2>1. CASE other = doubt[d]
    BY <1>2, <2>1, DoubtStays
  <2>2. CASE other # doubt[d]
    <3>1. d = c /\ other = tx /\ doubt' # doubt
      BY <1>1, <1>2, <2>2
    <3> QED
      BY <1>2, <3>1
  <2> QED
    BY <2>1, <2>2
<1>3. ASSUME NEW d \in Clients, NEW e \in Clients \ {d}, NEW x, NEW y, x = doubt'[d], y = doubt'[e]
      PROVE  /\ x.key # NoKey => y.key # x.key
             /\ x.id # NoApproval => y.id # x.id
             /\ x.cont # NoKey => y.cont # x.cont
  <2>1. CASE x = doubt[d] /\ y = doubt[e]
    BY <1>1, <1>3, <2>1 DEF Doubtful, Clear
  <2>2. CASE x # doubt[d]
    <3>1. d = c /\ x = tx /\ doubt' # doubt /\ y = doubt[e]
      BY <1>1, <1>3, <2>2
    <3> QED
      BY <3>1 DEF Clear, NoTx
  <2>3. CASE y # doubt[e]
    <3>1. e = c /\ y = tx /\ doubt' # doubt /\ x = doubt[d]
      BY <1>1, <1>3, <2>3
    <3> QED
      BY <3>1 DEF Clear, NoTx
  <2> QED
    BY <2>1, <2>2, <2>3
<1> QED
  BY <1>2, <1>3 DEF Doubtful, Clear

(* Everybody else still knows what it knew. *)
LEMMA EverybodyKnows ==
    ASSUME PostgresInv, Onward, NEW c \in Clients, NEW y \in ClientRecord,
           clients' = [clients EXCEPT ![c] = y] \/ clients' = clients,
           clients' # clients => Knows(c, y)'
    PROVE  \A d \in Clients : Knows(d, clients[d])'
<1> SUFFICES ASSUME NEW d \in Clients PROVE Knows(d, clients[d])'
  OBVIOUS
<1>1. PICK x : x = clients'[d]
  OBVIOUS
<1>2. PostgresTypeOK /\ clients \in [Clients -> ClientRecord] /\ Knows(d, clients[d])
  BY DEF PostgresInv, PostgresTypeOK
<1>3. CASE x = clients[d]
  <2>1. x \in ClientRecord /\ Knows(d, x)
    BY <1>2, <1>3
  <2>2. Knows(d, x)'
    BY <1>2, <2>1, KnowsStays
  <2> QED
    BY <1>1, <2>2
<1>4. CASE x # clients[d]
  <2>1. d = c /\ x = y /\ clients' # clients
    BY <1>1, <1>2, <1>4
  <2> QED
    BY <1>1, <2>1
<1> QED
  BY <1>3, <1>4

LEMMA TurnKeeps ==
    ASSUME PostgresInv, NEW c \in Clients, Turn(c), AnchorsMove(c)
    PROVE  PostgresInv' /\ Onward
<1>1. PICK y \in ClientRecord :
        /\ clients' = [clients EXCEPT ![c] = y] /\ jobs' = jobs
        /\ Told(c, clients[c], y) /\ Knows(c, y)'
        /\ \/ ReadsOn(c, clients[c], y)
           \/ \E tx : Commits(c, tx, clients[c], y) \/ Loses(c, tx, clients[c], y)
  BY DEF Turn
<1>2. /\ PostgresTypeOK /\ RecordsAgree /\ Hashed /\ Doubtful /\ TypeOK /\ now \in Nat
      /\ clients \in [Clients -> ClientRecord] /\ doubt \in [Clients -> Transaction]
  BY DEF PostgresInv, PostgresTypeOK, TypeOK
<1>3. /\ anchors' \in [Lines -> SUBSET Clients] /\ jobs' \in [Clients -> Jobs]
      /\ clients' \in [Clients -> ClientRecord]
  BY <1>1, <1>2, AnchorsTyped DEF PostgresTypeOK
<1>4. ASSUME UNCHANGED <<vars, stamps>> PROVE /\ Onward /\ TypeOK' /\ RecordsAgree' /\ Hashed'
                                             /\ stamps' \in [Keys -> Stampings]
                                             /\ \A other : Untouched(other)
  <2>1. Onward
    BY <1>1, <1>2, <1>4 DEF Onward, vars, Current, SameRequest, TypeOK, EffectRecord
  <2>2. TypeOK' /\ RecordsAgree' /\ Hashed' /\ stamps' \in [Keys -> Stampings]
    BY <1>2, <1>4 DEF vars, TypeOK, RecordsAgree, Hashed, PostgresTypeOK
  <2>3. \A other : Untouched(other)
    BY <1>1, <1>2, <1>4 DEF Untouched, vars
  <2> QED
    BY <2>1, <2>2, <2>3
<1>5. CASE ReadsOn(c, clients[c], y)
  <2>1. UNCHANGED <<vars, stamps>> /\ doubt' = doubt
    BY <1>5 DEF ReadsOn
  <2>2. Doubtful'
    BY <1>1, <1>4, <2>1, DoubtfulStays
  <2>3. \A d \in Clients : Knows(d, clients[d])'
    BY <1>1, <1>4, <2>1, EverybodyKnows
  <2> QED
    BY <1>2, <1>3, <1>4, <2>1, <2>2, <2>3 DEF PostgresInv, PostgresTypeOK
<1>6. ASSUME NEW tx, Commits(c, tx, clients[c], y) PROVE PostgresInv' /\ Onward
  <2>1. Lawful(c, tx) /\ Lands(tx) /\ doubt' = doubt /\ \A d \in Clients : Clear(d, tx)
    BY <1>6 DEF Commits, Committable
  <2>2. TypeOK' /\ RecordsAgree' /\ stamps' \in [Keys -> Stampings]
    BY <1>2, <2>1, LandsTyped
  <2>3. Onward /\ Hashed'
    BY <1>1, <1>2, <2>1, LandsOnward
  <2>4. \A d \in Clients : \A other : other = doubt[d] => Untouched(other)
    BY <1>1, <2>1, LandsBeside
  <2>5. Doubtful'
    BY <1>1, <2>1, <2>4, DoubtfulStays
  <2>6. \A d \in Clients : Knows(d, clients[d])'
    BY <1>1, <2>3, EverybodyKnows
  <2> QED
    BY <1>2, <1>3, <2>1, <2>2, <2>3, <2>5, <2>6 DEF PostgresInv, PostgresTypeOK
<1>7. ASSUME NEW tx, Loses(c, tx, clients[c], y) PROVE PostgresInv' /\ Onward
  <2>1. /\ Lawful(c, tx) /\ UNCHANGED <<vars, stamps>> /\ doubt' = [doubt EXCEPT ![c] = tx]
        /\ \A d \in Clients : Clear(d, tx)
    BY <1>7 DEF Loses, Committable
  <2>2. Lawful(c, tx)'
    BY <1>2, <1>4, <2>1, LawfulStays
  <2>3. Doubtful'
    BY <1>1, <1>4, <2>1, <2>2, DoubtfulStays
  <2>4. \A d \in Clients : Knows(d, clients[d])'
    BY <1>1, <1>4, <2>1, EverybodyKnows
  <2>5. tx \in Transaction
    BY <1>2, <2>1, LawfulShape
  <2> QED
    BY <1>2, <1>3, <1>4, <2>1, <2>3, <2>4, <2>5 DEF PostgresInv, PostgresTypeOK
<1> QED
  BY <1>1, <1>5, <1>6, <1>7

LEMMA DecidingKeeps ==
    ASSUME PostgresInv, NEW c \in Clients, Deciding(c), AnchorsMove(c)
    PROVE  PostgresInv' /\ Onward
<1>1. PICK tx : tx = doubt[c]
  OBVIOUS
<1>2. /\ PostgresTypeOK /\ RecordsAgree /\ Hashed /\ Doubtful /\ TypeOK /\ now \in Nat
      /\ clients \in [Clients -> ClientRecord] /\ doubt \in [Clients -> Transaction]
      /\ tx # NoTx /\ Lawful(c, tx) /\ doubt' = [doubt EXCEPT ![c] = NoTx]
      /\ jobs' = jobs /\ clients' = clients
  BY <1>1 DEF PostgresInv, PostgresTypeOK, TypeOK, Doubtful, Deciding
<1>3. /\ anchors' \in [Lines -> SUBSET Clients] /\ jobs' \in [Clients -> Jobs]
      /\ clients' \in [Clients -> ClientRecord] /\ doubt' \in [Clients -> Transaction]
  BY <1>2, AnchorsTyped, NoTxType DEF PostgresTypeOK
<1>4. ASSUME Onward, TypeOK', RecordsAgree', Hashed', stamps' \in [Keys -> Stampings],
             \A d \in Clients : \A other : other = doubt[d] /\ other # NoTx /\ doubt'[d] = other
                 => Untouched(other)
      PROVE  PostgresInv'
  <2>1. Doubtful'
    <3>1. \A d \in Clients : Clear(d, NoTx)
      BY DEF Clear, NoTx
    <3> QED
      BY <1>2, <1>4, <3>1, DoubtfulStays
  <2>2. \A d \in Clients : Knows(d, clients[d])'
    <3>1. clients[c] \in ClientRecord
      BY <1>2
    <3> QED
      BY <1>2, <1>4, <3>1, EverybodyKnows
  <2> QED
    BY <1>3, <1>4, <2>1, <2>2 DEF PostgresInv, PostgresTypeOK
<1>5. CASE Lands(tx)
  <2>1. TypeOK' /\ RecordsAgree' /\ stamps' \in [Keys -> Stampings]
    BY <1>2, <1>5, LandsTyped
  <2>2. Onward /\ Hashed'
    BY <1>2, <1>5, LandsOnward
  <2>3. ASSUME NEW d \in Clients, NEW other, other = doubt[d], other # NoTx, doubt'[d] = other
        PROVE  Untouched(other)
    <3>1. d # c
      BY <1>2, <2>3
    <3>2. Clear(d, tx)
      BY <1>1, <1>2, <3>1 DEF Doubtful
    <3> QED
      BY <1>2, <1>5, <2>3, <3>2, LandsBeside
  <2> QED
    BY <1>4, <2>1, <2>2, <2>3
<1>6. CASE UNCHANGED <<vars, stamps>>
  <2>1. Onward
    BY <1>2, <1>6 DEF Onward, vars, Current, SameRequest, TypeOK, EffectRecord
  <2>2. TypeOK' /\ RecordsAgree' /\ Hashed' /\ stamps' \in [Keys -> Stampings]
    BY <1>2, <1>6 DEF vars, TypeOK, RecordsAgree, Hashed, PostgresTypeOK
  <2>3. \A other : Untouched(other)
    BY <1>2, <1>6 DEF Untouched, vars
  <2> QED
    BY <1>4, <2>1, <2>2, <2>3
<1> QED
  BY <1>1, <1>5, <1>6 DEF Deciding

(* Nobody's step: a request is put, or time passes. *)
LEMMA OutsideKeeps ==
    ASSUME PostgresInv, Putting \/ Waiting
    PROVE  PostgresInv' /\ Onward
<1>1. /\ PostgresTypeOK /\ RecordsAgree /\ Hashed /\ Doubtful /\ TypeOK /\ now \in Nat
      /\ clients \in [Clients -> ClientRecord] /\ doubt \in [Clients -> Transaction]
      /\ UNCHANGED <<jobs, clients, doubt, anchors, stamps>>
  BY DEF PostgresInv, PostgresTypeOK, TypeOK, Putting, Waiting
<1>2. ASSUME Onward, TypeOK', RecordsAgree', Hashed',
             \A d \in Clients : \A other : other = doubt[d] /\ other # NoTx => Untouched(other)
      PROVE  PostgresInv'
  <2>1. ASSUME NEW c \in Clients PROVE Doubtful'
    BY <1>1, <1>2, <2>1, DoubtfulStays
  <2>2. ASSUME NEW c \in Clients PROVE \A d \in Clients : Knows(d, clients[d])'
    <3>1. clients[c] \in ClientRecord
      BY <1>1
    <3> QED
      BY <1>1, <1>2, <3>1, EverybodyKnows
  <2>3. Doubtful' /\ \A d \in Clients : Knows(d, clients[d])'
    BY <2>1, <2>2 DEF Doubtful
  <2> QED
    BY <1>1, <1>2, <2>3 DEF PostgresInv, PostgresTypeOK
<1>3. CASE Putting
  <2>1. PICK id \in Approvals, h \in Hashes, n \in 1..MaxNeeded : PutApprovalRequest(id, h, n)
    BY <1>3 DEF Putting
  <2>2. /\ Onward /\ Hashed' /\ TypeOK'
        /\ \A x \in Approvals : x = id \/ approvals'[x] = approvals[x]
    BY <1>1, <2>1, PutOnward
  <2>3. RecordsAgree' /\ effects' = effects /\ now' = now /\ approvals[id].status = "absent"
    BY <1>1, <2>1 DEF PutApprovalRequest, RecordsAgree
  <2>4. ASSUME NEW d \in Clients, NEW other, other = doubt[d], other # NoTx PROVE Untouched(other)
    <3>1. Lawful(d, other) /\ other \in Transaction
      BY <1>1, <2>4 DEF Doubtful
    <3>2. RequestWrite(d, other)
      BY <1>1, <3>1, LawfulShape
    <3>3. other.id # id
      BY <2>1, <2>3, <3>2, Nulls DEF RequestWrite
    <3> QED
      BY <1>1, <2>2, <2>3, <3>1, <3>3 DEF Untouched, Transaction
  <2> QED
    BY <1>2, <2>2, <2>3, <2>4
<1>4. CASE Waiting
  <2>1. /\ UNCHANGED <<effects, approvals, ledger, continuations>> /\ now' \in Nat /\ now' >= now
    BY <1>1, <1>4 DEF Waiting, Tick, vars
  <2>2. Onward
    BY <1>1, <2>1 DEF Onward, Current, SameRequest, TypeOK, EffectRecord
  <2>3. TypeOK' /\ RecordsAgree' /\ Hashed'
    BY <1>1, <2>1 DEF TypeOK, RecordsAgree, Hashed
  <2>4. \A other : Untouched(other)
    BY <1>1, <2>1 DEF Untouched
  <2> QED
    BY <1>2, <2>2, <2>3, <2>4
<1> QED
  BY <1>3, <1>4

LEMMA PostgresInvStep ==
    ASSUME PostgresInv, [PostgresNext]_postgresVars
    PROVE  PostgresInv' /\ Onward
  BY PostgresKinds, TurnKeeps, DecidingKeeps, OutsideKeeps

LEMMA PostgresInvInit ==
    ASSUME PostgresInit
    PROVE  PostgresInv
<1>1. Init /\ TypeOK /\ RecordsAgree
  BY InitType, InitAgrees DEF PostgresInit
<1>2. jobs \in [Clients -> Jobs]
  BY PostgresConstants DEF PostgresInit
<1>3. NoRecord \in EffectRecord /\ NoRequest \in ApprovalRecord
  BY NoTxType DEF NoTx, Transaction
<1>4. clients \in [Clients -> ClientRecord]
  BY <1>3 DEF PostgresInit, ClientRecord, Pcs, Ended, Stages
<1>5. /\ doubt \in [Clients -> Transaction] /\ anchors \in [Lines -> SUBSET Clients]
      /\ stamps \in [Keys -> Stampings]
  BY NoTxType DEF PostgresInit, Stampings
<1>6. Hashed
  BY DEF PostgresInit, Init, Hashed, NoRequest
<1>7. Doubtful
  BY DEF PostgresInit, Doubtful, Clear, NoTx
<1>8. ASSUME NEW c \in Clients PROVE Knows(c, clients[c])
  <2>1. PICK x : x = clients[c]
    OBVIOUS
  <2>2. /\ x.pc = IF Does(c) = "nothing" THEN "done" ELSE "idle"
        /\ x.stage = IF Runs(c) THEN "reserve" ELSE "once"
        /\ x.attempt = 0 /\ x.result = "once"
    BY <2>1 DEF PostgresInit
  <2>3. InPlace(c, x) /\ x.pc \in Resting
    BY <2>2 DEF InPlace, Resolutions, Resting
  <2> QED
    BY <2>1, <2>3, Rests
<1> QED
  BY <1>1, <1>2, <1>4, <1>5, <1>6, <1>7, <1>8 DEF PostgresInv, PostgresTypeOK

(* Type correctness, with what each client is sure of at each step of a method:   *)
(* what it read of its own is still there, its transaction in doubt is one its   *)
(* job makes, and an anchor is held by whoever priced or has yet to be decided.  *)
THEOREM PostgresInvariant == PostgresSpec => []PostgresInv
<1>1. PostgresInv /\ [PostgresNext]_postgresVars => PostgresInv'
  BY PostgresInvStep
<1> QED
  BY <1>1, PostgresInvInit, PTL DEF PostgresSpec

-----------------------------------------------------------------------------
(* What a step does to a key, to a request and to the ledger *)

(* Every line the action of a client charges has a row for an attempt. *)
PaidIn(rows, c, n) ==
    \A l \in ChargedLines(c) : \E row \in rows :
        row.line = l /\ row.key = Key(c) /\ row.attempt = n

SameKey(k) == effects'[k] = effects[k] /\ stamps'[k] = stamps[k]

(* Its attempt goes on, or ends; nobody's stamp is left on it. *)
GoesOn(k) ==
    /\ effects[k].state \notin {"committed", "new", "failed"}
    /\ effects'[k].attempt = effects[k].attempt /\ stamps'[k] = <<>>

(* A reservation of c has landed, with its charges, and spent its approval. *)
Won(c, k) ==
    /\ Runs(c) /\ Key(c) = k /\ Free(effects[k]) /\ effects'[k].attempt = effects[k].attempt + 1
    /\ stamps'[k] \in {c} \X BOOLEAN
    /\ PaidIn(ledger', c, effects'[k].attempt)
    /\ Request(c) # NoApproval =>
           approvals[Request(c)].status = "granted" /\ approvals'[Request(c)].status = "consumed"

RowsStay ==
    \A row \in ledger : \E kept \in ledger' :
        kept.line = row.line /\ kept.key = row.key /\ kept.attempt = row.attempt

SpentStays == \A id \in Approvals : approvals[id].status = "consumed" => approvals'[id].status = "consumed"

LEMMA OnlyReservationsAreStamped ==
    ASSUME NEW c \in Clients, NEW tx, Lawful(c, tx)
    PROVE  (\E t \in 0..now, b \in BOOLEAN : Reserving(c, tx, t, b)) \/ (tx.by = <<>> /\ tx.rows = {})
<1>1. ASSUME NEW s, Transiting(c, tx, s) PROVE tx.by = <<>> /\ tx.rows = {}
  BY <1>1 DEF Transiting, NoTx
<1>2. ASSUME NEW s, Resolving(c, tx, s) PROVE tx.by = <<>> /\ tx.rows = {}
  BY <1>2 DEF Resolving, NoTx
<1>3. ASSUME NEW t, NEW tok, Holding(c, tx, t, tok) PROVE tx.by = <<>> /\ tx.rows = {}
  BY <1>3 DEF Holding, NoTx
<1>4. Taking(c, tx) \/ Granting(c, tx) \/ Expiring(c, tx) => (tx.by = <<>> /\ tx.rows = {})
  BY DEF Taking, Granting, Expiring, NoTx
<1>5. ASSUME NEW answers, Denying(c, tx, answers) PROVE tx.by = <<>> /\ tx.rows = {}
  BY <1>5 DEF Denying, NoTx
<1> QED
  BY <1>1, <1>2, <1>3, <1>4, <1>5 DEF Lawful

LEMMA LandsKinds ==
    ASSUME PostgresInv, NEW c \in Clients, NEW tx, Lawful(c, tx), Lands(tx)
    PROVE  RowsStay /\ SpentStays /\ \A k \in Keys : SameKey(k) \/ GoesOn(k) \/ Won(c, k)
<1>1. /\ PostgresTypeOK /\ RecordsAgree /\ TypeOK /\ ledger \subseteq Consumption
      /\ stamps \in [Keys -> Stampings]
  BY DEF PostgresInv, PostgresTypeOK, TypeOK
<1>2. tx \in Transaction /\ EffectWrite(c, tx) /\ RequestWrite(c, tx) /\ ContinuationWrite(c, tx)
  BY <1>1, LawfulShape
<1>3. RowsStay
  <2> SUFFICES ASSUME NEW row \in ledger
               PROVE  \E kept \in ledger' :
                          kept.line = row.line /\ kept.key = row.key /\ kept.attempt = row.attempt
    BY DEF RowsStay
  <2>1. CASE tx.release
    <3> DEFINE kept == IF row.key = tx.key THEN [row EXCEPT !.held = FALSE] ELSE row
    <3>1. kept \in ledger'
      BY <2>1 DEF Lands, ReleasedFor
    <3>2. kept.line = row.line /\ kept.key = row.key /\ kept.attempt = row.attempt
      BY <1>1 DEF Consumption
    <3> QED
      BY <3>1, <3>2
  <2>2. CASE ~tx.release
    BY <2>2 DEF Lands
  <2> QED
    BY <2>1, <2>2
<1>4. SpentStays
  <2> SUFFICES ASSUME NEW id \in Approvals, approvals[id].status = "consumed"
               PROVE  approvals'[id].status = "consumed"
    BY DEF SpentStays
  <2>1. tx.id # id
    BY <1>2, Nulls DEF RequestWrite
  <2> QED
    BY <1>1, <2>1 DEF Lands, TypeOK
<1>5. ASSUME NEW k \in Keys PROVE SameKey(k) \/ GoesOn(k) \/ Won(c, k)
  <2>1. CASE tx.key # k
    BY <1>1, <2>1 DEF Lands, TypeOK, SameKey
  <2>2. CASE tx.key = k
    <3>1. /\ Key(c) = k /\ effects'[k] = tx.record /\ stamps'[k] = tx.by /\ tx.key # NoKey
      BY <1>1, <1>2, <2>2, Nulls DEF Lands, TypeOK, EffectWrite
    <3>2. CASE tx.by = <<>>
      <4>1. tx.by \notin {c} \X BOOLEAN
        BY <3>2
      <4> QED
        BY <1>2, <3>1, <3>2, <4>1 DEF EffectWrite, GoesOn, Free
    <3>3. CASE \E t \in 0..now, b \in BOOLEAN : Reserving(c, tx, t, b)
      <4>1. PICK t \in 0..now, b \in BOOLEAN : Reserving(c, tx, t, b)
        BY <3>3
      <4>2. PICK n \in Nat : n = effects[k].attempt
        BY <1>1 DEF TypeOK, EffectRecord
      <4>3. /\ Runs(c) /\ Free(effects[k]) /\ tx.by = <<c, b>> /\ tx.record.attempt = n + 1
            /\ tx.rows = Rows(Hash(c), k, n + 1, t) /\ tx.id = Request(c)
            /\ Request(c) # NoApproval =>
                   approvals[Request(c)].status = "granted"
            /\ ~tx.release
        BY <3>1, <4>1, <4>2 DEF Reserving, NoTx, Reserved, Consumable, GrantedFor
      <4>4. PaidIn(ledger', c, n + 1)
        <5> SUFFICES ASSUME NEW l \in ChargedLines(c)
                     PROVE  \E row \in ledger' : row.line = l /\ row.key = k /\ row.attempt = n + 1
          BY <3>1 DEF PaidIn
        <5>1. PICK row : row = [line |-> l, key |-> k, attempt |-> n + 1,
                                amount |-> Cost[Hash(c)][l], at |-> t, held |-> TRUE]
          OBVIOUS
        <5>2. row \in tx.rows /\ row.line = l /\ row.key = k /\ row.attempt = n + 1
          BY <4>3, <5>1 DEF Rows, ChargedLines
        <5>3. CASE row \in NewRows(tx.rows)
          BY <4>3, <5>2, <5>3 DEF Lands
        <5>4. CASE row \notin NewRows(tx.rows)
          <6>1. PICK old \in ledger : old.line = row.line /\ old.key = row.key /\ old.attempt = row.attempt
            BY <5>2, <5>4 DEF NewRows
          <6> QED
            BY <4>3, <5>2, <6>1 DEF Lands
        <5> QED
          BY <5>3, <5>4
      <4>5. Request(c) # NoApproval => approvals'[Request(c)].status = "consumed"
        <5>1. ASSUME Request(c) # NoApproval
              PROVE  tx.request.status = "consumed" /\ Request(c) \in Approvals
          BY <1>2, <3>1, <4>3, <5>1 DEF RequestWrite
        <5> QED
          BY <1>1, <4>3, <5>1 DEF Lands, TypeOK
      <4> QED
        BY <3>1, <4>2, <4>3, <4>4, <4>5 DEF Won
    <3> QED
      BY <3>2, <3>3, OnlyReservationsAreStamped
  <2> QED
    BY <2>1, <2>2
<1> QED
  BY <1>3, <1>4, <1>5

(* Of any step. *)
LEMMA StepKeys ==
    ASSUME PostgresInv, [PostgresNext]_postgresVars
    PROVE  /\ jobs' = jobs /\ RowsStay /\ SpentStays
           /\ \E c : \A k \in Keys : SameKey(k) \/ GoesOn(k) \/ Won(c, k)
           /\ \/ UNCHANGED clients
              \/ \E c \in Clients : Turn(c) /\ clients[c].pc \notin Ended
<1>1. ASSUME UNCHANGED <<effects, ledger, stamps>>, SpentStays
      PROVE  RowsStay /\ SpentStays /\ \A k \in Keys : SameKey(k)
  BY <1>1 DEF RowsStay, SameKey
<1>2. CASE \E c \in Clients : Turn(c) /\ clients[c].pc \notin Ended
  <2>1. PICK c \in Clients : Turn(c) /\ clients[c].pc \notin Ended
    BY <1>2
  <2>2. /\ jobs' = jobs
        /\ (UNCHANGED <<vars, stamps>> \/ \E tx : Lawful(c, tx) /\ Lands(tx))
    BY <2>1 DEF Turn, ReadsOn, Commits, Loses, Committable
  <2>3. UNCHANGED <<vars, stamps>> => SpentStays /\ UNCHANGED <<effects, ledger, stamps>>
    BY DEF SpentStays, vars
  <2> QED
    BY <1>1, <2>1, <2>2, <2>3, LandsKinds
<1>3. CASE \E c \in Clients : Deciding(c)
  <2>1. PICK c \in Clients : Deciding(c)
    BY <1>3
  <2>2. /\ jobs' = jobs /\ clients' = clients
        /\ (UNCHANGED <<vars, stamps>> \/ \E tx : Lawful(c, tx) /\ Lands(tx))
    BY <2>1 DEF Deciding, PostgresInv, Doubtful
  <2>3. UNCHANGED <<vars, stamps>> => SpentStays /\ UNCHANGED <<effects, ledger, stamps>>
    BY DEF SpentStays, vars
  <2> QED
    BY <1>1, <2>2, <2>3, LandsKinds
<1>4. CASE Putting
  <2>1. PICK id \in Approvals, h \in Hashes, n \in 1..MaxNeeded : PutApprovalRequest(id, h, n)
    BY <1>4 DEF Putting
  <2>2. /\ approvals[id].status = "absent" /\ UNCHANGED <<effects, ledger>>
        /\ \A x \in Approvals : x = id \/ approvals'[x] = approvals[x]
    BY <2>1 DEF PutApprovalRequest, PostgresInv, PostgresTypeOK, TypeOK
  <2>3. SpentStays
    BY <2>2 DEF SpentStays
  <2> QED
    BY <1>1, <1>4, <2>2, <2>3 DEF Putting
<1>5. CASE Waiting
  <2>1. UNCHANGED <<effects, approvals, ledger, stamps, jobs, clients>>
    BY <1>5 DEF Waiting, Tick, vars
  <2>2. SpentStays
    BY <2>1 DEF SpentStays
  <2> QED
    BY <1>1, <2>1, <2>2
<1> QED
  BY <1>2, <1>3, <1>4, <1>5, PostgresKinds

-----------------------------------------------------------------------------
(* One holder per attempt *)

(* The number a client was told is not ahead of the record, and while it is the *)
(* record's, no other client's stamp is there.                                  *)
Numbered(c, n) ==
    n > 0 => /\ n <= effects[Key(c)].attempt
             /\ n = effects[Key(c)].attempt => stamps[Key(c)] \in {<<>>} \cup ({c} \X BOOLEAN)

HoldersInv ==
    /\ PostgresInv /\ OneHolderPerAttempt
    /\ \A c \in Clients : Numbered(c, clients[c].attempt)

(* A client is told something, or is where it was. *)
LEMMA ToldOrNot ==
    ASSUME PostgresInv, [PostgresNext]_postgresVars, NEW c \in Clients, NEW x, NEW y,
           x = clients[c], y = clients'[c]
    PROVE  \/ y = x
           \/ /\ Told(c, x, y) /\ x.pc \notin Ended
              /\ \A d \in Clients \ {c} : clients'[d] = clients[d]
<1>1. clients \in [Clients -> ClientRecord]
  BY DEF PostgresInv, PostgresTypeOK
<1>2. CASE UNCHANGED clients
  BY <1>2
<1>3. CASE \E d \in Clients : Turn(d) /\ clients[d].pc \notin Ended
  <2>1. PICK d \in Clients, z \in ClientRecord :
           clients' = [clients EXCEPT ![d] = z] /\ Told(d, clients[d], z) /\ clients[d].pc \notin Ended
    BY <1>3 DEF Turn
  <2>2. CASE d = c
    BY <1>1, <2>1, <2>2
  <2>3. CASE d # c
    BY <1>1, <2>1, <2>3
  <2> QED
    BY <2>2, <2>3
<1> QED
  BY <1>2, <1>3, StepKeys

LEMMA SameJobs ==
    ASSUME jobs' = jobs, NEW c
    PROVE  /\ Key(c)' = Key(c) /\ Runs(c)' = Runs(c) /\ Request(c)' = Request(c)
           /\ Does(c)' = Does(c) /\ ChargedLines(c)' = ChargedLines(c)
  BY DEF Key, Runs, Request, Does, ChargedLines, Hash

LEMMA NumberedStep ==
    ASSUME HoldersInv, [PostgresNext]_postgresVars, NEW c \in Clients, NEW n, n = clients'[c].attempt
    PROVE  Numbered(c, n)'
<1>1. PICK x, y : x = clients[c] /\ y = clients'[c]
  OBVIOUS
<1>2. PostgresInv /\ PostgresInv' /\ jobs' = jobs /\ Key(c)' = Key(c)
  BY PostgresInvStep, StepKeys, SameJobs DEF HoldersInv
<1>3. SUFFICES ASSUME n > 0
      PROVE  /\ n <= effects'[Key(c)].attempt
             /\ n = effects'[Key(c)].attempt => stamps'[Key(c)] \in {<<>>} \cup ({c} \X BOOLEAN)
  BY <1>2 DEF Numbered
<1>4. Key(c) \in Keys /\ n \in Nat /\ effects[Key(c)].attempt \in Nat /\ effects'[Key(c)].attempt \in Nat
  <2>1. y \in ClientRecord /\ (y.attempt > 0 => Runs(c)')
    BY <1>1, <1>2 DEF PostgresInv, PostgresTypeOK, Knows, InPlace
  <2>2. Runs(c) /\ n \in Nat
    BY <1>1, <1>2, <1>3, <2>1, SameJobs DEF ClientRecord
  <2>3. Key(c) \in Keys
    BY <1>2, <2>2, Situation
  <2> QED
    BY <1>2, <2>2, <2>3 DEF PostgresInv, PostgresTypeOK, TypeOK, EffectRecord
<1>5. CASE n = x.attempt
  <2>1. Numbered(c, n)
    BY <1>1, <1>5 DEF HoldersInv
  <2>2. CASE SameKey(Key(c)) \/ GoesOn(Key(c))
    BY <1>3, <1>4, <2>1, <2>2 DEF Numbered, SameKey, GoesOn
  <2>3. CASE \E d : Won(d, Key(c))
    BY <1>3, <1>4, <2>1, <2>3 DEF Numbered, Won
  <2> QED
    BY <1>2, <1>4, <2>2, <2>3, StepKeys
<1>6. CASE n # x.attempt
  <2>1. Told(c, x, y)
    BY <1>1, <1>2, <1>6, ToldOrNot
  <2> QED
    BY <1>1, <1>4, <1>6, <2>1 DEF Told
<1> QED
  BY <1>5, <1>6

LEMMA OneHolderStep ==
    ASSUME HoldersInv, [PostgresNext]_postgresVars,
           NEW c \in Clients, NEW d \in Clients, c # d, Key(c) = Key(d), clients'[c].attempt > 0,
           clients'[c].attempt # clients[c].attempt
    PROVE  clients'[c].attempt # clients'[d].attempt
<1> SUFFICES ASSUME clients'[c].attempt = clients'[d].attempt PROVE FALSE
  OBVIOUS
<1>1. PICK x, y, n : x = clients[c] /\ y = clients'[c] /\ n = clients'[d].attempt
  OBVIOUS
<1>2. PostgresInv /\ jobs' = jobs /\ Key(d)' = Key(d)
  BY StepKeys, SameJobs DEF HoldersInv
<1>3. Told(c, x, y)
  BY <1>1, <1>2, ToldOrNot
<1>4. y.attempt = effects'[Key(c)].attempt /\ stamps'[Key(c)] \in {c} \X BOOLEAN
  BY <1>1, <1>3 DEF Told
<1>5. Numbered(d, n)'
  BY <1>1, NumberedStep
<1>6. stamps'[Key(c)] \in {<<>>} \cup ({d} \X BOOLEAN)
  BY <1>1, <1>2, <1>4, <1>5 DEF Numbered
<1>7. PICK b \in BOOLEAN : stamps'[Key(c)] = <<c, b>>
  BY <1>4
<1>8. stamps'[Key(c)] # <<>>
  BY <1>7
<1>9. PICK e \in BOOLEAN : stamps'[Key(c)] = <<d, e>>
  BY <1>6, <1>8
<1> QED
  BY <1>7, <1>9

LEMMA HoldersStep ==
    ASSUME HoldersInv, [PostgresNext]_postgresVars
    PROVE  HoldersInv'
<1>1. PostgresInv /\ PostgresInv' /\ jobs' = jobs
  BY PostgresInvStep, StepKeys DEF HoldersInv
<1>2. \A c \in Clients : Numbered(c, clients[c].attempt)'
  <2> SUFFICES ASSUME NEW c \in Clients PROVE Numbered(c, clients[c].attempt)'
    OBVIOUS
  <2>1. PICK n : n = clients'[c].attempt
    OBVIOUS
  <2>2. Numbered(c, n)'
    BY <2>1, NumberedStep
  <2> QED
    BY <2>1, <2>2 DEF Numbered
<1>3. OneHolderPerAttempt'
  <2> SUFFICES ASSUME NEW c \in Clients, NEW d \in Clients, c # d, Key(c) = Key(d),
                      clients'[c].attempt > 0
               PROVE  clients'[c].attempt # clients'[d].attempt
    BY <1>1, SameJobs DEF OneHolderPerAttempt
  <2>1. CASE clients'[c].attempt # clients[c].attempt
    BY <2>1, OneHolderStep
  <2>2. CASE clients'[d].attempt # clients[d].attempt
    BY <2>2, OneHolderStep
  <2>3. CASE clients'[c].attempt = clients[c].attempt /\ clients'[d].attempt = clients[d].attempt
    BY <2>3 DEF HoldersInv, OneHolderPerAttempt
  <2> QED
    BY <2>1, <2>2, <2>3
<1> QED
  BY <1>1, <1>2, <1>3 DEF HoldersInv

(* No two callers are told they hold the same attempt of a key, for any number   *)
(* of clients, keys and lost COMMITs (SPEC-v0.6 4.3.3): whoever is told a number *)
(* finds its own stamp on the record of that number, and no reservation is       *)
(* written twice under one number.                                               *)
THEOREM OneHolderAlways == PostgresSpec => []OneHolderPerAttempt
<1>1. PostgresInit => HoldersInv
  <2> SUFFICES ASSUME PostgresInit PROVE HoldersInv
    OBVIOUS
  <2>1. \A c \in Clients : clients[c].attempt = 0
    BY DEF PostgresInit
  <2> QED
    BY <2>1, PostgresInvInit DEF HoldersInv, OneHolderPerAttempt, Numbered
<1>2. HoldersInv /\ [PostgresNext]_postgresVars => HoldersInv'
  BY HoldersStep
<1>3. HoldersInv => OneHolderPerAttempt
  BY DEF HoldersInv
<1> QED
  BY <1>1, <1>2, <1>3, PTL DEF PostgresSpec

-----------------------------------------------------------------------------
(* What a caller is told is so *)

Stamped(c) == Runs(c) /\ stamps[Key(c)] \in {c} \X BOOLEAN

(* Told of its reservation, or about to find its stamp on it. *)
Claimed(c) == clients[c].attempt > 0 \/ Stamped(c)

SpentOn(c) ==
    Claimed(c) /\ Request(c) # NoApproval =>
        /\ approvals[Request(c)].status = "consumed"
        /\ \A d \in Clients \ {c} : Request(d) = Request(c) => ~Claimed(d)

Stands(c, x) ==
    /\ x.result \in Resolutions => Runs(c) /\ x.pc = "done"
    /\ x.result = "committed" => effects[Key(c)].state = "committed"
    /\ x.result = "failed" =>
           effects[Key(c)].state = "failed" \/ effects[Key(c)].attempt > x.attempt

AnswersInv ==
    /\ HoldersInv
    /\ \A c \in Clients :
          /\ Stamped(c) => PaidIn(ledger, c, effects[Key(c)].attempt)
          /\ clients[c].attempt > 0 => PaidIn(ledger, c, clients[c].attempt)
          /\ SpentOn(c)
          /\ Stands(c, clients[c])

LEMMA PaidStays ==
    ASSUME RowsStay, NEW c, NEW n, PaidIn(ledger, c, n)
    PROVE  PaidIn(ledger', c, n)
<1> SUFFICES ASSUME NEW l \in ChargedLines(c)
             PROVE  \E row \in ledger' : row.line = l /\ row.key = Key(c) /\ row.attempt = n
  BY DEF PaidIn
<1>1. PICK row \in ledger : row.line = l /\ row.key = Key(c) /\ row.attempt = n
  BY DEF PaidIn
<1> QED
  BY <1>1 DEF RowsStay

(* A stamp is of a reservation that has just landed, or was there. *)
LEMMA StampOf ==
    ASSUME AnswersInv, [PostgresNext]_postgresVars, NEW c \in Clients,
           Runs(c), stamps'[Key(c)] \in {c} \X BOOLEAN
    PROVE  \/ Stamped(c) /\ SameKey(Key(c))
           \/ Won(c, Key(c))
<1>1. PICK b \in BOOLEAN : stamps'[Key(c)] = <<c, b>>
  OBVIOUS
<1>2. PostgresInv /\ Key(c) \in Keys
  BY Situation DEF AnswersInv, HoldersInv
<1>3. ~GoesOn(Key(c))
  BY <1>1 DEF GoesOn
<1>4. ASSUME NEW d, Won(d, Key(c)) PROVE d = c
  <2>1. PICK e \in BOOLEAN : stamps'[Key(c)] = <<d, e>>
    BY <1>4 DEF Won
  <2> QED
    BY <1>1, <2>1
<1>5. SameKey(Key(c)) => Stamped(c)
  BY DEF SameKey, Stamped
<1> QED
  BY <1>2, <1>3, <1>4, <1>5, StepKeys

(* At most one client wins in a step. *)
LEMMA OneWinner ==
    ASSUME PostgresInv, [PostgresNext]_postgresVars, NEW c \in Clients, NEW d \in Clients,
           Won(c, Key(c)), Won(d, Key(d))
    PROVE  c = d
<1>1. PICK w : \A k \in Keys : SameKey(k) \/ GoesOn(k) \/ Won(w, k)
  BY StepKeys
<1>2. ASSUME NEW e \in Clients, Won(e, Key(e)) PROVE e = w
  <2>1. Key(e) \in Keys
    BY <1>2, Situation DEF Won
  <2>2. PICK n \in Nat : n = effects[Key(e)].attempt
    BY <2>1 DEF PostgresInv, PostgresTypeOK, TypeOK, EffectRecord
  <2>3. PICK b \in BOOLEAN : stamps'[Key(e)] = <<e, b>>
    BY <1>2 DEF Won
  <2>4. effects'[Key(e)].attempt = n + 1
    BY <1>2, <2>2 DEF Won
  <2>5. Won(w, Key(e))
    BY <1>1, <2>1, <2>2, <2>4 DEF SameKey, GoesOn
  <2>6. PICK a \in BOOLEAN : stamps'[Key(e)] = <<w, a>>
    BY <2>5 DEF Won
  <2> QED
    BY <2>3, <2>6
<1> QED
  BY <1>2

(* Who claims after a step either claimed before it, or has just won. *)
LEMMA ClaimOf ==
    ASSUME AnswersInv, [PostgresNext]_postgresVars, NEW c \in Clients,
           clients'[c].attempt > 0 \/ (Runs(c) /\ stamps'[Key(c)] \in {c} \X BOOLEAN)
    PROVE  Claimed(c) \/ Won(c, Key(c))
<1>1. PICK x, y : x = clients[c] /\ y = clients'[c]
  OBVIOUS
<1>2. PostgresInv
  BY DEF AnswersInv, HoldersInv
<1>3. y = x \/ Told(c, x, y)
  BY <1>1, <1>2, ToldOrNot
<1>4. CASE y.attempt = x.attempt /\ y.attempt > 0
  BY <1>1, <1>4 DEF Claimed
<1>5. CASE y.attempt # x.attempt \/ (Runs(c) /\ stamps'[Key(c)] \in {c} \X BOOLEAN)
  <2>1. Runs(c) /\ stamps'[Key(c)] \in {c} \X BOOLEAN
    BY <1>3, <1>5 DEF Told
  <2> QED
    BY <2>1, StampOf DEF Claimed
<1> QED
  BY <1>1, <1>4, <1>5

LEMMA PaidStep ==
    ASSUME AnswersInv, [PostgresNext]_postgresVars, NEW c \in Clients
    PROVE  /\ Runs(c) /\ stamps'[Key(c)] \in {c} \X BOOLEAN
                  => PaidIn(ledger', c, effects'[Key(c)].attempt)
           /\ clients'[c].attempt > 0 => PaidIn(ledger', c, clients'[c].attempt)
<1>1. PICK x, y : x = clients[c] /\ y = clients'[c]
  OBVIOUS
<1>2. PostgresInv /\ RowsStay
  BY StepKeys DEF AnswersInv, HoldersInv
<1>3. ASSUME Runs(c), stamps'[Key(c)] \in {c} \X BOOLEAN
      PROVE  PaidIn(ledger', c, effects'[Key(c)].attempt)
  <2>1. CASE Won(c, Key(c))
    BY <2>1 DEF Won
  <2>2. CASE Stamped(c) /\ SameKey(Key(c))
    <3>1. PICK n : n = effects[Key(c)].attempt
      OBVIOUS
    <3>2. PaidIn(ledger, c, n)
      BY <2>2, <3>1 DEF AnswersInv
    <3> QED
      BY <1>2, <2>2, <3>1, <3>2, PaidStays DEF SameKey
  <2> QED
    BY <1>3, <2>1, <2>2, StampOf
<1>4. ASSUME y.attempt > 0 PROVE PaidIn(ledger', c, y.attempt)
  <2>1. CASE y.attempt = x.attempt
    BY <1>1, <1>2, <1>4, <2>1, PaidStays DEF AnswersInv
  <2>2. CASE y.attempt # x.attempt
    <3>1. Told(c, x, y)
      BY <1>1, <1>2, <2>2, ToldOrNot
    <3>2. /\ Runs(c) /\ y.attempt = effects'[Key(c)].attempt
          /\ stamps'[Key(c)] \in {c} \X BOOLEAN
      BY <2>2, <3>1 DEF Told
    <3> QED
      BY <1>3, <3>2
  <2> QED
    BY <2>1, <2>2
<1> QED
  BY <1>1, <1>3, <1>4

LEMMA SpentStep ==
    ASSUME AnswersInv, [PostgresNext]_postgresVars, NEW c \in Clients
    PROVE  SpentOn(c)'
<1>1. PostgresInv /\ SpentStays /\ jobs' = jobs /\ Request(c) \in Approvals \cup {NoApproval}
  BY StepKeys, Situation DEF AnswersInv, HoldersInv
<1> DEFINE Claims(d) == clients'[d].attempt > 0 \/ (Runs(d) /\ stamps'[Key(d)] \in {d} \X BOOLEAN)
<1>2. SUFFICES ASSUME Claims(c), Request(c) # NoApproval
      PROVE  /\ approvals'[Request(c)].status = "consumed"
             /\ \A d \in Clients \ {c} : Request(d) = Request(c) => ~Claims(d)
  BY <1>1, SameJobs DEF SpentOn, Claimed, Stamped
<1>3. ASSUME NEW d \in Clients, Claims(d) PROVE Claimed(d) \/ Won(d, Key(d))
  BY <1>3, ClaimOf
<1>4. ASSUME NEW d \in Clients, Won(d, Key(d)), Request(d) = Request(c)
      PROVE  /\ approvals[Request(c)].status = "granted" /\ approvals'[Request(c)].status = "consumed"
             /\ \A e \in Clients : Request(e) = Request(c) => ~Claimed(e)
  <2>1. approvals[Request(c)].status = "granted" /\ approvals'[Request(c)].status = "consumed"
    BY <1>2, <1>4 DEF Won
  <2> QED
    BY <1>2, <2>1 DEF AnswersInv, SpentOn
<1>5. approvals'[Request(c)].status = "consumed"
  <2>1. CASE Claimed(c)
    BY <1>1, <1>2, <2>1 DEF AnswersInv, SpentOn, SpentStays
  <2>2. CASE Won(c, Key(c))
    BY <1>4, <2>2
  <2> QED
    BY <1>2, <1>3, <2>1, <2>2
<1>6. ASSUME NEW d \in Clients \ {c}, Request(d) = Request(c), Claims(d) PROVE FALSE
  <2>1. CASE Claimed(c) /\ Claimed(d)
    BY <1>2, <1>6, <2>1 DEF AnswersInv, SpentOn
  <2>2. CASE Won(c, Key(c)) /\ Claimed(d)
    BY <1>4, <1>6, <2>2
  <2>3. CASE Claimed(c) /\ Won(d, Key(d))
    BY <1>4, <1>6, <2>3
  <2>4. CASE Won(c, Key(c)) /\ Won(d, Key(d)) /\ ~Claimed(c) /\ ~Claimed(d)
    BY <1>1, <1>6, <2>4, OneWinner
  <2> QED
    BY <1>2, <1>3, <1>6, <2>1, <2>2, <2>3, <2>4
<1> HIDE DEF Claims
<1> QED
  BY <1>5, <1>6

LEMMA StandsStep ==
    ASSUME AnswersInv, [PostgresNext]_postgresVars, NEW c \in Clients
    PROVE  Stands(c, clients[c])'
<1>1. PICK x, y : x = clients[c] /\ y = clients'[c]
  OBVIOUS
<1>2. PostgresInv /\ PostgresInv' /\ jobs' = jobs /\ Stands(c, x) /\ Numbered(c, x.attempt)
  BY <1>1, PostgresInvStep, StepKeys DEF AnswersInv, HoldersInv
<1>3. SUFFICES /\ y.result \in Resolutions => Runs(c) /\ y.pc = "done"
               /\ y.result = "committed" => effects'[Key(c)].state = "committed"
               /\ y.result = "failed" =>
                      effects'[Key(c)].state = "failed" \/ effects'[Key(c)].attempt > y.attempt
  BY <1>1, <1>2, SameJobs DEF Stands
<1>4. CASE y = x
  <2>1. CASE x.result \notin Resolutions
    BY <1>4, <2>1 DEF Resolutions
  <2>2. CASE x.result \in Resolutions
    <3>1. Runs(c) /\ x.pc = "done" /\ Key(c) \in Keys
      BY <1>2, <2>2, Situation DEF Stands
    <3>2. PICK n \in Nat, m \in Nat, a \in Nat :
             n = effects[Key(c)].attempt /\ m = effects'[Key(c)].attempt /\ a = x.attempt
      BY <1>1, <1>2, <3>1 DEF PostgresInv, PostgresTypeOK, TypeOK, EffectRecord, ClientRecord
    <3>3. a <= n
      BY <1>2, <3>2 DEF Numbered
    <3>4. CASE SameKey(Key(c))
      BY <1>2, <1>4, <3>1, <3>4 DEF Stands, SameKey
    <3>5. CASE GoesOn(Key(c))
      BY <1>2, <1>4, <3>1, <3>5 DEF Stands, GoesOn
    <3>6. CASE \E d : Won(d, Key(c))
      <4>1. Free(effects[Key(c)]) /\ m = n + 1
        BY <3>2, <3>6 DEF Won
      <4>2. effects[Key(c)].state # "committed" /\ m > a
        BY <3>2, <3>3, <4>1 DEF Free
      <4> QED
        BY <1>2, <1>4, <3>1, <3>2, <4>2 DEF Stands
    <3> QED
      BY <1>2, <3>1, <3>4, <3>5, <3>6, StepKeys
  <2> QED
    BY <2>1, <2>2
<1>5. CASE Told(c, x, y) /\ x.pc \notin Ended
  <2>1. x.result \notin Resolutions
    BY <1>2, <1>5 DEF Stands, Ended
  <2>2. CASE y.result = x.result
    BY <2>1, <2>2 DEF Resolutions
  <2>3. CASE y.result # x.result
    BY <1>5, <2>3 DEF Told, Resolutions
  <2> QED
    BY <2>2, <2>3
<1> QED
  BY <1>1, <1>2, <1>4, <1>5, ToldOrNot

LEMMA AnswersStep ==
    ASSUME AnswersInv, [PostgresNext]_postgresVars
    PROVE  AnswersInv'
<1>1. HoldersInv' /\ jobs' = jobs
  BY HoldersStep, StepKeys DEF AnswersInv, HoldersInv
<1>2. ASSUME NEW c \in Clients
      PROVE  /\ (Stamped(c) => PaidIn(ledger, c, effects[Key(c)].attempt))'
             /\ (clients[c].attempt > 0 => PaidIn(ledger, c, clients[c].attempt))'
  <2>1. PICK n, m : n = effects'[Key(c)].attempt /\ m = clients'[c].attempt
    OBVIOUS
  <2>2. /\ Runs(c) /\ stamps'[Key(c)] \in {c} \X BOOLEAN => PaidIn(ledger', c, n)
        /\ m > 0 => PaidIn(ledger', c, m)
    BY <2>1, PaidStep
  <2>3. PaidIn(ledger, c, n)' <=> PaidIn(ledger', c, n)
    BY <1>1, SameJobs DEF PaidIn
  <2>4. PaidIn(ledger, c, m)' <=> PaidIn(ledger', c, m)
    BY <1>1, SameJobs DEF PaidIn
  <2> QED
    BY <1>1, <2>1, <2>2, <2>3, <2>4, SameJobs DEF Stamped, PaidIn
<1>3. \A c \in Clients : SpentOn(c)'
  BY SpentStep
<1>4. \A c \in Clients : Stands(c, clients[c])'
  BY StandsStep
<1> QED
  BY <1>1, <1>2, <1>3, <1>4 DEF AnswersInv

(* A caller is told only what has happened, all of it, for any number of        *)
(* clients and of lost COMMITs (SPEC-v0.6 4.3.3): a reservation reported as won *)
(* has its charges on the ledger and its approval spent on nobody else, and an  *)
(* outcome reported is the record's.  The ledger cannot fall behind a           *)
(* reservation: the stamp that _is_our_own_write recognises landed in the same  *)
(* transaction as the rows.                                                     *)
THEOREM AnswersAlwaysTrue == PostgresSpec => []AnswersAreTrue
<1>1. PostgresInit => AnswersInv
  <2> SUFFICES ASSUME PostgresInit PROVE AnswersInv
    OBVIOUS
  <2>1. /\ \A c \in Clients : clients[c].attempt = 0 /\ clients[c].result = "once"
        /\ PostgresInv
    BY PostgresInvInit DEF PostgresInit
  <2>2. HoldersInv
    BY <2>1 DEF HoldersInv, OneHolderPerAttempt, Numbered
  <2>3. ASSUME NEW c \in Clients, Stamped(c) PROVE FALSE
    <3>1. stamps[Key(c)] = <<>>
      BY <2>1, <2>3, Situation DEF PostgresInit, Stamped
    <3>2. PICK b \in BOOLEAN : stamps[Key(c)] = <<c, b>>
      BY <2>3 DEF Stamped
    <3> QED
      BY <3>1, <3>2
  <2> QED
    BY <2>1, <2>2, <2>3 DEF AnswersInv, SpentOn, Claimed, Stands, Resolutions
<1>2. AnswersInv /\ [PostgresNext]_postgresVars => AnswersInv'
  BY AnswersStep
<1>3. AnswersInv => AnswersAreTrue
  <2> SUFFICES ASSUME AnswersInv, NEW c \in Clients
               PROVE  /\ clients[c].attempt > 0 =>
                            /\ PaidIn(ledger, c, clients[c].attempt)
                            /\ Request(c) # NoApproval =>
                                  /\ approvals[Request(c)].status = "consumed"
                                  /\ \A d \in Clients \ {c} :
                                        Request(d) = Request(c) => clients[d].attempt = 0
                      /\ Stands(c, clients[c])
    BY DEF AnswersAreTrue, PaidIn, Stands
  <2>1. \A d \in Clients : clients[d].attempt \in Nat
    BY DEF AnswersInv, HoldersInv, PostgresInv, PostgresTypeOK, ClientRecord
  <2> QED
    BY <2>1 DEF AnswersInv, SpentOn, Claimed
<1> QED
  BY <1>1, <1>2, <1>3, PTL DEF PostgresSpec

-----------------------------------------------------------------------------
(* A continuation value is taken once *)

Row(k) == continuations[k].token
Took(c) == Does(c) = "take" /\ clients[c].pc = "done"

RowsApart == \A k, j \in Keys : k # j /\ Row(k) # NoToken => Row(j) # Row(k)

(* A value whose COMMIT is in doubt is in no other row, and in doubt once. *)
PendingApart ==
    \A d \in Clients : doubt[d].value # NoToken =>
        /\ \A k \in Keys : k # doubt[d].cont => Row(k) # doubt[d].value
        /\ \A e \in Clients \ {d} : doubt[e].value # doubt[d].value

(* A value that was taken is nowhere any more. *)
Gone(v) ==
    /\ v # NoToken
    /\ \A k \in Keys : Row(k) # v
    /\ \A d \in Clients : doubt[d].value # v

TokensInv ==
    /\ PostgresInv /\ RowsApart /\ PendingApart /\ OneTakePerValue
    /\ \A c \in Clients : Took(c) => Gone(clients[c].value)

LEMMA RowLands ==
    ASSUME PostgresInv, NEW c \in Clients, NEW tx, Lawful(c, tx), Lands(tx), NEW k \in Keys
    PROVE  /\ continuations'[k].token = IF k = tx.cont THEN tx.value ELSE Row(k)
           /\ tx.value # NoToken => tx.cont \in Keys
<1>1. PostgresTypeOK /\ RecordsAgree /\ TypeOK
  BY DEF PostgresInv, PostgresTypeOK
<1>2. ContinuationWrite(c, tx)
  BY <1>1, LawfulShape
<1>3. CASE tx.cont = NoKey
  BY <1>2, <1>3, Nulls DEF Lands, Row, ContinuationWrite
<1>4. CASE tx.cont # NoKey
  BY <1>1, <1>2, <1>4 DEF Lands, Row, ContinuationWrite, TypeOK
<1> QED
  BY <1>2, <1>3, <1>4 DEF ContinuationWrite

(* A value no one else has seen, or none, is put in a row. *)
LEMMA TokensLand ==
    ASSUME TokensInv, NEW c \in Clients, NEW tx, Lawful(c, tx), Lands(tx),
           \A d \in Clients : doubt'[d] = doubt[d] \/ doubt'[d].value = NoToken,
           tx.value # NoToken =>
               /\ \A k \in Keys : k # tx.cont => Row(k) # tx.value
               /\ \A d \in Clients : doubt'[d].value # tx.value
               /\ \A d \in Clients : Took(d) => clients[d].value # tx.value
    PROVE  /\ RowsApart' /\ PendingApart'
           /\ \A d \in Clients : Took(d) =>
                 /\ \A k \in Keys : continuations'[k].token # clients[d].value
                 /\ \A e \in Clients : doubt'[e].value # clients[d].value
<1>1. PostgresInv
  BY DEF TokensInv
<1>2. \A k \in Keys : continuations'[k].token = IF k = tx.cont THEN tx.value ELSE Row(k)
  BY <1>1, RowLands
<1>3. RowsApart'
  BY <1>2 DEF TokensInv, RowsApart, Row
<1>4. PendingApart'
  <2> SUFFICES ASSUME NEW d \in Clients, doubt'[d].value # NoToken
               PROVE  /\ \A k \in Keys : k # doubt'[d].cont => continuations'[k].token # doubt'[d].value
                      /\ \A e \in Clients \ {d} : doubt'[e].value # doubt'[d].value
    BY DEF PendingApart, Row
  <2>1. doubt'[d] = doubt[d]
    OBVIOUS
  <2>2. /\ \A k \in Keys : k # doubt[d].cont => Row(k) # doubt[d].value
        /\ \A e \in Clients \ {d} : doubt[e].value # doubt[d].value
    BY <2>1 DEF TokensInv, PendingApart
  <2>3. ASSUME NEW k \in Keys, k # doubt'[d].cont PROVE continuations'[k].token # doubt'[d].value
    BY <1>2, <2>1, <2>2, <2>3
  <2>4. ASSUME NEW e \in Clients \ {d} PROVE doubt'[e].value # doubt'[d].value
    BY <2>1, <2>2
  <2> QED
    BY <2>3, <2>4
<1>5. ASSUME NEW d \in Clients, Took(d)
      PROVE  /\ \A k \in Keys : continuations'[k].token # clients[d].value
             /\ \A e \in Clients : doubt'[e].value # clients[d].value
  <2>1. Gone(clients[d].value)
    BY <1>5 DEF TokensInv
  <2> QED
    BY <1>2, <1>5, <2>1 DEF Gone
<1> QED
  BY <1>3, <1>4, <1>5

(* The row of k is emptied of the value that client c has read from it. *)
JustTook(c) ==
    /\ Does(c) = "take" /\ ~Took(c) /\ Key(c) \in Keys /\ clients[c].value # NoToken
    /\ Row(Key(c)) = clients[c].value /\ clients'[c].value = clients[c].value
    /\ continuations'[Key(c)].token = NoToken
    /\ \A k \in Keys : k # Key(c) => continuations'[k].token = Row(k)
    /\ doubt' = doubt /\ \A d \in Clients : doubt[d].cont # Key(c)
    /\ \A d \in Clients \ {c} : clients'[d] = clients[d]

TokensStep ==
    /\ RowsApart' /\ PendingApart'
    /\ \A d \in Clients : Took(d) =>
          /\ \A k \in Keys : continuations'[k].token # clients[d].value
          /\ \A e \in Clients : doubt'[e].value # clients[d].value
    /\ \A d \in Clients : Does(d) = "take" /\ clients'[d].pc = "done" =>
          (Took(d) /\ clients'[d].value = clients[d].value) \/ JustTook(d)

(* The rows and the doubts as they were. *)
LEMMA TokensRest ==
    ASSUME TokensInv, continuations' = continuations, doubt' = doubt
    PROVE  /\ RowsApart' /\ PendingApart'
           /\ \A d \in Clients : Took(d) =>
                 /\ \A k \in Keys : continuations'[k].token # clients[d].value
                 /\ \A e \in Clients : doubt'[e].value # clients[d].value
  BY DEF TokensInv, RowsApart, PendingApart, Row, Gone

LEMMA TurnOfTokens ==
    ASSUME TokensInv, NEW c \in Clients, Turn(c), clients[c].pc \notin Ended
    PROVE  TokensStep
<1>1. PostgresInv
  BY DEF TokensInv
<1>2. PICK y \in ClientRecord :
         /\ clients' = [clients EXCEPT ![c] = y]
         /\ \/ ReadsOn(c, clients[c], y)
            \/ \E tx : Commits(c, tx, clients[c], y) \/ Loses(c, tx, clients[c], y)
  BY DEF Turn
<1>3. PICK x \in ClientRecord : x = clients[c]
  BY <1>1, Situation
<1>4. clients'[c] = y /\ \A d \in Clients \ {c} : clients'[d] = clients[d]
  BY <1>1, <1>2, Situation
<1>5. x.pc # "done" /\ ~Took(c)
  BY <1>3 DEF Ended, Took
<1>6. SUFFICES /\ RowsApart' /\ PendingApart'
               /\ \A d \in Clients : Took(d) =>
                     /\ \A k \in Keys : continuations'[k].token # clients[d].value
                     /\ \A e \in Clients : doubt'[e].value # clients[d].value
               /\ Does(c) = "take" /\ y.pc = "done" => JustTook(c)
  BY <1>4 DEF TokensStep, Took
<1>7. CASE ReadsOn(c, x, y)
  <2>1. continuations' = continuations /\ doubt' = doubt
    BY <1>7 DEF ReadsOn, vars
  <2> QED
    BY <1>5, <1>7, <2>1, TokensRest DEF ReadsOn
<1>8. ASSUME NEW tx, Commits(c, tx, x, y)
      PROVE  /\ RowsApart' /\ PendingApart'
             /\ \A d \in Clients : Took(d) =>
                   /\ \A k \in Keys : continuations'[k].token # clients[d].value
                   /\ \A e \in Clients : doubt'[e].value # clients[d].value
             /\ Does(c) = "take" /\ y.pc = "done" => JustTook(c)
  <2>1. /\ Lawful(c, tx) /\ Fresh(tx) /\ (\A d \in Clients : Clear(d, tx)) /\ Lands(tx)
        /\ doubt' = doubt /\ y.value = x.value /\ TakesWhatItRead(c, tx, x, y)
    BY <1>8 DEF Commits, Committable
  <2>2. tx.value # NoToken =>
            /\ \A k \in Keys : k # tx.cont => Row(k) # tx.value
            /\ \A d \in Clients : doubt'[d].value # tx.value
            /\ \A d \in Clients : Took(d) => clients[d].value # tx.value
    BY <2>1 DEF Fresh, Row
  <2>3. ASSUME Does(c) = "take", y.pc = "done" PROVE JustTook(c)
    <3>1. /\ tx.cont = Key(c) /\ tx.value = NoToken /\ Row(Key(c)) = x.value /\ x.value # NoToken
          /\ Key(c) \in Keys
      BY <1>1, <2>1, <2>3, Situation DEF TakesWhatItRead, Row
    <3>2. \A k \in Keys : continuations'[k].token = IF k = tx.cont THEN tx.value ELSE Row(k)
      BY <1>1, <2>1, RowLands
    <3>3. \A d \in Clients : doubt[d].cont # Key(c)
      BY <2>1, <3>1, Nulls DEF Clear
    <3> QED
      BY <1>3, <1>4, <1>5, <2>1, <2>3, <3>1, <3>2, <3>3 DEF JustTook
  <2> QED
    BY <2>1, <2>2, <2>3, TokensLand
<1>9. ASSUME NEW tx, Loses(c, tx, x, y)
      PROVE  /\ RowsApart' /\ PendingApart'
             /\ \A d \in Clients : Took(d) =>
                   /\ \A k \in Keys : continuations'[k].token # clients[d].value
                   /\ \A e \in Clients : doubt'[e].value # clients[d].value
             /\ y.pc # "done"
  <2>1. /\ Fresh(tx) /\ continuations' = continuations /\ y.pc = "lost"
        /\ doubt' = [doubt EXCEPT ![c] = tx] /\ doubt \in [Clients -> Transaction]
    BY <1>1, <1>9 DEF Loses, Committable, vars, PostgresInv, PostgresTypeOK
  <2>2. doubt'[c] = tx /\ \A d \in Clients \ {c} : doubt'[d] = doubt[d]
    BY <2>1
  <2>3. RowsApart'
    BY <2>1 DEF TokensInv, RowsApart, Row
  <2>4. PendingApart'
    BY <2>1, <2>2 DEF TokensInv, PendingApart, Row, Fresh
  <2>5. ASSUME NEW d \in Clients, Took(d)
        PROVE  /\ \A k \in Keys : continuations'[k].token # clients[d].value
               /\ \A e \in Clients : doubt'[e].value # clients[d].value
    BY <2>1, <2>2, <2>5 DEF TokensInv, Gone, Fresh, Row
  <2> QED
    BY <2>1, <2>3, <2>4, <2>5
<1> QED
  BY <1>2, <1>3, <1>7, <1>8, <1>9

LEMMA DecidingTokens ==
    ASSUME TokensInv, NEW c \in Clients, Deciding(c)
    PROVE  TokensStep
<1>1. /\ PostgresInv /\ doubt \in [Clients -> Transaction] /\ clients' = clients
      /\ doubt' = [doubt EXCEPT ![c] = NoTx]
  BY DEF TokensInv, PostgresInv, PostgresTypeOK, Deciding
<1>2. /\ doubt'[c].value = NoToken
      /\ \A d \in Clients \ {c} : doubt'[d] = doubt[d]
  BY <1>1 DEF NoTx
<1>3. \A d \in Clients : Does(d) = "take" /\ clients'[d].pc = "done" =>
          Took(d) /\ clients'[d].value = clients[d].value
  BY <1>1 DEF Took
<1>4. CASE Lands(doubt[c])
  <2>1. PICK tx : tx = doubt[c]
    OBVIOUS
  <2>2. Lawful(c, tx) /\ Lands(tx)
    BY <1>1, <1>4, <2>1 DEF PostgresInv, Doubtful, Deciding
  <2>3. tx.value # NoToken =>
            /\ \A k \in Keys : k # tx.cont => Row(k) # tx.value
            /\ \A d \in Clients : doubt'[d].value # tx.value
            /\ \A d \in Clients : Took(d) => clients[d].value # tx.value
    BY <1>2, <2>1 DEF TokensInv, PendingApart, Gone
  <2> QED
    BY <1>2, <1>3, <2>2, <2>3, TokensLand DEF TokensStep
<1>5. CASE UNCHANGED <<vars, stamps>>
  <2>1. continuations' = continuations
    BY <1>5 DEF vars
  <2>2. RowsApart' /\ PendingApart'
    BY <1>2, <2>1 DEF TokensInv, RowsApart, PendingApart, Row
  <2>3. ASSUME NEW d \in Clients, Took(d)
        PROVE  /\ \A k \in Keys : continuations'[k].token # clients[d].value
               /\ \A e \in Clients : doubt'[e].value # clients[d].value
    BY <1>2, <2>1, <2>3 DEF TokensInv, Gone, Row
  <2> QED
    BY <1>3, <2>2, <2>3 DEF TokensStep
<1> QED
  BY <1>4, <1>5 DEF Deciding

LEMMA TokensInvStep ==
    ASSUME TokensInv, [PostgresNext]_postgresVars
    PROVE  TokensInv'
<1>1. PostgresInv /\ PostgresInv' /\ jobs' = jobs
  BY PostgresInvStep, StepKeys DEF TokensInv
<1>2. TokensStep
  <2>1. CASE Putting \/ Waiting
    <3>1. continuations' = continuations /\ doubt' = doubt /\ clients' = clients
      BY <2>1 DEF Putting, PutApprovalRequest, Waiting, Tick, vars
    <3> QED
      BY <3>1, TokensRest DEF TokensStep, Took
  <2> QED
    BY <1>1, <2>1, TurnOfTokens, DecidingTokens, PostgresKinds
<1>3. ASSUME NEW c \in Clients, JustTook(c)
      PROVE  /\ \A k \in Keys : continuations'[k].token # clients[c].value
             /\ \A d \in Clients : doubt'[d].value # clients[c].value
             /\ \A d \in Clients : Took(d) => clients[d].value # clients[c].value
  <2>1. \A k \in Keys : continuations'[k].token # clients[c].value
    BY <1>3 DEF TokensInv, RowsApart, JustTook
  <2>2. \A d \in Clients : doubt'[d].value # clients[c].value
    BY <1>3 DEF TokensInv, PendingApart, JustTook
  <2>3. \A d \in Clients : Took(d) => clients[d].value # clients[c].value
    BY <1>3 DEF TokensInv, Gone, JustTook
  <2> QED
    BY <2>1, <2>2, <2>3
<1>4. ASSUME NEW c \in Clients, Does(c) = "take", clients'[c].pc = "done"
      PROVE  Gone(clients[c].value)'
  <2>1. CASE Took(c) /\ clients'[c].value = clients[c].value
    BY <1>2, <2>1 DEF TokensStep, TokensInv, Gone, Row
  <2>2. CASE JustTook(c)
    BY <1>3, <2>2 DEF JustTook, Gone, Row
  <2> QED
    BY <1>2, <1>4, <2>1, <2>2 DEF TokensStep
<1>5. OneTakePerValue'
  <2> SUFFICES ASSUME NEW c \in Clients, NEW d \in Clients, c # d, Does(c) = "take", Does(d) = "take",
                      clients'[c].pc = "done", clients'[d].pc = "done"
               PROVE  clients'[c].value # clients'[d].value
    BY <1>1, SameJobs DEF OneTakePerValue, At
  <2>1. /\ (Took(c) /\ clients'[c].value = clients[c].value) \/ JustTook(c)
        /\ (Took(d) /\ clients'[d].value = clients[d].value) \/ JustTook(d)
    BY <1>2 DEF TokensStep
  <2>2. CASE Took(c) /\ Took(d) /\ clients'[c].value = clients[c].value
                     /\ clients'[d].value = clients[d].value
    BY <2>2 DEF TokensInv, OneTakePerValue, Took, At
  <2>3. CASE JustTook(c) /\ Took(d) /\ clients'[d].value = clients[d].value
    BY <1>3, <2>3 DEF JustTook
  <2>4. CASE JustTook(d) /\ Took(c) /\ clients'[c].value = clients[c].value
    BY <1>3, <2>4 DEF JustTook
  <2>5. CASE JustTook(c) /\ JustTook(d)
    BY <2>5 DEF JustTook, Took
  <2> QED
    BY <2>1, <2>2, <2>3, <2>4, <2>5
<1> QED
  BY <1>1, <1>2, <1>4, <1>5, SameJobs DEF TokensInv, TokensStep, Took

(* A continuation value admits one resumption, for any number of clients that  *)
(* present it and of lost COMMITs (SPEC-v0.2 6.9.2).  It rests on the value's  *)
(* being nowhere once it was taken: a value is minted unseen, no row holds it  *)
(* twice, a hold in doubt keeps it from every other row, and no take goes past *)
(* a hold of the row that is in doubt.                                         *)
THEOREM OneTakeAlways == PostgresSpec => []OneTakePerValue
<1>1. PostgresInit => TokensInv
  <2> SUFFICES ASSUME PostgresInit PROVE TokensInv
    OBVIOUS
  <2>1. \A k \in Keys : Row(k) = NoToken
    BY DEF PostgresInit, Init, Row
  <2>2. \A d \in Clients : doubt[d].value = NoToken
    BY DEF PostgresInit, NoTx
  <2>3. \A c \in Clients : ~Took(c)
    BY DEF PostgresInit, Took
  <2> QED
    BY <2>1, <2>2, <2>3, PostgresInvInit
       DEF TokensInv, RowsApart, PendingApart, OneTakePerValue, Took, At
<1>2. TokensInv /\ [PostgresNext]_postgresVars => TokensInv'
  BY TokensInvStep
<1>3. TokensInv => OneTakePerValue
  BY DEF TokensInv
<1> QED
  BY <1>1, <1>2, <1>3, PTL DEF PostgresSpec

-----------------------------------------------------------------------------
(* The anchors: who commits a charge has locked every line it is charged to *)

(* The sums allow what the action of c costs, and no one else may change them. *)
Affords(c, t) ==
    /\ Affordable(Hash(c), t)
    /\ \A l \in ChargedLines(c) : c \in anchors[l]

(* A client that is about to write has priced its action, with nothing in doubt, *)
(* and a reservation in doubt is one that was priced.                            *)
Priced(c) ==
    /\ clients[c].pc = "write" /\ clients[c].stage = "reserve" =>
           /\ Affords(c, clients[c].at)
           /\ ChargedLines(c) # {} => doubt[c] = NoTx
    /\ doubt[c].by # <<>> => Affords(c, doubt[c].record.lease - Lease)

OneAtAnAnchor == \A l \in Lines, c, d \in Clients : c \in anchors[l] /\ d \in anchors[l] => c = d

HoldsNoMore == \A row \in ledger' : row.held => row \in ledger

LEMMA LandsLedger ==
    ASSUME PostgresInv, NEW c \in Clients, NEW tx, Lawful(c, tx), Lands(tx)
    PROVE  /\ tx.by = <<>> => HoldsNoMore
           /\ \A row \in ledger' : row.held => row \in ledger \/ row.line \in ChargedLines(c)
<1>1. /\ PostgresTypeOK /\ RecordsAgree /\ TypeOK /\ ledger \subseteq Consumption
  BY DEF PostgresInv, PostgresTypeOK, TypeOK
<1>2. EffectWrite(c, tx) /\ ContinuationWrite(c, tx)
  BY <1>1, LawfulShape
<1>3. CASE tx.release
  <2>1. tx.key \in Keys /\ ledger' = ReleasedFor(tx.key)
    BY <1>2, <1>3 DEF EffectWrite, ContinuationWrite, Lands
  <2>2. HoldsNoMore
    <3> SUFFICES ASSUME NEW row \in ReleasedFor(tx.key), row.held PROVE row \in ledger
      BY <2>1 DEF HoldsNoMore
    <3>1. PICK old \in ledger :
             /\ row.held <=> (old.held /\ old.key # tx.key)
             /\ row = IF old.key = tx.key THEN [old EXCEPT !.held = FALSE] ELSE old
      BY <1>1, <2>1, ReleasedRows
    <3> QED
      BY <3>1
  <2> QED
    BY <2>2 DEF HoldsNoMore
<1>4. CASE ~tx.release
  <2>1. ledger' = ledger \cup NewRows(tx.rows)
    BY <1>4 DEF Lands
  <2>2. CASE tx.by = <<>> /\ tx.rows = {}
    BY <2>1, <2>2 DEF HoldsNoMore, NewRows
  <2>3. CASE \E t \in 0..now, b \in BOOLEAN : Reserving(c, tx, t, b)
    <3>1. PICK t \in 0..now, b \in BOOLEAN : Reserving(c, tx, t, b)
      BY <2>3
    <3>2. tx.by = <<c, b>> /\ tx.rows = Rows(Hash(c), Key(c), effects[Key(c)].attempt + 1, t)
      BY <3>1 DEF Reserving, NoTx
    <3>3. \A row \in tx.rows : row.line \in ChargedLines(c)
      BY <3>2 DEF Rows, ChargedLines
    <3>4. tx.by # <<>>
      BY <3>2
    <3> QED
      BY <2>1, <3>3, <3>4 DEF NewRows
  <2> QED
    BY <2>2, <2>3, OnlyReservationsAreStamped
<1> QED
  BY <1>3, <1>4

(* A step that reserves nothing. *)
Calm(c) ==
    /\ \A k \in Keys : effects'[k].state = "reserved" => effects[k].state = "reserved"
    /\ doubt'[c] = doubt[c] \/ doubt'[c].by = <<>>

LEMMA CalmRead ==
    ASSUME NEW c, UNCHANGED <<effects, doubt>>
    PROVE  Calm(c)
  BY DEF Calm

LEMMA CalmCommit ==
    ASSUME PostgresInv, NEW c \in Clients, NEW tx, NEW next, Commit(c, tx, next), tx.by = <<>>,
           tx.key # NoKey => tx.record.state # "reserved"
    PROVE  Calm(c)
<1>1. effects \in [Keys -> EffectRecord] /\ doubt \in [Clients -> Transaction]
  BY DEF PostgresInv, PostgresTypeOK, TypeOK
<1>2. CASE Lands(tx) /\ UNCHANGED doubt
  BY <1>1, <1>2 DEF Lands, Calm
<1>3. CASE UNCHANGED <<vars, doubt>>
  BY <1>3, CalmRead DEF vars
<1>4. CASE doubt' = [doubt EXCEPT ![c] = tx] /\ UNCHANGED vars
  BY <1>1, <1>4 DEF Calm, vars
<1> QED
  BY <1>2, <1>3, <1>4 DEF Commit

LEMMA CalmTurn ==
    ASSUME PostgresInv, NEW c \in Clients, ClientStep(c) \/ Breaks(c)
    PROVE  Calm(c) \/ WriteReservation(c)
<1>1. PICK x \in ClientRecord : x = clients[c] /\ Knows(c, x) /\ InPlace(c, x)
  BY Situation
<1>2. Reads(c) \/ Refused(c) => Calm(c)
  BY CalmRead DEF Reads, Refused, vars
<1>3. ASSUME NEW tx, NEW next, Commit(c, tx, next), tx.key = NoKey, tx.by = <<>> PROVE Calm(c)
  BY <1>3, CalmCommit
<1>4. ASSUME NEW s, s # "reserved" PROVE Transitioned(x.record, s).state # "reserved"
  <2>1. x.record \in EffectRecord
    BY DEF ClientRecord
  <2> QED
    BY <1>4, <2>1 DEF Transitioned, EffectRecord
<1>5. CASE Ambiguate(c)
  <2>1. CASE Refused(c)
    BY <1>2, <2>1
  <2>2. CASE ~Refused(c)
    <3>1. PICK tx, next : /\ Commit(c, tx, next)
                          /\ tx = [NoTx EXCEPT !.key = Key(c), !.record = Transitioned(x.record, "ambiguous")]
      BY <1>1, <1>5, <2>2 DEF Ambiguate
    <3>2. tx.by = <<>> /\ tx.record.state # "reserved"
      BY <1>4, <3>1 DEF NoTx
    <3> QED
      BY <3>1, <3>2, CalmCommit
  <2> QED
    BY <2>1, <2>2
<1>6. CASE WriteTransition(c)
  <2>1. CASE Misses(c, "missed")
    BY <1>2, <2>1 DEF Misses
  <2>2. CASE ~Misses(c, "missed")
    <3>1. PICK tx, next : /\ Commit(c, tx, next)
                          /\ tx = [NoTx EXCEPT !.key = Key(c), !.record = Transitioned(x.record, x.stage),
                                               !.release = x.stage = "failed"]
      BY <1>1, <1>6, <2>2 DEF WriteTransition, Stage
    <3>2. x.stage # "reserved"
      BY <1>1, <1>6 DEF WriteTransition, Stage, Transitions
    <3>3. tx.by = <<>> /\ tx.record.state # "reserved"
      BY <1>4, <3>1, <3>2 DEF NoTx
    <3> QED
      BY <3>1, <3>3, CalmCommit
  <2> QED
    BY <2>1, <2>2
<1>7. CASE WriteHold(c)
  <2>1. CASE Refused(c)
    BY <1>2, <2>1
  <2>2. CASE ~Refused(c)
    <3>1. PICK tx, next, tok :
             /\ Commit(c, tx, next)
             /\ tx = [NoTx EXCEPT !.key = Key(c),
                         !.record = [x.record EXCEPT !.lease = x.at + SuspendTimeout],
                         !.cont = Key(c), !.value = tok]
      BY <1>1, <1>7, <2>2 DEF WriteHold
    <3>2. x.record \in EffectRecord /\ x.record.state = "executing"
      BY <1>1, <1>7 DEF WriteHold, At, Stage, Knows, KnowsRecord, HeldIn, ClientRecord
    <3>3. tx.by = <<>> /\ tx.record.state # "reserved"
      BY <3>1, <3>2 DEF NoTx, EffectRecord
    <3> QED
      BY <3>1, <3>3, CalmCommit
  <2> QED
    BY <2>1, <2>2
<1>8. CASE WriteResolution(c)
  <2>1. CASE Refused(c)
    BY <1>2, <2>1
  <2>2. CASE ~Refused(c)
    <3>0. PICK s \in Resolutions :
             Commit(c, [NoTx EXCEPT !.key = Key(c),
                           !.record = [Transitioned(x.record, s) EXCEPT !.resolvedBy = "human"],
                           !.release = s = "failed"], Proceed(c))
      BY <1>1, <1>8, <2>2 DEF WriteResolution
    <3>1. PICK tx, next :
             /\ Commit(c, tx, next)
             /\ tx = [NoTx EXCEPT !.key = Key(c),
                         !.record = [Transitioned(x.record, s) EXCEPT !.resolvedBy = "human"],
                         !.release = s = "failed"]
      BY <3>0
    <3>2. x.record \in EffectRecord /\ s # "reserved"
      BY <1>1 DEF ClientRecord, Resolutions
    <3>3. [Transitioned(x.record, s) EXCEPT !.resolvedBy = "human"].state # "reserved"
      BY <3>2 DEF Transitioned, EffectRecord
    <3>4. tx.by = <<>> /\ tx.record.state # "reserved"
      BY <3>1, <3>3 DEF NoTx
    <3> QED
      BY <3>1, <3>4, CalmCommit
  <2> QED
    BY <2>1, <2>2
<1>9. CASE Expire(c)
  <2>1. CASE Refused(c)
    BY <1>2, <2>1
  <2>2. CASE ~Refused(c)
    <3>1. PICK tx, next, r : Commit(c, tx, next) /\ tx = [NoTx EXCEPT !.id = Request(c), !.request = r]
      BY <1>9, <2>2 DEF Expire
    <3>2. tx.by = <<>> /\ tx.key = NoKey
      BY <3>1 DEF NoTx
    <3> QED
      BY <1>3, <3>1, <3>2
  <2> QED
    BY <2>1, <2>2
<1>10. CASE WriteTake(c)
  <2>1. CASE Refused(c)
    BY <1>2, <2>1
  <2>2. CASE ~Refused(c)
    <3>1. PICK tx, next : Commit(c, tx, next) /\ tx = [NoTx EXCEPT !.cont = Key(c)]
      BY <1>10, <2>2 DEF WriteTake
    <3>2. tx.by = <<>> /\ tx.key = NoKey
      BY <3>1 DEF NoTx
    <3> QED
      BY <1>3, <3>1, <3>2
  <2> QED
    BY <2>1, <2>2
<1>11. CASE WriteGrant(c) \/ WriteDenial(c)
  <2>1. CASE Refused(c) \/ Reads(c)
    BY <1>2, <2>1
  <2>2. CASE ~Refused(c) /\ ~Reads(c)
    <3>1. PICK tx, next, status : Commit(c, tx, next) /\ tx = Answered(c, status)
      BY <1>11, <2>2 DEF WriteGrant, WriteDenial
    <3>2. tx.by = <<>> /\ tx.key = NoKey
      BY <3>1 DEF NoTx, Answered
    <3> QED
      BY <1>3, <3>1, <3>2
  <2> QED
    BY <2>1, <2>2
<1>12. CASE Price(c)
  BY <1>2, <1>12, CalmRead DEF Price, Misses, vars
<1>13. CASE RunStep(c)
  BY <1>2, <1>5, <1>6, <1>7, <1>12, <1>13 DEF RunStep, OpenReservation, NotConsumable, PlanReservation,
      ResolveLostReservation, ReadForTransition, Restage, ResolveLostUpdate, ExecutorEnds, ReadForHold
<1>14. CASE OtherStep(c)
  BY <1>2, <1>8, <1>9, <1>10, <1>11, <1>14 DEF OtherStep, RaiseAmbiguousWrite, ReadContinuation,
      ReadForAnswer, ReadForResolution
<1> QED
  BY <1>2, <1>13, <1>14 DEF ClientStep, Breaks

LEMMA WritesNext ==
    ASSUME PostgresInv, NEW c \in Clients
    PROVE  /\ \A pc \in Pcs : Goto(c, pc) => clients'[c].pc = pc
           /\ Refused(c) => clients'[c].pc = "refused"
           /\ \A tx : Commit(c, tx, Proceed(c)) => clients'[c].pc # "write"
           /\ \A tx : Commit(c, tx, [Forget(clients[c]) EXCEPT !.pc = "refused"]) => clients'[c].pc # "write"
           /\ \A stage \in Stages : clients' = [clients EXCEPT ![c] = Enter(c, stage)] => clients'[c].pc # "write"
           /\ Reissue(c) => clients'[c].pc # "write"
<1>1. PICK x \in ClientRecord : x = clients[c] /\ InPlace(c, x)
  BY Situation
<1>2. clients \in [Clients -> ClientRecord]
  BY DEF PostgresInv, PostgresTypeOK
<1>3. ASSUME NEW pc \in Pcs, Goto(c, pc) PROVE clients'[c].pc = pc
  BY <1>1, <1>2, <1>3 DEF Goto, ClientRecord
<1>4. [Forget(x) EXCEPT !.pc = "refused"].pc = "refused"
  BY <1>1, Resets
<1>5. End(c, "refused") => clients'[c].pc = "refused"
  BY <1>1, <1>2, <1>4 DEF End
<1>6. ASSUME NEW tx, NEW next, Commit(c, tx, next), next.pc # "write" PROVE clients'[c].pc # "write"
  BY <1>2, <1>3, <1>5, <1>6 DEF Commit, Pcs
<1>7. Proceed(c).pc # "write"
  BY ProceedShape DEF Resting
<1>8. ASSUME NEW stage \in Stages, clients' = [clients EXCEPT ![c] = Enter(c, stage)]
      PROVE  clients'[c].pc # "write"
  <2>1. Forget(x) \in ClientRecord
    BY ForgetShape
  <2>2. PICK pc \in {"run", "idle"} : pc = IF stage = "run" THEN "run" ELSE "idle"
    OBVIOUS
  <2>3. [Forget(x) EXCEPT !.stage = stage, !.pc = pc].pc = pc
    BY <2>1 DEF ClientRecord
  <2> QED
    BY <1>1, <1>2, <1>8, <2>2, <2>3 DEF Enter
<1>9. ASSUME Reissue(c) PROVE clients'[c].pc # "write"
  <2>1. Forget(x) \in ClientRecord
    BY ForgetShape
  <2>2. [Forget(x) EXCEPT !.pc = "idle", !.again = TRUE, !.restaged = x.restaged].pc = "idle"
    BY <2>1 DEF ClientRecord
  <2> QED
    BY <1>1, <1>2, <1>9, <2>2 DEF Reissue
<1> QED
  BY <1>1, <1>3, <1>4, <1>5, <1>6, <1>7, <1>8, <1>9 DEF Refused

LEMMA Uncharged ==
    ASSUME NEW c, ChargedLines(c) = {}, NEW t
    PROVE  Affords(c, t)
<1>1. ASSUME NEW b \in Budgets PROVE ~(Cost[Hash(c)][b.line] > 0)
  <2>1. b.line \in Lines
    BY StoreConstants
  <2> QED
    BY <2>1 DEF ChargedLines
<1> QED
  BY <1>1 DEF Affords, Affordable

(* Only a client that has priced its action, or need not, goes on to write a *)
(* reservation.                                                              *)
LEMMA OnlyPricedWrites ==
    ASSUME PostgresInv, NEW c \in Clients, ClientStep(c) \/ Breaks(c),
           clients'[c].pc = "write", clients'[c].stage = "reserve"
    PROVE  /\ UNCHANGED <<vars, doubt, anchors>>
           /\ Affords(c, clients'[c].at)
           /\ ChargedLines(c) # {} => doubt[c] = NoTx
<1>1. PICK x, y : x = clients[c] /\ y = clients'[c] /\ x \in ClientRecord /\ InPlace(c, x)
  BY Situation
<1>2. clients \in [Clients -> ClientRecord]
  BY DEF PostgresInv, PostgresTypeOK
<1>3. /\ ~Refused(c) /\ ~Reissue(c) /\ ~(\E tx : Commit(c, tx, Proceed(c)))
      /\ ~(\E tx : Commit(c, tx, [Forget(x) EXCEPT !.pc = "refused"]))
      /\ ~(\E pc \in Pcs \ {"write"} : Goto(c, pc))
      /\ ~(\E stage \in Stages : clients' = [clients EXCEPT ![c] = Enter(c, stage)])
  BY <1>1, WritesNext
<1>4. clients' # [clients EXCEPT ![c] = Proceed(c)] /\ ~End(c, "refused")
  <2>1. Proceed(c).pc # "write"
    BY ProceedShape DEF Resting
  <2>2. [Forget(x) EXCEPT !.pc = "refused"].pc = "refused"
    BY <1>1, Resets
  <2> QED
    BY <1>1, <1>2, <2>1, <2>2 DEF End
<1>5. CASE PlanReservation(c)
  <2>1. PICK pc \in {"price", "write", "ambiguate"} :
           /\ clients' = [clients EXCEPT ![c].pc = pc, ![c].record = effects[Key(c)]] /\ Reads(c)
           /\ pc = "write" => ~\E l \in Lines : Cost[Hash(c)][l] > 0
    BY <1>3, <1>5 DEF PlanReservation
  <2>2. y = [x EXCEPT !.pc = pc, !.record = effects[Key(c)]]
    BY <1>1, <1>2, <2>1
  <2>3. y.pc = pc
    BY <1>1, <2>1, <2>2 DEF ClientRecord
  <2>4. ChargedLines(c) = {}
    BY <1>1, <2>1, <2>3 DEF ChargedLines
  <2> QED
    BY <2>1, <2>4, Uncharged DEF Reads
<1>6. CASE Price(c)
  <2>1. CASE UNCHANGED clients
    BY <1>1, <1>6, <2>1 DEF Price, At
  <2>2. CASE Unlocked(c) = {} /\ Affordable(Hash(c), x.at) /\ Misses(c, "write") /\ doubt[c] = NoTx
    <3>1. y.at = x.at
      BY <1>1, <1>2, <2>2 DEF Misses, Goto, ClientRecord
    <3>2. \A l \in ChargedLines(c) : c \in anchors[l]
      BY <2>2 DEF Unlocked
    <3> QED
      BY <1>1, <2>2, <3>1, <3>2 DEF Affords, Misses, Reads
  <2> QED
    BY <1>1, <1>3, <1>6, <2>1, <2>2 DEF Price
<1>7. CASE ReadForTransition(c) \/ ReadForHold(c)
  <2>1. PICK at, record : clients' = [clients EXCEPT ![c] = [x EXCEPT !.pc = "write", !.at = at, !.record = record]]
    <3>1. CASE ReadForTransition(c)
      <4>1. clients' = [clients EXCEPT ![c].pc = "write", ![c].record = effects[Key(c)]]
        BY <1>3, <3>1 DEF ReadForTransition
      <4>2. clients' = [clients EXCEPT ![c] = [x EXCEPT !.pc = "write", !.record = effects[Key(c)]]]
        BY <1>1, <1>2, <4>1
      <4>3. [x EXCEPT !.pc = "write", !.record = effects[Key(c)]]
            = [x EXCEPT !.pc = "write", !.at = x.at, !.record = effects[Key(c)]]
        BY <1>1 DEF ClientRecord
      <4> QED
        BY <4>2, <4>3
    <3>2. CASE ReadForHold(c)
      <4>1. clients' = [clients EXCEPT ![c].pc = "write", ![c].at = now, ![c].record = effects[Key(c)]]
        BY <1>3, <3>2 DEF ReadForHold
      <4> QED
        BY <1>1, <1>2, <4>1
    <3> QED
      BY <1>7, <3>1, <3>2
  <2>2. y.stage = x.stage
    BY <1>1, <1>2, <2>1 DEF ClientRecord
  <2> QED
    BY <1>1, <1>7, <2>2 DEF ReadForTransition, ReadForHold, Stage, Transitions
<1>8. CASE ReadContinuation(c) \/ ReadForAnswer(c) \/ ReadForResolution(c)
  <2>1. x.stage = "once"
    BY <1>1, <1>8 DEF InPlace, ReadContinuation, ReadForAnswer, ReadForResolution, Runs
  <2>2. y.stage = x.stage
    <3>1. CASE ReadContinuation(c)
      <4>1. clients' = [clients EXCEPT ![c].pc = "write", ![c].value = continuations[Key(c)].token]
        BY <1>3, <3>1 DEF ReadContinuation
      <4> QED
        BY <1>1, <1>2, <4>1 DEF ClientRecord
    <3>2. CASE ReadForAnswer(c)
      <4>1. PICK pc : clients' = [clients EXCEPT ![c].pc = pc, ![c].request = approvals[Request(c)]]
        BY <1>3, <3>2 DEF ReadForAnswer
      <4> QED
        BY <1>1, <1>2, <4>1 DEF ClientRecord
    <3>3. CASE ReadForResolution(c)
      <4>1. clients' = [clients EXCEPT ![c].pc = "write", ![c].record = effects[Key(c)]]
        BY <1>3, <3>3 DEF ReadForResolution
      <4> QED
        BY <1>1, <1>2, <4>1 DEF ClientRecord
    <3> QED
      BY <1>8, <3>1, <3>2, <3>3
  <2> QED
    BY <1>1, <2>1, <2>2
<1>9. CASE OpenReservation(c)
  <2>1. PICK pc \in {"plan", "expire"} : \E at, request :
           \/ clients' = [clients EXCEPT ![c].pc = pc, ![c].at = at]
           \/ clients' = [clients EXCEPT ![c].pc = pc, ![c].request = request]
    BY <1>9 DEF OpenReservation
  <2>2. y.pc = pc
    BY <1>1, <1>2, <2>1 DEF ClientRecord
  <2> QED
    BY <1>1, <2>2
<1>10. CASE Restage(c)
  <2>1. clients' = [clients EXCEPT ![c] = [Forget(x) EXCEPT !.pc = "idle", !.restaged = TRUE, !.again = x.again]]
    BY <1>1, <1>3, <1>10 DEF Restage
  <2>2. Forget(x) \in ClientRecord
    BY <1>1, ForgetShape
  <2>3. y.pc = "idle"
    BY <1>1, <1>2, <2>1, <2>2 DEF ClientRecord
  <2> QED
    BY <1>1, <2>3
<1>11. CASE WriteGrant(c)
  <2>1. clients' = [clients EXCEPT ![c] = [Forget(x) EXCEPT !.pc = "idle", !.tries = x.tries + 1]]
    BY <1>1, <1>3, <1>11 DEF WriteGrant
  <2>2. Forget(x) \in ClientRecord
    BY <1>1, ForgetShape
  <2>3. y.pc = "idle"
    BY <1>1, <1>2, <2>1, <2>2 DEF ClientRecord
  <2> QED
    BY <1>1, <2>3
<1>12. CASE RunStep(c)
  <2>1. CASE \/ NotConsumable(c) \/ Ambiguate(c) \/ WriteReservation(c) \/ ResolveLostReservation(c)
             \/ WriteTransition(c) \/ ResolveLostUpdate(c) \/ WriteHold(c)
    BY <1>1, <1>3, <1>4, <2>1 DEF NotConsumable, Ambiguate, WriteReservation, ResolveLostReservation,
       WriteTransition, ResolveLostUpdate, WriteHold, Misses, Pcs
  <2>2. CASE \E stage \in Resolutions \cup {"ambiguous", "hold"} : ExecutorEnds(c, stage)
    BY <1>3, <2>2 DEF ExecutorEnds, Resolutions, Stages
  <2> QED
    BY <1>5, <1>6, <1>7, <1>9, <1>10, <1>12, <2>1, <2>2 DEF RunStep
<1>13. CASE OtherStep(c)
  BY <1>1, <1>3, <1>4, <1>8, <1>11, <1>13 DEF OtherStep, Expire, RaiseAmbiguousWrite, WriteTake,
     WriteDenial, WriteResolution
<1> QED
  BY <1>3, <1>12, <1>13 DEF ClientStep, Breaks

-----------------------------------------------------------------------------
(* What lands is a transaction of the serialized store *)

StoreStep ==
    \/ Next
    \/ \E k \in Keys : LateHold(k) \/ LateTake(k)
    \/ \E id \in Approvals : LateDenial(id)

(* A record that was ever taken names its holder. *)
Named == \A k \in Keys : effects[k].state # "new" => effects[k].action \in Actions

(* The bound of the store on the attempts of a key. *)
AttemptsBounded == \A k \in Keys : effects[k].attempt <= MaxAttempt

LEMMA ReservingLands ==
    ASSUME PostgresInv, ChargesFollowEffects, now <= MaxTime, MaxTime <= ClockLag,
           NEW c \in Clients, NEW tx, Lands(tx), AttemptsBounded',
           NEW t \in 0..now, NEW b \in BOOLEAN, Reserving(c, tx, t, b),
           Affordable(Hash(c), tx.record.lease - Lease)
    PROVE  Next
<1>1. /\ PostgresTypeOK /\ TypeOK /\ now \in Nat /\ t \in Readings /\ t \in Nat
  BY StoreConstants DEF PostgresInv, PostgresTypeOK, TypeOK, Readings
<1>2. /\ Runs(c) /\ Key(c) \in Keys /\ Action(c) \in Actions /\ Hash(c) \in Hashes
      /\ Request(c) \in Approvals \cup {NoApproval} /\ Free(effects[Key(c)])
      /\ Request(c) # NoApproval => Consumable(Request(c), Hash(c), t)
  BY Situation DEF Reserving
<1> DEFINE k == Key(c)
           r == Reserved(effects[k], Action(c), t)
           rows == Rows(Hash(c), k, effects[k].attempt + 1, t)
<1>3. /\ tx.key = k /\ tx.record = r /\ tx.id = Request(c) /\ tx.rows = rows /\ ~tx.release
      /\ tx.cont = NoKey
      /\ Request(c) # NoApproval =>
             tx.request = [approvals[Request(c)] EXCEPT !.status = "consumed"]
  BY DEF Reserving, NoTx
<1>4. PICK n \in Nat : n = effects[k].attempt
  BY <1>1, <1>2 DEF TypeOK, EffectRecord
<1>5. effects' = [effects EXCEPT ![k] = r] /\ ledger' = ledger \cup NewRows(rows)
      /\ continuations' = continuations /\ now' = now
  BY <1>2, <1>3, Nulls DEF Lands
<1>6. n < MaxAttempt
  <2>1. effects'[k].attempt = n + 1
    BY <1>1, <1>2, <1>4, <1>5 DEF Reserved, TypeOK
  <2> QED
    BY <1>2, <1>4, <2>1, StoreConstants DEF AttemptsBounded
<1>7. Affordable(Hash(c), t)
  <2>1. r.lease - Lease = t
    BY <1>1, StoreConstants DEF Reserved
  <2> QED
    BY <1>3, <2>1
<1>8. NewRows(rows) = rows
  <2> SUFFICES ASSUME NEW row \in rows, NEW old \in ledger, old.key = row.key, old.attempt = row.attempt
               PROVE  FALSE
    BY DEF NewRows
  <2>1. row.key = k /\ row.attempt = n + 1
    BY <1>4 DEF Rows
  <2>2. old.attempt \in 1..n
    BY <1>4, <2>1 DEF ChargesFollowEffects
  <2> QED
    BY <1>4, <2>1, <2>2
<1>9. TakeKey(k, Action(c), Hash(c), t)
  BY <1>2, <1>4, <1>5, <1>6, <1>7, <1>8 DEF TakeKey
<1> HIDE DEF k, r, rows
<1>10. CASE Request(c) = NoApproval
  <2>1. approvals' = approvals
    BY <1>3, <1>10 DEF Lands
  <2>2. ReserveEffect(k, Action(c), Hash(c))
    BY <1>1, <1>5, <1>9, <2>1 DEF ReserveEffect
  <2> QED
    BY <1>2, <2>2 DEF Next, HolderStep, k
<1>11. CASE Request(c) # NoApproval
  <2>1. approvals' = [approvals EXCEPT ![Request(c)].status = "consumed"]
    BY <1>1, <1>2, <1>3, <1>11 DEF Lands, TypeOK
  <2>2. ConsumeApprovalAndReserve(Request(c), k, Action(c), Hash(c))
    BY <1>1, <1>2, <1>5, <1>9, <1>11, <2>1 DEF ConsumeApprovalAndReserve
  <2> QED
    BY <1>2, <1>11, <2>2 DEF Next, HolderStep, k
<1> QED
  BY <1>10, <1>11

LEMMA TransitingLands ==
    ASSUME PostgresInv, Named, NEW c \in Clients, NEW tx, Lands(tx),
           NEW s \in Transitions, Transiting(c, tx, s)
    PROVE  Next \/ UNCHANGED vars
<1>1. TypeOK /\ Runs(c) /\ Key(c) \in Keys
  BY Situation DEF PostgresInv, PostgresTypeOK, Transiting
<1>2. PICK k \in Keys : k = Key(c)
  BY <1>1
<1>3. PICK r \in EffectRecord : r = effects[k] /\ r.state \in Expected(s) /\ Agrees(r)
  BY <1>1, <1>2, Situation DEF Transiting
<1>4. /\ tx.key = k /\ tx.record = Transitioned(r, s) /\ tx.release = (s = "failed")
      /\ tx.id = NoApproval /\ tx.cont = NoKey /\ tx.rows = {}
  BY <1>2, <1>3 DEF Transiting, NoTx
<1>5. /\ effects' = [effects EXCEPT ![k] = Transitioned(r, s)] /\ approvals' = approvals
      /\ continuations' = continuations /\ now' = now
      /\ ledger' = IF s = "failed" THEN ReleasedFor(k) ELSE ledger
  <2>1. NewRows({}) = {}
    BY DEF NewRows
  <2> QED
    BY <1>2, <1>4, <2>1, Nulls DEF Lands
<1>6. r.state # "new" /\ r.action \in Actions
  <2>1. r.state # "new"
    BY <1>3 DEF Expected, Transitions, Resolutions, Unfinished
  <2> QED
    BY <1>3, <2>1 DEF Named
<1>7. PICK a \in Actions : a = r.action
  BY <1>6
<1>8. CASE s = "executing"
  <2>1. BeginExecution(k, a)
    BY <1>3, <1>5, <1>7, <1>8 DEF BeginExecution, HeldIn, Expected, Resolutions
  <2> QED
    BY <2>1 DEF Next, HolderStep
<1>9. CASE s = "committed"
  <2>1. CommitEffect(k, a)
    BY <1>3, <1>5, <1>7, <1>9 DEF CommitEffect, HeldIn, Expected, Resolutions
  <2> QED
    BY <2>1 DEF Next, HolderStep
<1>10. CASE s = "failed"
  <2>1. FailEffect(k, a)
    BY <1>3, <1>5, <1>7, <1>10 DEF FailEffect, HeldIn, Expected, Resolutions
  <2> QED
    BY <2>1 DEF Next, HolderStep
<1>11. CASE s = "ambiguous"
  <2>1. r.state \in Unfinished \cup {"ambiguous"}
    BY <1>3, <1>11 DEF Expected, Resolutions
  <2>2. CASE r.state \in Unfinished
    <3>1. MarkAmbiguous(k, a)
      BY <1>3, <1>5, <1>7, <1>11, <2>2 DEF MarkAmbiguous, HeldIn
    <3> QED
      BY <3>1 DEF Next, HolderStep
  <2>3. CASE r.state = "ambiguous"
    <3>1. r.lease = NoLease
      BY <1>3, <2>3 DEF Agrees, Unfinished
    <3>2. Transitioned(r, "ambiguous") = r
      BY <1>3, <2>3, <3>1 DEF Transitioned, EffectRecord
    <3>3. effects' = effects
      BY <1>1, <1>3, <1>5, <1>11, <3>2 DEF TypeOK
    <3> QED
      BY <1>5, <1>11, <3>3 DEF vars
  <2> QED
    BY <2>1, <2>2, <2>3
<1> QED
  BY <1>8, <1>9, <1>10, <1>11 DEF Transitions

LEMMA OthersLand ==
    ASSUME PostgresInv, now <= MaxTime, MaxTime <= ClockLag,
           NEW c \in Clients, NEW tx, Lands(tx), Lawful(c, tx)
    PROVE  \/ StoreStep
           \/ \E t \in 0..now, b \in BOOLEAN : Reserving(c, tx, t, b)
           \/ \E s \in Transitions : Transiting(c, tx, s)
<1>1. TypeOK /\ now \in Nat /\ \A t \in 0..now : t \in Readings
  BY StoreConstants DEF PostgresInv, PostgresTypeOK, TypeOK, Readings
<1>2. NewRows({}) = {}
  BY DEF NewRows
<1>3. \A id \in Approvals : approvals[id] \in ApprovalRecord
  BY Situation
<1>4. ASSUME NEW s \in Resolutions, Resolving(c, tx, s) PROVE StoreStep
  <2>1. PICK k \in Keys : k = Key(c)
    BY <1>4, Situation DEF Resolving
  <2>2. /\ effects[k].state = "ambiguous" /\ tx.key = k /\ tx.release = (s = "failed")
        /\ tx.record = [Transitioned(effects[k], s) EXCEPT !.resolvedBy = "human"]
        /\ tx.id = NoApproval /\ tx.cont = NoKey /\ tx.rows = {}
    BY <1>4, <2>1 DEF Resolving, NoTx
  <2>3. ResolveEffect(k, s, "human")
    BY <1>2, <2>1, <2>2, Nulls DEF Lands, ResolveEffect
  <2> QED
    BY <2>1, <2>3 DEF StoreStep, Next, KeyStep, Resolvers
<1>5. ASSUME NEW t \in 0..now, NEW tok \in Tokens, Holding(c, tx, t, tok) PROVE StoreStep
  <2>1. PICK k \in Keys : k = Key(c)
    BY <1>5, Situation DEF Holding
  <2>2. PICK r \in EffectRecord : r = effects[k]
    BY <1>1 DEF TypeOK
  <2>3. /\ r.state = "executing" /\ tx.key = k /\ ~tx.release /\ tx.id = NoApproval /\ tx.rows = {}
        /\ tx.record = [r EXCEPT !.lease = t + SuspendTimeout] /\ tx.cont = k /\ tx.value = tok
    BY <1>5, <2>1, <2>2 DEF Holding, NoTx
  <2>4. tx.record.action = r.action
    BY <2>2, <2>3 DEF EffectRecord
  <2>5. effects' = [effects EXCEPT ![k].lease = t + SuspendTimeout]
    BY <1>1, <2>1, <2>2, <2>3, Nulls DEF Lands, TypeOK
  <2>6. continuations' = [continuations EXCEPT ![k] = [token |-> tok, action |-> r.action]]
    <3>1. PICK q \in Continuation : q = continuations[k]
      BY <1>1 DEF TypeOK
    <3>2. [q EXCEPT !.token = tok, !.action = r.action] = [token |-> tok, action |-> r.action]
      <4>1. PICK new, other : /\ new = [q EXCEPT !.token = tok, !.action = r.action]
                              /\ other = [token |-> tok, action |-> r.action]
        OBVIOUS
      <4>2. new \in Continuation /\ new.token = tok /\ new.action = r.action
        BY <2>2, <3>1, <4>1 DEF Continuation, EffectRecord
      <4>3. other \in Continuation /\ other.token = tok /\ other.action = r.action
        BY <2>2, <4>1 DEF Continuation, EffectRecord
      <4>4. new = other
        BY <4>2, <4>3 DEF Continuation
      <4> QED
        BY <4>1, <4>4
    <3>3. continuations' = [continuations EXCEPT ![k].token = tok, ![k].action = r.action]
      BY <2>1, <2>3, <2>4, Nulls DEF Lands
    <3> QED
      BY <1>1, <3>1, <3>2, <3>3 DEF TypeOK
  <2>7. approvals' = approvals /\ ledger' = ledger /\ now' = now
    BY <1>2, <2>3 DEF Lands
  <2>8. LateHold(k)
    BY <2>2, <2>3, <2>5, <2>6, <2>7 DEF LateHold
  <2> QED
    BY <2>8 DEF StoreStep
<1>6. CASE Taking(c, tx)
  <2>1. PICK k \in Keys : k = Key(c)
    BY <1>6, Situation DEF Taking
  <2>2. /\ tx.key = NoKey /\ ~tx.release /\ tx.id = NoApproval /\ tx.rows = {} /\ tx.cont = k
        /\ tx.value = NoToken
    BY <1>6, <2>1 DEF Taking, NoTx
  <2>3. continuations' = [continuations EXCEPT ![k].token = NoToken]
    BY <1>1, <2>1, <2>2, Nulls DEF Lands, TypeOK, Continuation
  <2>4. LateTake(k)
    BY <1>2, <2>2, <2>3 DEF Lands, LateTake
  <2> QED
    BY <2>4 DEF StoreStep
<1>7. ASSUME NEW id \in Approvals, NEW q, tx = [NoTx EXCEPT !.id = id, !.request = q]
      PROVE  approvals' = [approvals EXCEPT ![id] = q]
             /\ UNCHANGED <<effects, ledger, continuations, now>>
  <2>1. /\ tx.key = NoKey /\ ~tx.release /\ tx.id = id /\ tx.rows = {} /\ tx.cont = NoKey
        /\ tx.request = q
    BY <1>7 DEF NoTx
  <2> QED
    BY <1>2, <2>1, Nulls DEF Lands
<1>8. CASE Granting(c, tx)
  <2>1. PICK id \in Approvals, who \in Principals \cup {Nobody} : id = Request(c) /\ who = jobs[c].who
    BY <1>8, Situation DEF Granting
  <2>2. PICK r \in ApprovalRecord : r = approvals[id] /\ r.status = "pending"
    BY <1>3, <1>8, <2>1 DEF Granting
  <2>3. /\ approvals' = [approvals EXCEPT ![id] = [r EXCEPT !.answers = AnswersWith(r, who),
                            !.status = IF Reached(r, who) THEN "granted" ELSE "pending"]]
        /\ UNCHANGED <<effects, ledger, continuations, now>>
    BY <1>7, <1>8, <2>1, <2>2 DEF Granting
  <2>4. Answerable(id, 0) /\ 0 \in Readings
    BY <1>1, <2>2 DEF Answerable, ApprovalRecord
  <2>5. GrantApproval(id, who)
    BY <2>2, <2>3, <2>4 DEF GrantApproval
  <2> QED
    BY <2>1, <2>5 DEF StoreStep, Next, ApprovalStep
<1>9. ASSUME NEW answers \in SUBSET Principals, Denying(c, tx, answers) PROVE StoreStep
  <2>1. PICK id \in Approvals : id = Request(c) /\ approvals[id].status = "pending"
    BY <1>9, Situation DEF Denying
  <2>2. PICK r \in ApprovalRecord : r = approvals[id]
    BY <1>3
  <2>3. /\ approvals' = [approvals EXCEPT ![id] = [r EXCEPT !.answers = answers, !.status = "denied"]]
        /\ UNCHANGED <<effects, ledger, continuations, now>>
    BY <1>7, <1>9, <2>1, <2>2 DEF Denying
  <2>4. approvals' = [approvals EXCEPT ![id].status = "denied", ![id].answers = answers]
    <3>1. [r EXCEPT !.answers = answers, !.status = "denied"]
          = [r EXCEPT !.status = "denied", !.answers = answers]
      BY <2>2 DEF ApprovalRecord
    <3> QED
      BY <1>1, <2>2, <2>3, <3>1 DEF TypeOK
  <2>5. LateDenial(id)
    BY <2>1, <2>3, <2>4 DEF LateDenial
  <2> QED
    BY <2>5 DEF StoreStep
<1>10. CASE Expiring(c, tx)
  <2>1. PICK id \in Approvals : id = Request(c)
    BY <1>10 DEF Expiring
  <2>2. PICK r \in ApprovalRecord :
           /\ r = approvals[id] /\ r.status \in {"pending", "granted"} /\ r.hash \in Hashes
           /\ now > r.expires
    BY <1>3, <1>10, <2>1 DEF Expiring
  <2>3. /\ approvals' = [approvals EXCEPT ![id] = [r EXCEPT !.status = "expired"]]
        /\ UNCHANGED <<effects, ledger, continuations, now>>
    BY <1>7, <1>10, <2>1, <2>2 DEF Expiring
  <2>4. approvals' = [approvals EXCEPT ![id].status = "expired"]
    BY <1>1, <2>2, <2>3 DEF TypeOK
  <2>5. now \in Readings
    BY <1>1
  <2>6. ExpireApproval(id)
    BY <2>2, <2>3, <2>4, <2>5 DEF ExpireApproval, Overdue, GrantedFor
  <2> QED
    BY <2>6 DEF StoreStep, Next, ApprovalStep
<1> QED
  BY <1>4, <1>5, <1>6, <1>8, <1>9, <1>10 DEF Lawful

-----------------------------------------------------------------------------
(* The anchors keep the sums *)

BudgetInv ==
    /\ PostgresInv /\ ChargesFollowEffects /\ Countable /\ WithinBudget /\ Named
    /\ now <= MaxTime /\ OneAtAnAnchor
    /\ \A c \in Clients : Priced(c)

LEMMA AffordsKept ==
    ASSUME BudgetInv, NEW c \in Clients, Runs(c), NEW t, Affords(c, t), jobs' = jobs,
           \A l \in ChargedLines(c) : c \in anchors'[l],
           \A row \in ledger' : row.held /\ row.line \in ChargedLines(c) => row \in ledger
    PROVE  Affords(c, t)'
<1>1. Hash(c)' = Hash(c) /\ ChargedLines(c)' = ChargedLines(c) /\ Hash(c) \in Hashes
  BY SameJobs, Situation DEF Hash, BudgetInv
<1>2. PICK h \in Hashes : h = Hash(c)
  BY <1>1
<1>3. ASSUME NEW b \in Budgets, Cost[h][b.line] > 0
      PROVE  Spent(b.line, t - b.window)' + Cost[h][b.line] <= b.limit
  <2>1. /\ b.line \in Lines /\ b.limit \in Nat /\ Cost[h][b.line] \in Nat
        /\ b.line \in ChargedLines(c)
    BY <1>2, <1>3, StoreConstants DEF ChargedLines
  <2> DEFINE R == HeldRows(b.line, t - b.window)'
             S == HeldRows(b.line, t - b.window)
  <2>2. R \subseteq S
    BY <2>1 DEF HeldRows
  <2>3. IsFiniteSet(Units(S))
    <3>1. S \subseteq HeldOn(b.line)
      BY DEF HeldRows, HeldOn
    <3> QED
      BY <2>1, <3>1, FewerUnits, FS_Subset DEF Countable, BudgetInv
  <2>4. IsFiniteSet(Units(R)) /\ Cardinality(Units(R)) <= Cardinality(Units(S))
    BY <2>2, <2>3, FewerUnits, FS_Subset
  <2>5. Cardinality(Units(S)) \in Nat /\ Cardinality(Units(R)) \in Nat
    BY <2>3, <2>4, FS_CardinalityType
  <2>6. Cardinality(Units(S)) + Cost[h][b.line] <= b.limit
    BY <1>2, <1>3 DEF Affords, Affordable, Spent
  <2>7. Spent(b.line, t - b.window)' = Cardinality(Units(R))
    BY DEF Spent
  <2> QED
    BY <2>1, <2>4, <2>5, <2>6, <2>7
<1>4. Affordable(h, t)'
  BY <1>3 DEF Affordable
<1> QED
  BY <1>1, <1>2, <1>4 DEF Affords

(* Locking and giving back one's own anchors leaves those of the others. *)
LEMMA AnchorsStayOne ==
    ASSUME BudgetInv, NEW e \in Clients, AnchorsMove(e)
    PROVE  /\ OneAtAnAnchor'
           /\ \A d \in Clients \ {e}, l \in Lines : d \in anchors[l] => d \in anchors'[l]
<1>1. anchors \in [Lines -> SUBSET Clients] /\ OneAtAnAnchor
  BY DEF BudgetInv, PostgresInv, PostgresTypeOK
<1>2. CASE anchors' = anchors
  BY <1>1, <1>2 DEF OneAtAnAnchor
<1>3. CASE anchors' = [l \in Lines |-> anchors[l] \ {e}]
  BY <1>1, <1>3 DEF OneAtAnAnchor
<1>4. CASE LockNextAnchor(e)
  <2>1. PICK l \in Lines : anchors[l] = {} /\ anchors' = [anchors EXCEPT ![l] = {e}]
    BY <1>4 DEF LockNextAnchor, Unlocked, ChargedLines
  <2>2. \A m \in Lines : anchors'[m] = IF m = l THEN {e} ELSE anchors[m]
    BY <1>1, <2>1
  <2> QED
    BY <1>1, <2>1, <2>2 DEF OneAtAnAnchor
<1> QED
  BY <1>2, <1>3, <1>4 DEF AnchorsMove

(* What is added to the ledger is on lines that e has locked. *)
Adds(e) ==
    \/ HoldsNoMore
    \/ /\ \A row \in ledger' : row.held => row \in ledger \/ row.line \in ChargedLines(e)
       /\ \A l \in ChargedLines(e) : e \in anchors[l]

LEMMA PricedRuns ==
    ASSUME PostgresInv, NEW c \in Clients
    PROVE  /\ clients[c].pc = "write" /\ clients[c].stage = "reserve" => Runs(c)
           /\ doubt[c].by # <<>> =>
                  Runs(c) /\ doubt[c].key = Key(c) /\ doubt[c] # NoTx /\ Key(c) \in Keys
<1>1. clients[c].pc = "write" /\ clients[c].stage = "reserve" => Runs(c)
  BY Situation DEF InPlace
<1>2. ASSUME doubt[c].by # <<>>
      PROVE  Runs(c) /\ doubt[c].key = Key(c) /\ doubt[c] # NoTx /\ Key(c) \in Keys
  <2>1. PICK tx : tx = doubt[c]
    OBVIOUS
  <2>2. tx # NoTx
    BY <1>2, <2>1 DEF NoTx
  <2>3. Lawful(c, tx)
    BY <2>1, <2>2 DEF PostgresInv, Doubtful
  <2>4. PICK t \in 0..now, b \in BOOLEAN : Reserving(c, tx, t, b)
    BY <1>2, <2>1, <2>3, OnlyReservationsAreStamped
  <2>5. Runs(c) /\ tx.key = Key(c)
    BY <2>4 DEF Reserving, NoTx
  <2> QED
    BY <2>1, <2>2, <2>5, Situation
<1> QED
  BY <1>1, <1>2

LEMMA OthersKeep ==
    ASSUME BudgetInv, NEW e \in Clients, NEW d \in Clients \ {e}, AnchorsMove(e), Adds(e),
           jobs' = jobs, clients'[d] = clients[d], doubt'[d] = doubt[d]
    PROVE  Priced(d)'
<1>1. PostgresInv /\ Priced(d) /\ ChargedLines(d)' = ChargedLines(d)
  BY SameJobs DEF BudgetInv
<1>2. ASSUME Runs(d), NEW t, Affords(d, t) PROVE Affords(d, t)'
  <2>1. \A l \in ChargedLines(d) : d \in anchors[l] /\ l \in Lines
    BY <1>2 DEF Affords, ChargedLines
  <2>2. \A l \in ChargedLines(d) : d \in anchors'[l]
    BY <2>1, AnchorsStayOne
  <2>3. ASSUME NEW row \in ledger', row.held, row.line \in ChargedLines(d) PROVE row \in ledger
    <3>1. ~(e \in anchors[row.line])
      BY <2>1, <2>3 DEF BudgetInv, OneAtAnAnchor
    <3> QED
      BY <2>3, <3>1 DEF Adds, HoldsNoMore
  <2> QED
    BY <1>2, <2>2, <2>3, AffordsKept
<1>3. PICK x, tx : x = clients[d] /\ tx = doubt[d]
  OBVIOUS
<1>4. x.pc = "write" /\ x.stage = "reserve" =>
          /\ Affords(d, x.at)'
          /\ ChargedLines(d) # {} => tx = NoTx
  BY <1>1, <1>2, <1>3, PricedRuns DEF Priced
<1>5. tx.by # <<>> => Affords(d, tx.record.lease - Lease)'
  BY <1>1, <1>2, <1>3, PricedRuns DEF Priced
<1>6. clients'[d] = x /\ doubt'[d] = tx
  BY <1>3
<1> QED
  BY <1>1, <1>4, <1>5, <1>6 DEF Priced

LEMMA LandsImplements ==
    ASSUME BudgetInv, MaxTime <= ClockLag, AttemptsBounded',
           NEW c \in Clients, NEW tx, Lawful(c, tx), Lands(tx),
           tx.by # <<>> => Affords(c, tx.record.lease - Lease)
    PROVE  /\ StoreStep \/ UNCHANGED vars
           /\ Adds(c)
<1>1. Adds(c)
  BY LandsLedger DEF BudgetInv, Adds, Affords
<1>2. ASSUME NEW t \in 0..now, NEW b \in BOOLEAN, Reserving(c, tx, t, b) PROVE StoreStep
  <2>1. tx.by = <<c, b>>
    BY <1>2 DEF Reserving, NoTx
  <2>2. tx.by # <<>>
    BY <2>1
  <2> QED
    BY <1>2, <2>2, ReservingLands DEF BudgetInv, Affords, StoreStep
<1>3. ASSUME NEW s \in Transitions, Transiting(c, tx, s) PROVE StoreStep \/ UNCHANGED vars
  BY <1>3, TransitingLands DEF BudgetInv, StoreStep
<1> QED
  BY <1>1, <1>2, <1>3, OthersLand DEF BudgetInv

(* What a step amounts to. *)
Settled ==
    /\ StoreStep \/ UNCHANGED vars
    /\ OneAtAnAnchor' /\ \A d \in Clients : Priced(d)'

(* A reservation in doubt keeps its anchors. *)
LEMMA DoubtKeepsPriced ==
    ASSUME BudgetInv, NEW c \in Clients, AnchorsKept(c), jobs' = jobs, HoldsNoMore,
           doubt'[c] = doubt[c], doubt[c].by # <<>>
    PROVE  Affords(c, doubt[c].record.lease - Lease)'
<1>1. PICK tx : tx = doubt[c]
  OBVIOUS
<1>2. Runs(c) /\ doubt[c] # NoTx
  BY PricedRuns DEF BudgetInv
<1>3. Affords(c, tx.record.lease - Lease)
  BY <1>1 DEF BudgetInv, Priced
<1>4. \A l \in ChargedLines(c) : l \in Lines /\ c \in anchors[l]
  BY <1>3 DEF Affords, ChargedLines
<1>5. \A l \in ChargedLines(c) : c \in anchors'[l]
  <2>1. CASE LockNextAnchor(c)
    <3>1. PICK m \in Lines : anchors[m] = {} /\ anchors' = [anchors EXCEPT ![m] = {c}]
      BY <2>1 DEF LockNextAnchor, Unlocked, ChargedLines
    <3> QED
      BY <1>4, <3>1 DEF BudgetInv, PostgresInv, PostgresTypeOK
  <2> QED
    BY <1>2, <1>4, <2>1 DEF AnchorsKept
<1>6. Affords(c, tx.record.lease - Lease)'
  BY <1>2, <1>3, <1>5, AffordsKept DEF HoldsNoMore
<1> QED
  BY <1>1, <1>6

LEMMA CalmSettles ==
    ASSUME BudgetInv, MaxTime <= ClockLag, AttemptsBounded',
           NEW c \in Clients, ClientStep(c) \/ Breaks(c), Calm(c)
    PROVE  Settled
<1>1. /\ PostgresInv /\ Turn(c) /\ jobs' = jobs /\ AnchorsKept(c) /\ AnchorsMove(c)
  BY ClientTurns, AnchorsMoved DEF BudgetInv, ClientStep, Breaks, AnchorsKept, AnchorsMove
<1>2. PICK y \in ClientRecord :
         /\ clients' = [clients EXCEPT ![c] = y]
         /\ \/ ReadsOn(c, clients[c], y)
            \/ \E tx : Commits(c, tx, clients[c], y) \/ Loses(c, tx, clients[c], y)
  BY <1>1 DEF Turn
<1>3. /\ clients \in [Clients -> ClientRecord] /\ doubt \in [Clients -> Transaction]
      /\ clients'[c] = y
  BY <1>1, <1>2 DEF PostgresInv, PostgresTypeOK
<1>4. \A d \in Clients \ {c} : clients'[d] = clients[d] /\ doubt'[d] = doubt[d]
  BY <1>2, <1>3 DEF ReadsOn, Commits, Loses
<1>5. (StoreStep \/ UNCHANGED vars) /\ HoldsNoMore
  <2>1. CASE UNCHANGED vars
    BY <2>1 DEF HoldsNoMore, vars
  <2>2. ASSUME NEW tx, Commits(c, tx, clients[c], y)
        PROVE  (StoreStep \/ UNCHANGED vars) /\ HoldsNoMore
    <3>1. Lawful(c, tx) /\ Lands(tx)
      BY <2>2 DEF Commits, Committable
    <3>2. ASSUME NEW t \in 0..now, NEW b \in BOOLEAN, Reserving(c, tx, t, b) PROVE FALSE
      <4>1. Key(c) \in Keys /\ tx.key = Key(c) /\ tx.record.state = "reserved" /\ Free(effects[Key(c)])
        BY <1>1, <3>2, Situation DEF Reserving, NoTx, Reserved
      <4>2. effects'[Key(c)] = tx.record
        BY <1>1, <3>1, <4>1, Nulls DEF Lands, PostgresInv, PostgresTypeOK, TypeOK
      <4> QED
        BY <4>1, <4>2 DEF Calm, Free
    <3>3. tx.by = <<>>
      BY <3>1, <3>2, OnlyReservationsAreStamped
    <3> QED
      BY <1>1, <3>1, <3>3, LandsImplements, LandsLedger
  <2> QED
    BY <1>2, <2>1, <2>2 DEF ReadsOn, Loses
<1>6. OneAtAnAnchor' /\ \A d \in Clients \ {c} : Priced(d)'
  BY <1>1, <1>4, <1>5, AnchorsStayOne, OthersKeep DEF Adds
<1>7. Priced(c)'
  <2>1. y.pc = "write" /\ y.stage = "reserve" =>
            /\ Affords(c, y.at)'
            /\ ChargedLines(c) # {} => doubt'[c] = NoTx
    <3> SUFFICES ASSUME y.pc = "write", y.stage = "reserve"
                 PROVE  Affords(c, y.at)' /\ (ChargedLines(c) # {} => doubt'[c] = NoTx)
      OBVIOUS
    <3>1. /\ UNCHANGED <<vars, doubt, anchors>> /\ Affords(c, y.at)
          /\ ChargedLines(c) # {} => doubt[c] = NoTx
      BY <1>1, <1>3, OnlyPricedWrites
    <3>2. Runs(c)
      BY <1>1, <1>2, <1>3, SameJobs DEF Turn, Knows, InPlace
    <3>3. Affords(c, y.at)'
      <4>1. \A l \in ChargedLines(c) : c \in anchors'[l]
        BY <3>1 DEF Affords
      <4> QED
        BY <1>1, <1>5, <3>1, <3>2, <4>1, AffordsKept DEF HoldsNoMore
    <3> QED
      BY <3>1, <3>3
  <2>2. doubt'[c].by # <<>> => Affords(c, doubt[c].record.lease - Lease)'
    BY <1>1, <1>5, DoubtKeepsPriced DEF Calm
  <2>3. ChargedLines(c)' = ChargedLines(c)
    BY <1>1, SameJobs
  <2> QED
    BY <1>3, <2>1, <2>2, <2>3 DEF Priced
<1> QED
  BY <1>5, <1>6, <1>7 DEF Settled

LEMMA ReservationSettles ==
    ASSUME BudgetInv, MaxTime <= ClockLag, AttemptsBounded',
           NEW c \in Clients, ClientStep(c), WriteReservation(c), ~Calm(c)
    PROVE  Settled
<1>1. PICK x, y, tx : x \in ClientRecord /\ x = clients[c] /\ y = Proceed(c) /\ tx = ReservationTx(c)
  BY Situation DEF BudgetInv
<1>2. /\ PostgresInv /\ jobs' = jobs /\ AnchorsKept(c) /\ AnchorsMove(c)
      /\ clients \in [Clients -> ClientRecord] /\ doubt \in [Clients -> Transaction]
      /\ x.pc = "write" /\ x.stage = "reserve" /\ Runs(c) /\ Key(c) \in Keys /\ KeyFree(Key(c))
  BY <1>1, AnchorsMoved, Situation DEF BudgetInv, PostgresInv, PostgresTypeOK, ClientStep, AnchorsKept,
     AnchorsMove, WriteReservation, At, Stage, InPlace
<1>3. ~Refused(c) /\ ~(UNCHANGED <<vars, doubt>>)
  BY CalmRead DEF Refused, vars
<1>4. Commit(c, tx, y) /\ Reserving(c, tx, x.at, x.again) /\ x.again \in BOOLEAN /\ x.at \in 0..now
  BY <1>1, <1>2, <1>3, ReservationIsLawful DEF WriteReservation
<1>5. Lawful(c, tx)
  BY <1>4 DEF Lawful
<1>6. Affords(c, x.at) /\ (ChargedLines(c) # {} => doubt[c] = NoTx)
  BY <1>1, <1>2 DEF BudgetInv, Priced
<1>7. tx.record.lease - Lease = x.at
  <2>1. tx.record.lease = x.at + Lease
    BY <1>4 DEF Reserving, NoTx, Reserved
  <2> QED
    BY <1>4, <2>1, StoreConstants
<1>8. CASE Lands(tx) /\ clients' = [clients EXCEPT ![c] = y] /\ UNCHANGED doubt
  <2>1. (StoreStep \/ UNCHANGED vars) /\ Adds(c)
    BY <1>5, <1>6, <1>7, <1>8, LandsImplements
  <2>2. clients'[c].pc # "write"
    BY <1>1, <1>2, <1>8, ProceedShape DEF Resting
  <2>3. doubt'[c].by = <<>>
    BY <1>2, <1>8, PricedRuns DEF KeyFree
  <2>4. Priced(c)'
    BY <2>2, <2>3 DEF Priced
  <2>5. \A d \in Clients \ {c} : Priced(d)'
    BY <1>2, <1>8, <2>1, OthersKeep
  <2> QED
    BY <1>2, <2>1, <2>4, <2>5, AnchorsStayOne DEF Settled
<1>9. CASE doubt' = [doubt EXCEPT ![c] = tx] /\ Goto(c, "lost") /\ UNCHANGED <<vars, stamps, anchors>>
  <2>1. clients'[c].pc = "lost" /\ doubt'[c] = tx /\ HoldsNoMore
    BY <1>2, <1>9, WritesNext DEF Pcs, HoldsNoMore, vars
  <2>2. Affords(c, x.at)'
    BY <1>2, <1>6, <1>9, <2>1, AffordsKept DEF Affords, HoldsNoMore
  <2>3. Priced(c)'
    BY <1>7, <2>1, <2>2 DEF Priced
  <2>4. \A d \in Clients \ {c} : Priced(d)'
    <3>1. \A d \in Clients \ {c} : clients'[d] = clients[d] /\ doubt'[d] = doubt[d]
      BY <1>2, <1>9 DEF Goto
    <3> QED
      BY <1>2, <2>1, <3>1, OthersKeep DEF Adds
  <2> QED
    BY <1>2, <1>9, <2>3, <2>4, AnchorsStayOne DEF Settled
<1> QED
  BY <1>3, <1>4, <1>8, <1>9 DEF Commit

LEMMA DecisionSettles ==
    ASSUME BudgetInv, MaxTime <= ClockLag, AttemptsBounded', NEW c \in Clients, Decide(c)
    PROVE  Settled
<1>1. PICK x, tx : x = clients[c] /\ tx = doubt[c]
  OBVIOUS
<1>2. /\ PostgresInv /\ jobs' = jobs /\ AnchorsMove(c) /\ clients' = clients
      /\ doubt \in [Clients -> Transaction] /\ doubt' = [doubt EXCEPT ![c] = NoTx] /\ tx # NoTx
  BY <1>1 DEF BudgetInv, PostgresInv, PostgresTypeOK, Decide, AnchorsMove
<1>3. /\ doubt'[c] = NoTx /\ NoTx.by = <<>>
      /\ \A d \in Clients \ {c} : doubt'[d] = doubt[d]
  BY <1>2 DEF NoTx
<1>4. (StoreStep \/ UNCHANGED vars) /\ Adds(c)
  <2>1. CASE UNCHANGED <<vars, stamps>>
    BY <2>1 DEF Adds, HoldsNoMore, vars
  <2>2. CASE Lands(tx)
    <3>1. Lawful(c, tx)
      BY <1>1, <1>2 DEF PostgresInv, Doubtful
    <3>2. tx.by # <<>> => Affords(c, tx.record.lease - Lease)
      BY <1>1 DEF BudgetInv, Priced
    <3> QED
      BY <2>2, <3>1, <3>2, LandsImplements
  <2> QED
    BY <1>1, <2>1, <2>2 DEF Decide
<1>5. Priced(c)'
  <2>1. ASSUME x.pc = "write", x.stage = "reserve"
        PROVE  Affords(c, x.at)' /\ ChargedLines(c) = {}
    <3>1. Runs(c) /\ ChargedLines(c) = {}
      BY <1>1, <1>2, <2>1, PricedRuns DEF BudgetInv, Priced
    <3>2. Affords(c, x.at)'
      BY <1>2, <3>1, Uncharged, AffordsKept
    <3> QED
      BY <3>1, <3>2
  <2>2. ChargedLines(c)' = ChargedLines(c)
    BY <1>2, SameJobs
  <2> QED
    BY <1>1, <1>2, <1>3, <2>1, <2>2 DEF Priced
<1>6. \A d \in Clients \ {c} : Priced(d)'
  BY <1>2, <1>3, <1>4, OthersKeep
<1> QED
  BY <1>2, <1>4, <1>5, <1>6, AnchorsStayOne DEF Settled

LEMMA OutsideSettles ==
    ASSUME BudgetInv, Putting \/ Waiting
    PROVE  Settled
<1>1. UNCHANGED <<jobs, clients, doubt, anchors>> /\ ledger' = ledger
  BY DEF Putting, PutApprovalRequest, Waiting, Tick, vars
<1>2. StoreStep \/ UNCHANGED vars
  BY DEF Putting, Waiting, StoreStep, Next, ApprovalStep
<1>3. Settled
  <2>1. ASSUME NEW c \in Clients, NEW t, Affords(c, t), Runs(c) PROVE Affords(c, t)'
    BY <1>1, <2>1, AffordsKept DEF Affords
  <2>2. ASSUME NEW c \in Clients PROVE Priced(c)'
    <3>1. PICK x, tx : x = clients[c] /\ tx = doubt[c]
      OBVIOUS
    <3>2. Priced(c) /\ PostgresInv
      BY DEF BudgetInv
    <3>3. /\ x.pc = "write" /\ x.stage = "reserve" =>
                 Affords(c, x.at)' /\ (ChargedLines(c) # {} => tx = NoTx)
          /\ tx.by # <<>> => Affords(c, tx.record.lease - Lease)'
      BY <2>1, <3>1, <3>2, PricedRuns DEF Priced
    <3> QED
      BY <1>1, <3>1, <3>3, SameJobs DEF Priced
  <2>3. OneAtAnAnchor'
    BY <1>1 DEF BudgetInv, OneAtAnAnchor
  <2> QED
    BY <1>2, <2>2, <2>3 DEF Settled
<1> QED
  BY <1>3

LEMMA TimeIsBounded ==
    ASSUME PostgresInv, now <= MaxTime, [PostgresNext]_postgresVars
    PROVE  now' <= MaxTime
<1>1. now \in Nat /\ MaxTime \in Nat
  BY StoreConstants DEF PostgresInv, PostgresTypeOK, TypeOK
<1>2. CASE \E c \in Clients : Turn(c)
  BY <1>1, <1>2 DEF Turn, ReadsOn, Commits, Loses, Lands, vars
<1>3. CASE \E c \in Clients : Deciding(c)
  BY <1>1, <1>3 DEF Deciding, Lands, vars
<1>4. CASE Putting \/ Waiting
  BY <1>1, <1>4 DEF Putting, PutApprovalRequest, Waiting, Tick, vars
<1> QED
  BY <1>2, <1>3, <1>4, PostgresKinds

LEMMA LedgerIsKept ==
    ASSUME PostgresInv, ChargesFollowEffects, Countable, WithinBudget, Named,
           StoreStep \/ UNCHANGED vars
    PROVE  ChargesFollowEffects' /\ Countable' /\ WithinBudget' /\ Named'
<1>1. TypeOK /\ RecordsAgree
  BY DEF PostgresInv, PostgresTypeOK
<1>2. CASE [Next]_vars
  <2>1. SomeKind
    BY <1>1, <1>2, StepKinds
  <2>2. ChargesFollowEffects' /\ Countable' /\ WithinBudget'
    BY <1>1, <1>2, <2>1, NextFollows, NextWithinBudget
  <2>3. Named'
    <3>1. effects \in [Keys -> EffectRecord]
      BY <1>1 DEF TypeOK
    <3>2. ASSUME NEW k \in Keys, NEW a \in Actions, NEW t, effects' = [effects EXCEPT ![k] = Reserved(effects[k], a, t)]
          PROVE  Named'
      <4>1. Reserved(effects[k], a, t).action = a
        BY DEF Reserved
      <4> QED
        BY <3>1, <3>2, <4>1 DEF Named
    <3>3. ASSUME NEW k \in Keys, NEW q, effects' = [effects EXCEPT ![k] = q],
                 q.action = effects[k].action, effects[k].state # "new"
          PROVE  Named'
      BY <3>1, <3>3 DEF Named
    <3>4. ASSUME NEW k \in Keys, NEW s
          PROVE  /\ Transitioned(effects[k], s).action = effects[k].action
                 /\ \A who : [Transitioned(effects[k], s) EXCEPT !.resolvedBy = who].action = effects[k].action
      BY <3>1 DEF Transitioned, EffectRecord
    <3>5. CASE Leaves
      BY <3>5 DEF Leaves, Named
    <3>6. ASSUME NEW k \in Keys, NEW a \in Actions, NEW h \in Hashes, NEW t \in Nat, Takes(k, a, h, t)
          PROVE  Named'
      BY <3>2, <3>6 DEF Takes, TakeKey
    <3>7. ASSUME NEW k \in Keys, NEW s, Moves(k, s) PROVE Named'
      BY <3>3, <3>4, <3>7 DEF Moves, Unfinished
    <3>8. ASSUME NEW k \in Keys, Fails(k) PROVE Named'
      BY <3>3, <3>4, <3>8 DEF Fails, Unfinished
    <3>9. ASSUME NEW k \in Keys, NEW until, Extends(k, until) PROVE Named'
      <4>1. PICK q : q = [effects[k] EXCEPT !.lease = until]
        OBVIOUS
      <4>2. effects' = [effects EXCEPT ![k] = q] /\ q.action = effects[k].action
        BY <3>1, <3>9, <4>1 DEF Extends, EffectRecord
      <4> QED
        BY <3>3, <3>9, <4>2 DEF Extends
    <3>10. ASSUME NEW k \in Keys, Resolves(k)
           PROVE  Named'
      <4>1. PICK s \in Resolutions, who \in Resolvers : ResolveEffect(k, s, who)
        BY <3>10 DEF Resolves
      <4>2. PICK q : q = [Transitioned(effects[k], s) EXCEPT !.resolvedBy = who]
        OBVIOUS
      <4>3. q.action = effects[k].action
        BY <3>4, <4>2
      <4>4. effects' = [effects EXCEPT ![k] = q] /\ effects[k].state # "new"
        BY <4>1, <4>2 DEF ResolveEffect
      <4> QED
        BY <3>3, <4>3, <4>4
    <3> QED
      BY <2>1, <3>5, <3>6, <3>7, <3>8, <3>9, <3>10 DEF SomeKind
  <2> QED
    BY <2>2, <2>3
<1>3. ASSUME NEW k \in Keys, LateHold(k)
      PROVE  ChargesFollowEffects' /\ Countable' /\ WithinBudget' /\ Named'
  <2>1. PICK t : effects' = [effects EXCEPT ![k].lease = t + SuspendTimeout]
    BY <1>3 DEF LateHold
  <2>2. PICK q : q = [effects[k] EXCEPT !.lease = t + SuspendTimeout]
    OBVIOUS
  <2>3. /\ effects \in [Keys -> EffectRecord] /\ ledger' = ledger /\ now' = now
        /\ effects[k].state = "executing"
    BY <1>1, <1>3 DEF LateHold, TypeOK
  <2>4. /\ effects' = [effects EXCEPT ![k] = q] /\ q.attempt = effects[k].attempt
        /\ q.state = "executing" /\ q.action = effects[k].action
    BY <2>1, <2>2, <2>3 DEF EffectRecord
  <2>5. ChargesFollowEffects'
    BY <1>1, <2>3, <2>4, KeepFollows
  <2>6. Countable' /\ WithinBudget'
    BY <2>3 DEF Countable, HeldOn, WithinBudget, Spent, HeldRows
  <2>7. Named'
    BY <2>3, <2>4 DEF Named
  <2> QED
    BY <2>5, <2>6, <2>7
<1>4. CASE UNCHANGED <<effects, ledger, now>>
  BY <1>4 DEF ChargesFollowEffects, Countable, HeldOn, WithinBudget, Spent, HeldRows, Named
<1>5. (\E k \in Keys : LateTake(k)) \/ (\E id \in Approvals : LateDenial(id))
          => UNCHANGED <<effects, ledger, now>>
  BY DEF LateTake, LateDenial
<1> QED
  BY <1>2, <1>3, <1>4, <1>5 DEF StoreStep

LEMMA BudgetStep ==
    ASSUME BudgetInv, MaxTime <= ClockLag, AttemptsBounded', [PostgresNext]_postgresVars
    PROVE  BudgetInv' /\ (StoreStep \/ UNCHANGED vars)
<1>1. PostgresInv /\ PostgresInv' /\ now' <= MaxTime
  BY PostgresInvStep, TimeIsBounded DEF BudgetInv
<1>2. Settled
  <2>1. CASE \E c \in Clients : ClientStep(c)
    BY <1>1, <2>1, CalmTurn, CalmSettles, ReservationSettles
  <2>2. CASE \E c \in Clients : Breaks(c)
    <3>1. PICK c \in Clients : Breaks(c)
      BY <2>2
    <3>2. Calm(c)
      BY <3>1, CalmRead DEF Breaks, Refused, vars
    <3> QED
      BY <3>1, <3>2, CalmSettles
  <2>3. CASE \E c \in Clients : Decide(c)
    BY <2>3, DecisionSettles
  <2>4. CASE \E c \in Clients : Request(c) # NoApproval /\ PutRequest(Request(c))
    <3>1. PICK id \in Approvals : PutRequest(id)
      BY <1>1, <2>4, Situation
    <3> QED
      BY <3>1, OutsideSettles DEF PutRequest, Putting
  <2>5. CASE Tick /\ UNCHANGED <<jobs, clients, doubt, anchors, stamps>>
    BY <2>5, OutsideSettles DEF Waiting
  <2>6. CASE UNCHANGED postgresVars
    BY <2>6, OutsideSettles DEF Waiting, postgresVars
  <2> QED
    BY <2>1, <2>2, <2>3, <2>4, <2>5, <2>6 DEF PostgresNext
<1>3. ChargesFollowEffects' /\ Countable' /\ WithinBudget' /\ Named'
  BY <1>2, LedgerIsKept DEF BudgetInv, Settled
<1> QED
  BY <1>1, <1>2, <1>3 DEF BudgetInv, Settled

LEMMA BudgetInit ==
    ASSUME PostgresInit
    PROVE  BudgetInv
<1>1. PostgresInv /\ Init
  BY PostgresInvInit DEF PostgresInit
<1>2. ledger = {} /\ now = 0 /\ \A k \in Keys : effects[k].state = "new"
  BY <1>1 DEF Init, NoRecord
<1>3. ChargesFollowEffects /\ Named /\ now <= MaxTime
  BY <1>2, StoreConstants DEF ChargesFollowEffects, Named
<1>4. OneAtAnAnchor
  BY DEF PostgresInit, OneAtAnAnchor
<1>5. ASSUME NEW c \in Clients PROVE Priced(c)
  <2>1. clients[c].pc # "write" /\ doubt[c].by = <<>>
    BY DEF PostgresInit, NoTx
  <2> QED
    BY <2>1 DEF Priced
<1>6. \A l : Units(HeldOn(l)) = {}
  BY <1>2 DEF Units, HeldOn
<1>7. Countable
  BY <1>6, FS_EmptySet DEF Countable
<1>8. WithinBudget
  <2> SUFFICES ASSUME NEW b \in Budgets PROVE Spent(b.line, now - b.window) <= b.limit
    BY DEF WithinBudget
  <2>1. Units(HeldRows(b.line, now - b.window)) = {}
    BY <1>2 DEF Units, HeldRows
  <2>2. Spent(b.line, now - b.window) = 0 /\ b.limit \in Nat
    BY <2>1, FS_EmptySet, StoreConstants DEF Spent
  <2> QED
    BY <2>2
<1> QED
  BY <1>1, <1>3, <1>4, <1>5, <1>7, <1>8 DEF BudgetInv

(* What lands is what the serialized store could have done in one transaction   *)
(* at that moment, the three late writes apart, for any number of clients, keys,*)
(* lines and lost COMMITs (SPEC-v0.6 4.2, 4.3.2).  A transaction in doubt lands *)
(* any time later, so no reading of the clock may be too old for the store      *)
(* (MaxTime <= ClockLag), and the attempts stay under the bound of its model.   *)
(* The sums a reservation was decided on still allow it when it lands: it holds *)
(* the anchors of its lines from the moment it priced them, through its doubt.  *)
THEOREM PostgresRefinesStore ==
    ASSUME MaxTime <= ClockLag
    PROVE  PostgresSpec /\ []AttemptsBounded => PostgresImplementsStore
<1>1. PostgresInit => BudgetInv
  BY BudgetInit
<1>2. BudgetInv /\ AttemptsBounded' /\ [PostgresNext]_postgresVars
          => BudgetInv' /\ (StoreStep \/ UNCHANGED vars)
  BY BudgetStep
<1>3. PostgresInit => Init
  BY DEF PostgresInit
<1> DEFINE Late == \/ Next
                   \/ \E k \in Keys : LateHold(k) \/ LateTake(k)
                   \/ \E id \in Approvals : LateDenial(id)
<1>4. StoreStep \/ UNCHANGED vars <=> [Late]_vars
  BY DEF StoreStep
<1> QED
  BY <1>1, <1>2, <1>3, <1>4, PTL DEF PostgresSpec, PostgresImplementsStore

(* No budget is exceeded over its rolling window on this backend either,        *)
(* although a reservation reads, prices and commits in separate steps and its   *)
(* COMMIT may be decided long after (SPEC-v0.9 3.3).                            *)
THEOREM PostgresWithinBudget ==
    ASSUME MaxTime <= ClockLag
    PROVE  PostgresSpec /\ []AttemptsBounded => []WithinBudget
<1>1. PostgresInit => BudgetInv
  BY BudgetInit
<1>2. BudgetInv /\ AttemptsBounded' /\ [PostgresNext]_postgresVars => BudgetInv'
  BY BudgetStep
<1>3. BudgetInv => WithinBudget
  BY DEF BudgetInv
<1> QED
  BY <1>1, <1>2, <1>3, PTL DEF PostgresSpec
=============================================================================
