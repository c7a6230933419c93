----------------------------- MODULE PostgresStore -----------------------------
(***************************************************************************)
(* The PostgreSQL store: the same transactions over a server that locks    *)
(* only the rows it writes, through a connection that may be lost.         *)
(*                                                                         *)
(* A method reads with plain SELECTs under READ COMMITTED, decides, and    *)
(* writes with statements that name what they were decided on (compare and *)
(* set).  A row a transaction has written stays locked until it commits,   *)
(* so a transaction whose every condition holds is one step, its COMMIT;   *)
(* what may change between a SELECT and that step is what the conditions   *)
(* are for.                                                                *)
(*                                                                         *)
(* A COMMIT is acknowledged, aborted with a stated reason, or in doubt:    *)
(* the connection is gone and the server decides later, holding the rows   *)
(* until then.  The method reads again on a fresh connection, which sees   *)
(* what has landed so far, and obeys the decision tables A1 and A2.        *)
(*                                                                         *)
(* Each client carries out one job: a run (reserve, begin, an outcome), or *)
(* an answer, a resolution or a resumption.                                *)
(***************************************************************************)
EXTENDS EffectStore

CONSTANTS
    Clients,     \* one operation, or one run of a worker, each
    Casts,       \* the job assignments a behaviour may start from
    MaxTries,    \* _GRANT_ATTEMPTS
    NoKey, NoApproval

(* What the method of each job is called with. *)
Jobs ==
    [does : {"run", "suspend"}, key : Keys, action : Actions, hash : Hashes,
        request : Approvals \cup {NoApproval}, who : {Nobody}]
    \cup [does : {"grant", "deny"}, key : {NoKey}, action : {NoAction}, hash : {NoHash},
            request : Approvals, who : Principals \cup {Nobody}]
    \cup [does : {"resolve", "take"}, key : Keys, action : {NoAction}, hash : {NoHash},
            request : {NoApproval}, who : {Nobody}]
    \cup [does : {"nothing"}, key : {NoKey}, action : {NoAction}, hash : {NoHash},
            request : {NoApproval}, who : {Nobody}]

ASSUME PostgresConstants ==
    /\ Casts \subseteq [Clients -> Jobs]
    /\ MaxTries \in Nat \ {0} /\ NoKey \notin Keys /\ NoApproval \notin Approvals
    /\ Lines \subseteq Nat   \* grants are locked in the order of their ids

VARIABLES
    jobs,      \* what each client is here for
    clients,   \* its local state: again and restaged are the two bounds (a lost COMMIT
               \* re-issued, an outcome re-issued against a record that moved), attempt
               \* the number it was told, result what it was told of its outcome
    doubt,     \* its transaction whose COMMIT nobody acknowledged
    anchors,   \* who has locked the budget anchor of each line
    stamps     \* which try of whom wrote each reservation: the columns a clock fills

postgresVars == <<vars, jobs, clients, doubt, anchors, stamps>>

Key(c) == jobs[c].key
Action(c) == jobs[c].action
Hash(c) == jobs[c].hash
Request(c) == jobs[c].request
Does(c) == jobs[c].does
Runs(c) == Does(c) \in {"run", "suspend"}

Stages == {"reserve", "executing", "run", "committed", "failed", "ambiguous", "hold", "once"}
Ended == {"done", "refused"}

NoTx == [key |-> NoKey, record |-> NoRecord, id |-> NoApproval, request |-> NoRequest,
         rows |-> {}, release |-> FALSE, cont |-> NoKey, value |-> NoToken, by |-> <<>>]

PostgresInit ==
    /\ Init
    /\ jobs \in Casts
    /\ clients = [c \in Clients |->
           [pc |-> IF Does(c) = "nothing" THEN "done" ELSE "idle",
            stage |-> IF Runs(c) THEN "reserve" ELSE "once", at |-> 0, again |-> FALSE,
            restaged |-> FALSE, record |-> NoRecord, request |-> NoRequest, tries |-> 0, attempt |-> 0, value |-> NoToken, result |-> "once"]]
    /\ doubt = [c \in Clients |-> NoTx]
    /\ anchors = [l \in Lines |-> {}]
    /\ stamps = [k \in Keys |-> <<>>]

-----------------------------------------------------------------------------
(* Moving a client on *)

At(c, pc) == clients[c].pc = pc
Stage(c) == clients[c].stage
Stamp(c) == <<c, clients[c].again>>

Goto(c, pc) == clients' = [clients EXCEPT ![c].pc = pc]

(* Scratch no later step reads is forgotten, so that equal futures are equal states. *)
Forget(r) == [r EXCEPT !.at = 0, !.again = FALSE, !.restaged = FALSE, !.record = NoRecord,
                       !.request = NoRequest, !.tries = 0]
End(c, pc) == clients' = [clients EXCEPT ![c] = [Forget(@) EXCEPT !.pc = pc]]
Enter(c, stage) == [Forget(clients[c]) EXCEPT !.stage = stage,
                       !.pc = IF stage = "run" THEN "run" ELSE "idle"]

(* What follows a stage whose write is known to have landed. *)
Proceed(c) ==
    CASE Stage(c) = "reserve" ->
             [Enter(c, "executing") EXCEPT !.attempt = clients[c].record.attempt + 1]
      [] Stage(c) = "executing" -> Enter(c, "run")
      [] OTHER -> [Forget(clients[c]) EXCEPT !.pc = "done", !.result = Stage(c)]

(* A rolled back transaction gives its anchors back; one in doubt keeps them. *)
Unlock(c) == anchors' = IF doubt[c] = NoTx THEN [l \in Lines |-> anchors[l] \ {c}] ELSE anchors

-----------------------------------------------------------------------------
(* Transactions *)

KeyFree(k) == \A c \in Clients : doubt[c].key # k
RequestFree(id) == \A c \in Clients : doubt[c].id # id
ContinuationFree(k) == \A c \in Clients : doubt[c].cont # k

(* _charge_locked: a row the unique key already holds is not inserted again. *)
NewRows(rows) ==
    {row \in rows : \A old \in ledger :
        ~(old.line = row.line /\ old.key = row.key /\ old.attempt = row.attempt)}

Lands(tx) ==
    /\ effects' = IF tx.key = NoKey THEN effects ELSE [effects EXCEPT ![tx.key] = tx.record]
    /\ stamps' = IF tx.key = NoKey THEN stamps ELSE [stamps EXCEPT ![tx.key] = tx.by]
    /\ approvals' = IF tx.id = NoApproval THEN approvals
                    ELSE [approvals EXCEPT ![tx.id] = tx.request]
    /\ ledger' = IF tx.release THEN ReleasedFor(tx.key) ELSE ledger \cup NewRows(tx.rows)
    /\ continuations' =
           IF tx.cont = NoKey THEN continuations
           ELSE [continuations EXCEPT ![tx.cont].token = tx.value,
                                      ![tx.cont].action = IF tx.key = NoKey THEN @
                                                          ELSE tx.record.action]
    /\ UNCHANGED now

(* _commit: acknowledged, aborted for a stated reason, or AmbiguousWrite.  A  *)
(* transaction in doubt keeps its rows and its anchors.                       *)
Commit(c, tx, next) ==
    \/ Lands(tx) /\ Unlock(c) /\ clients' = [clients EXCEPT ![c] = next] /\ UNCHANGED doubt
    \/ End(c, "refused") /\ Unlock(c) /\ UNCHANGED <<vars, stamps, doubt>>
    \/ doubt' = [doubt EXCEPT ![c] = tx] /\ Goto(c, "lost") /\ UNCHANGED <<vars, stamps, anchors>>

(* The server, in its own time. *)
Decide(c) ==
    /\ doubt[c] # NoTx
    /\ doubt' = [doubt EXCEPT ![c] = NoTx]
    /\ anchors' = [l \in Lines |-> anchors[l] \ {c}]
    /\ Lands(doubt[c]) \/ UNCHANGED <<vars, stamps>>
    /\ UNCHANGED <<jobs, clients>>

Refused(c) == End(c, "refused") /\ Unlock(c) /\ UNCHANGED <<vars, stamps, doubt>>
Reads(c) == UNCHANGED <<vars, stamps, doubt, anchors>>
Misses(c, pc) == Goto(c, pc) /\ Reads(c)

-----------------------------------------------------------------------------
(* reserve_effect and consume_approval_and_reserve *)

(* The clock, then _consumable, a SELECT. *)
OpenReservation(c) ==
    /\ At(c, "idle") /\ Stage(c) = "reserve"
    /\ LET id == Request(c)
           lapsed == id # NoApproval /\ Overdue(id, Hash(c), now)
       IN \/ /\ (id # NoApproval => Consumable(id, Hash(c), now))
             /\ clients' = [clients EXCEPT ![c].pc = "plan", ![c].at = now]
          \/ /\ lapsed
             /\ clients' = [clients EXCEPT ![c].pc = "expire", ![c].request = approvals[id]]
    /\ Reads(c)

NotConsumable(c) ==
    /\ At(c, "idle") /\ Stage(c) = "reserve" /\ Request(c) # NoApproval
    /\ ~GrantedFor(Request(c), Hash(c))
    /\ Refused(c)

(* _expire, the kept write, on the status it was planned against. *)
Expire(c) ==
    /\ At(c, "expire") /\ RequestFree(Request(c))
    /\ LET r == approvals[Request(c)] IN
       \/ /\ r.status = clients[c].request.status
          /\ Commit(c, [NoTx EXCEPT !.id = Request(c), !.request = [r EXCEPT !.status = "expired"]],
                    [Forget(clients[c]) EXCEPT !.pc = "refused"])
       \/ r.status # clients[c].request.status /\ Refused(c)

(* _plan, a second SELECT. *)
PlanReservation(c) ==
    /\ At(c, "plan")
    /\ LET r == effects[Key(c)]
           sees(pc) == clients' = [clients EXCEPT ![c].pc = pc, ![c].record = r] /\ Reads(c)
       IN \/ /\ Free(r)
             /\ sees(IF \E l \in Lines : Cost[Hash(c)][l] > 0 THEN "price" ELSE "write")
          \/ Lapsed(r, clients[c].at) /\ sees("ambiguate")
          \/ ~Free(r) /\ ~Lapsed(r, clients[c].at) /\ Refused(c)

(* Defect: a moved record is written over. *)
UnmovedByAction(c) ==
    /\ effects[Key(c)].action = clients[c].record.action
    /\ effects[Key(c)].state = clients[c].record.state

(* _write_effect's condition: action, state and attempt are still the ones read. *)
Unmoved(c) ==
    LET r == effects[Key(c)]
        s == clients[c].record
    IN r.action = s.action /\ r.state = s.state /\ r.attempt = s.attempt

(* _ambiguate, the kept write of a lapsed lease, in a transaction of its own. *)
Ambiguate(c) ==
    /\ At(c, "ambiguate") /\ KeyFree(Key(c))
    /\ \/ /\ Unmoved(c)
          /\ Commit(c, [NoTx EXCEPT !.key = Key(c),
                           !.record = Transitioned(clients[c].record, "ambiguous")],
                    [Forget(clients[c]) EXCEPT !.pc = "refused"])
       \/ ~Unmoved(c) /\ Refused(c)

ChargedLines(c) == {l \in Lines : Cost[Hash(c)][l] > 0}
Unlocked(c) == {l \in ChargedLines(c) : c \notin anchors[l]}

(* _lock_budget_anchors: the anchors one by one in order. *)
LockNextAnchor(c) ==
    \E l \in Unlocked(c) :
        /\ \A m \in Unlocked(c) : l <= m
        /\ anchors[l] = {}
        /\ anchors' = [anchors EXCEPT ![l] = {c}]

(* ... and then the sums. *)
Price(c) ==
    /\ At(c, "price") /\ doubt[c] = NoTx
    /\ \/ /\ LockNextAnchor(c)
          /\ UNCHANGED <<vars, clients, doubt, stamps>>
       \/ Unlocked(c) = {} /\ Affordable(Hash(c), clients[c].at) /\ Misses(c, "write")
       \/ Unlocked(c) = {} /\ ~Affordable(Hash(c), clients[c].at) /\ Refused(c)

(* _reserve_locked's conditions: the INSERT finds no record, the renewal finds *)
(* the FAILED one it was planned from.                                         *)
Renewable(c) ==
    /\ effects[Key(c)].state = clients[c].record.state
    /\ effects[Key(c)].attempt = clients[c].record.attempt

(* _consume_locked's condition. *)
Spendable(c) == Request(c) # NoApproval => approvals[Request(c)].status = "granted"

(* Defect: a re-issued reservation forgets its charges and its approval. *)
ReservationTxNarrowed(c) ==
    LET r == clients[c].record
        spends == Request(c) # NoApproval /\ ~clients[c].again
    IN [NoTx EXCEPT !.key = Key(c), !.by = Stamp(c),
            !.record = Reserved(r, Action(c), clients[c].at),
            !.id = IF spends THEN Request(c) ELSE NoApproval,
            !.request = IF spends THEN [approvals[Request(c)] EXCEPT !.status = "consumed"]
                        ELSE NoRequest,
            !.rows = IF clients[c].again THEN {}
                     ELSE Rows(Hash(c), Key(c), r.attempt + 1, clients[c].at)]

ReservationTx(c) ==
    LET r == clients[c].record
        id == Request(c)
    IN [NoTx EXCEPT !.key = Key(c), !.by = Stamp(c),
            !.record = Reserved(r, Action(c), clients[c].at),
            !.id = id,
            !.request = IF id = NoApproval THEN NoRequest
                        ELSE [approvals[id] EXCEPT !.status = "consumed"],
            !.rows = Rows(Hash(c), Key(c), r.attempt + 1, clients[c].at)]

WriteReservation(c) ==
    /\ At(c, "write") /\ Stage(c) = "reserve"
    /\ KeyFree(Key(c)) /\ (Request(c) # NoApproval => RequestFree(Request(c)))
    /\ \/ Renewable(c) /\ Spendable(c) /\ Commit(c, ReservationTx(c), Proceed(c))
       \/ ~(Renewable(c) /\ Spendable(c)) /\ Refused(c)

(* Defect: a reservation under the same action id is taken for one's own. *)
OwnByAction(c) ==
    /\ effects[Key(c)].state = "reserved"
    /\ effects[Key(c)].action = Action(c)

(* _is_our_own_write: every column, those a clock filled included. *)
OwnWrite(c) ==
    /\ effects[Key(c)] = Reserved(clients[c].record, Action(c), clients[c].at)
    /\ stamps[Key(c)] = Stamp(c)

(* Defect: nothing remembers that this is a re-issue already. *)
ReissueUnbounded(c) ==
    clients' = [clients EXCEPT ![c] = [Forget(@) EXCEPT !.pc = "idle"]]

(* The same operation once more, under the bound `retrying`. *)
Reissue(c) ==
    clients' = [clients EXCEPT ![c] =
        [Forget(@) EXCEPT !.pc = "idle", !.again = TRUE, !.restaged = clients[c].restaged]]

(* _resolve_lost_insert and _resolve_lost_renewal: tables A1 and A2. *)
ResolveLostReservation(c) ==
    /\ At(c, "lost") /\ Stage(c) = "reserve" /\ ~clients[c].again
    /\ LET found == effects[Key(c)]
           unwritten == found.state = clients[c].record.state
       IN \/ OwnWrite(c) /\ clients' = [clients EXCEPT ![c] = Proceed(c)] /\ Reads(c)
          \/ ~OwnWrite(c) /\ unwritten /\ Reissue(c) /\ Reads(c)
          \/ ~OwnWrite(c) /\ ~unwritten /\ End(c, "refused") /\ Reads(c)

-----------------------------------------------------------------------------
(* _transition: begin_execution, commit_effect, fail_effect, mark_ambiguous *)

Transitions == {"executing", "committed", "failed", "ambiguous"}
Expected(stage) == CASE stage = "executing" -> {"reserved"}
                     [] stage \in Resolutions -> {"executing"}
                     [] stage = "ambiguous" -> Unfinished \cup {"ambiguous"}
CarriesOutcome(stage) == stage \in {"committed", "ambiguous"}
Mine(c) == HeldIn(effects[Key(c)], Action(c), Expected(Stage(c)))

ReadForTransition(c) ==
    /\ At(c, "idle") /\ Stage(c) \in Transitions
    /\ \/ /\ Mine(c)
          /\ clients' = [clients EXCEPT ![c].pc = "write", ![c].record = effects[Key(c)]]
          /\ Reads(c)
       \/ ~Mine(c) /\ Refused(c)

WriteTransition(c) ==
    /\ At(c, "write") /\ Stage(c) \in Transitions /\ KeyFree(Key(c))
    /\ \/ /\ Unmoved(c)
          /\ Commit(c, [NoTx EXCEPT !.key = Key(c),
                           !.record = Transitioned(clients[c].record, Stage(c)),
                           !.release = Stage(c) = "failed"],
                    Proceed(c))
       \/ ~Unmoved(c) /\ Misses(c, "missed")

(* The re-read after a miss: an outcome is re-issued once against what is there. *)
Restage(c) ==
    /\ At(c, "missed")
    /\ \/ /\ Mine(c) /\ CarriesOutcome(Stage(c)) /\ ~clients[c].restaged
          /\ clients' = [clients EXCEPT ![c] =
                 [Forget(@) EXCEPT !.pc = "idle", !.restaged = TRUE, !.again = clients[c].again]]
          /\ Reads(c)
       \/ ~(Mine(c) /\ CarriesOutcome(Stage(c)) /\ ~clients[c].restaged) /\ Refused(c)

(* A record in the state asked for, under the caller's action id. *)
Landed(c) ==
    /\ effects[Key(c)].state = Stage(c)
    /\ effects[Key(c)].action = Action(c)

(* _resolve_lost_update: table A2. *)
ResolveLostUpdate(c) ==
    /\ At(c, "lost") /\ Stage(c) \in Transitions /\ ~clients[c].again
    /\ \/ Landed(c) /\ clients' = [clients EXCEPT ![c] = Proceed(c)]
       \/ ~Landed(c) /\ Mine(c) /\ Reissue(c)
       \/ ~Landed(c) /\ ~Mine(c) /\ End(c, "refused")
    /\ Reads(c)

(* A second lost COMMIT, and one of a method that has no table, is raised. *)
RaiseAmbiguousWrite(c) ==
    /\ At(c, "lost") /\ (clients[c].again \/ Stage(c) \in {"hold", "once"})
    /\ End(c, "refused") /\ Reads(c)

(* The executor comes back: with a result, with a proof that nothing happened, *)
(* with neither, or it suspends and asks for its reservation to be held.       *)
ExecutorEnds(c, stage) ==
    /\ At(c, "run")
    /\ clients' = [clients EXCEPT ![c] = Enter(c, stage)]
    /\ Reads(c)

-----------------------------------------------------------------------------
(* hold_continuation and take_continuation *)

ReadForHold(c) ==
    /\ At(c, "idle") /\ Stage(c) = "hold"
    /\ LET r == effects[Key(c)] IN
       \/ /\ Extendable(r, Action(c), now + SuspendTimeout)
          /\ clients' = [clients EXCEPT ![c].pc = "write", ![c].at = now, ![c].record = r]
          /\ Reads(c)
       \/ ~Extendable(r, Action(c), now + SuspendTimeout) /\ Refused(c)

(* The value is new, or the unique index refuses it; while another COMMIT of the *)
(* same value is in doubt, it waits.                                             *)
WriteHold(c) ==
    /\ At(c, "write") /\ Stage(c) = "hold" /\ KeyFree(Key(c)) /\ ContinuationFree(Key(c))
    /\ \/ /\ Unmoved(c)
          /\ \E tok \in Tokens :
                /\ \A k \in Keys \ {Key(c)} : continuations[k].token # tok
                /\ \A d \in Clients : clients[d].value # tok /\ doubt[d].value # tok
                /\ Commit(c, [NoTx EXCEPT !.key = Key(c),
                                 !.record = [clients[c].record EXCEPT
                                                !.lease = clients[c].at + SuspendTimeout],
                                 !.cont = Key(c), !.value = tok],
                          Proceed(c))
       \/ ~Unmoved(c) /\ Refused(c)

ReadContinuation(c) ==
    /\ At(c, "idle") /\ Does(c) = "take"
    /\ LET tok == continuations[Key(c)].token
           r == effects[Key(c)]
           admitted == tok # NoToken /\ r.state = "executing" /\ LeaseIsLive(r, now)
       IN \/ /\ admitted
             /\ clients' = [clients EXCEPT ![c].pc = "write", ![c].value = tok]
             /\ Reads(c)
          \/ ~admitted /\ Refused(c)

(* Defect: the value is not part of the condition. *)
TakeAnyway(c) ==
    /\ At(c, "write") /\ Does(c) = "take" /\ ContinuationFree(Key(c))
    /\ Commit(c, [NoTx EXCEPT !.cont = Key(c)], Proceed(c))

WriteTake(c) ==
    /\ At(c, "write") /\ Does(c) = "take" /\ ContinuationFree(Key(c))
    /\ \/ /\ continuations[Key(c)].token = clients[c].value
          /\ Commit(c, [NoTx EXCEPT !.cont = Key(c)], Proceed(c))
       \/ continuations[Key(c)].token # clients[c].value /\ Refused(c)

-----------------------------------------------------------------------------
(* grant_approval, deny_approval, resolve_effect *)

ReadForAnswer(c) ==
    /\ At(c, "idle") /\ Does(c) \in {"grant", "deny"}
    /\ LET id == Request(c)
           open == Answerable(id, now)
           lapsed == approvals[id].status = "pending" /\ ~open
       IN \/ /\ open \/ lapsed
             /\ clients' = [clients EXCEPT ![c].pc = IF open THEN "write" ELSE "expire",
                                           ![c].request = approvals[id]]
             /\ Reads(c)
          \/ ~open /\ ~lapsed /\ Refused(c)

(* A grant is conditional on the answers it counted, a denial is not. *)
GrantStands(c) ==
    /\ approvals[Request(c)].status = clients[c].request.status
    /\ approvals[Request(c)].answers = clients[c].request.answers

Answered(c, status) ==
    [NoTx EXCEPT !.id = Request(c),
        !.request = [clients[c].request EXCEPT
            !.answers = AnswersWith(clients[c].request, jobs[c].who), !.status = status]]

WriteGrant(c) ==
    /\ At(c, "write") /\ Does(c) = "grant" /\ RequestFree(Request(c))
    /\ \/ /\ GrantStands(c)
          /\ Commit(c, Answered(c, IF Reached(clients[c].request, jobs[c].who)
                                   THEN "granted" ELSE "pending"), Proceed(c))
       \/ /\ ~GrantStands(c) /\ clients[c].tries + 1 < MaxTries
          /\ clients' = [clients EXCEPT ![c] =
                 [Forget(@) EXCEPT !.pc = "idle", !.tries = clients[c].tries + 1]]
          /\ Reads(c)
       \/ ~GrantStands(c) /\ clients[c].tries + 1 >= MaxTries /\ Refused(c)

WriteDenial(c) ==
    /\ At(c, "write") /\ Does(c) = "deny" /\ RequestFree(Request(c))
    /\ \/ /\ approvals[Request(c)].status = clients[c].request.status
          /\ Commit(c, Answered(c, "denied"), Proceed(c))
       \/ approvals[Request(c)].status # clients[c].request.status /\ Refused(c)

ReadForResolution(c) ==
    /\ At(c, "idle") /\ Does(c) = "resolve"
    /\ \/ /\ effects[Key(c)].state = "ambiguous"
          /\ clients' = [clients EXCEPT ![c].pc = "write", ![c].record = effects[Key(c)]]
          /\ Reads(c)
       \/ effects[Key(c)].state # "ambiguous" /\ Refused(c)

WriteResolution(c) ==
    /\ At(c, "write") /\ Does(c) = "resolve" /\ KeyFree(Key(c))
    /\ \/ /\ Unmoved(c)
          /\ \E s \in Resolutions :
                Commit(c, [NoTx EXCEPT !.key = Key(c),
                              !.record = [Transitioned(clients[c].record, s) EXCEPT
                                             !.resolvedBy = "human"],
                              !.release = s = "failed"],
                       Proceed(c))
       \/ ~Unmoved(c) /\ Refused(c)

-----------------------------------------------------------------------------
(* put_approval_request: one INSERT, refused by the primary key. *)
PutRequest(id) ==
    /\ \E h \in Hashes, n \in 1..MaxNeeded : PutApprovalRequest(id, h, n)
    /\ UNCHANGED <<jobs, clients, doubt, anchors, stamps>>

(* A statement fails, the connection with it: nothing was written. *)
Breaks(c) ==
    /\ clients[c].pc \in {"plan", "price", "write", "missed", "expire", "ambiguate"}
    /\ Refused(c)
    /\ UNCHANGED jobs

RunStep(c) ==
    \/ OpenReservation(c) \/ NotConsumable(c) \/ PlanReservation(c) \/ Ambiguate(c)
    \/ Price(c) \/ WriteReservation(c) \/ ResolveLostReservation(c)
    \/ ReadForTransition(c) \/ WriteTransition(c) \/ Restage(c) \/ ResolveLostUpdate(c)
    \/ \E stage \in Resolutions \cup {"ambiguous"} : ExecutorEnds(c, stage)
    \/ Does(c) = "suspend" /\ ExecutorEnds(c, "hold")
    \/ ReadForHold(c) \/ WriteHold(c)

OtherStep(c) ==
    \/ Expire(c) \/ RaiseAmbiguousWrite(c)
    \/ ReadContinuation(c) \/ WriteTake(c)
    \/ ReadForAnswer(c) \/ WriteGrant(c) \/ WriteDenial(c)
    \/ ReadForResolution(c) \/ WriteResolution(c)

ClientStep(c) == (RunStep(c) \/ OtherStep(c)) /\ UNCHANGED jobs

PostgresNext ==
    \/ \E c \in Clients : ClientStep(c) \/ Decide(c) \/ Breaks(c)
    \/ \E c \in Clients : Request(c) # NoApproval /\ PutRequest(Request(c))
    \/ Tick /\ UNCHANGED <<jobs, clients, doubt, anchors, stamps>>

PostgresSpec == PostgresInit /\ [][PostgresNext]_postgresVars

(* A client runs on, and the server decides what it was left with. *)
FairPostgresSpec ==
    /\ PostgresSpec
    /\ \A c \in Clients : WF_postgresVars(ClientStep(c)) /\ WF_postgresVars(Decide(c))

-----------------------------------------------------------------------------
(* Properties *)

(* What a suspension read may be gone by the time it is written: the lease   *)
(* has lapsed, or the attempt is over, and the row of the continuation is the *)
(* only thing the write compares.  A denial likewise keeps the answers it     *)
(* read.                                                                      *)
LateHold(k) ==
    /\ effects[k].state = "executing"
    /\ \E t \in 0..now, tok \in Tokens :
          /\ effects' = [effects EXCEPT ![k].lease = t + SuspendTimeout]
          /\ continuations' = [continuations EXCEPT
                 ![k] = [token |-> tok, action |-> effects[k].action]]
    /\ UNCHANGED <<approvals, ledger, now>>
LateTake(k) ==
    /\ continuations' = [continuations EXCEPT ![k].token = NoToken]
    /\ UNCHANGED <<effects, approvals, ledger, now>>
LateDenial(id) ==
    /\ approvals[id].status = "pending"
    /\ \E answers \in SUBSET (approvals[id].answers \cup Principals) :
          approvals' = [approvals EXCEPT ![id].status = "denied", ![id].answers = answers]
    /\ UNCHANGED <<effects, ledger, continuations, now>>

(* What lands is what the serialized store could have done in one transaction *)
(* at that moment, whatever was lost, re-issued or raced; the three late      *)
(* writes above are all this backend adds (SPEC-v0.6 4.2, 4.3.2).             *)
PostgresImplementsStore ==
    Init /\ [][\/ Next
               \/ \E k \in Keys : LateHold(k) \/ LateTake(k)
               \/ \E id \in Approvals : LateDenial(id)]_vars

(* No two callers are told they hold the same attempt, although a COMMIT may  *)
(* be lost, re-issued or recognised, and callers may share an action id       *)
(* (SPEC-v0.6 4.3.3, SPEC-v0.7 5.6).                                          *)
OneHolderPerAttempt ==
    \A c, d \in Clients :
        (c # d /\ Key(c) = Key(d) /\ clients[c].attempt > 0) =>
            clients[c].attempt # clients[d].attempt

(* What a caller is told has happened, all of it.  Of a reservation: every    *)
(* charge of the attempt is on the ledger, and its approval is spent, on      *)
(* nobody else.  Of an outcome: what it committed stays so, and what it gave  *)
(* up is over.  A COMMIT that was lost and recognised is told all the same    *)
(* (SPEC-v0.6 4.3.3).                                                         *)
AnswersAreTrue ==
    \A c \in Clients :
        /\ clients[c].attempt > 0 =>
              /\ \A l \in ChargedLines(c) : \E row \in ledger :
                    row.line = l /\ row.key = Key(c) /\ row.attempt = clients[c].attempt
              /\ Request(c) # NoApproval =>
                    /\ approvals[Request(c)].status = "consumed"
                    /\ \A d \in Clients \ {c} :
                          Request(d) = Request(c) => clients[d].attempt = 0
        /\ clients[c].result = "committed" => effects[Key(c)].state = "committed"
        /\ clients[c].result = "failed" =>
              effects[Key(c)].state = "failed" \/ effects[Key(c)].attempt > clients[c].attempt

(* A continuation value admits one resumption, however many present it at     *)
(* once (SPEC-v0.2 6.9.2).                                                    *)
OneTakePerValue ==
    \A c, d \in Clients :
        (c # d /\ Does(c) = "take" /\ Does(d) = "take" /\ At(c, "done") /\ At(d, "done"))
            => clients[c].value # clients[d].value

(* Every operation ends: no lock, lost COMMIT, re-issue or re-read is waited  *)
(* on or repeated for ever.                                                   *)
EveryOperationEnds == <>(\A c \in Clients : clients[c].pc \in Ended)
=============================================================================
