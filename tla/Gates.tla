-------------------------------- MODULE Gates --------------------------------
(***************************************************************************)
(* What an action that needs a human passes before it may run: the request *)
(* with its fingerprint pinned, the principal's scope, the check of who    *)
(* answered, the precondition compared once more, and the one store call   *)
(* that consumes the approval and reserves the key (Control._secure,       *)
(* _presented).  Each check reads the store or the world at a moment of    *)
(* its own, and humans, rivals, the clock and the world move between them. *)
(*                                                                         *)
(* The deployment names an approver identity and a scope provider; whether *)
(* a call names a precondition provider is up to the call.  A principal is *)
(* barred from approving when it is the requester or lacks a role the      *)
(* request pinned.                                                         *)
(***************************************************************************)
EXTENDS EffectStore

CONSTANTS
    Worlds,    \* what a precondition provider may fingerprint
    NoPrint,   \* an approval that carries no fingerprint
    NoKey, NoApproval

ASSUME GateConstants ==
    /\ NoPrint \notin Worlds /\ NoKey \notin Keys /\ NoApproval \notin Approvals

VARIABLES
    world,   \* the fingerprint a provider would report now
    within,  \* whether the resource is in the principal's scope now
    barred,  \* the principals whose yes does not count for this action
    prints,  \* the fingerprint each approval was requested with
    gates    \* the local state of the call that proposes each action

gateVars == <<world, within, barred, prints, gates>>
allVars == <<vars, gateVars>>
theWorld == <<world, within, barred>>

Places == {"idle", "pin", "request", "readback", "withdraw", "reread", "spend",
           "scope", "read", "fetch", "take", "hook", "resolve",
           "waiting", "withdrawn", "refused", "taken"}
Over == {"waiting", "withdrawn", "refused", "taken"}

(* matched and scoped are history: what held at some moment of the current pass. *)
Idle == [pc |-> "idle", hash |-> NoHash, key |-> NoKey, id |-> NoApproval,
         provides |-> FALSE, print |-> NoPrint, seen |-> "absent", again |-> FALSE,
         answer |-> "unknown", matched |-> FALSE, scoped |-> FALSE]

At(a, pc) == gates[a].pc = pc
Goto(a, pc) == gates' = [gates EXCEPT ![a].pc = pc]
Approval(a) == approvals[gates[a].id]

-----------------------------------------------------------------------------
(* Asking: _presented with nothing presented, _unpinned and _withdraw *)

Ask(a, h, k, provides) ==
    /\ At(a, "idle")
    /\ gates' = [gates EXCEPT ![a] =
           [Idle EXCEPT !.pc = "pin", !.hash = h, !.key = k, !.provides = provides]]
    /\ UNCHANGED <<vars, theWorld, prints>>

(* The fingerprint is taken before the request exists; a failure refuses the action. *)
Pin(a) ==
    /\ At(a, "pin")
    /\ \/ gates' = [gates EXCEPT ![a].pc = "request",
                                 ![a].print = IF gates[a].provides THEN world ELSE NoPrint]
       \/ gates[a].provides /\ Goto(a, "refused")
    /\ UNCHANGED <<vars, theWorld, prints>>

(* The approval provider may build a request of its own, without what was pinned. *)
Request(a) ==
    /\ At(a, "request")
    /\ \E id \in Approvals, n \in 1..MaxNeeded, print \in {gates[a].print, NoPrint} :
           /\ PutApprovalRequest(id, gates[a].hash, n)
           /\ prints' = [prints EXCEPT ![id] = print]
           /\ gates' = [gates EXCEPT ![a].pc = "readback", ![a].id = id]
    /\ UNCHANGED theWorld

(* The row is read back; a row that lost its fingerprint is withdrawn. *)
ReadBack(a) ==
    /\ At(a, "readback")
    /\ Goto(a, IF prints[gates[a].id] = gates[a].print THEN "waiting" ELSE "withdraw")
    /\ UNCHANGED <<vars, theWorld, prints>>

(* Defect: a request is withdrawn by denial alone. *)
WithdrawByDenial(a) ==
    /\ At(a, "withdraw")
    /\ DenyApproval(gates[a].id, Nobody) \/ (Approval(a).status # "pending" /\ UNCHANGED vars)
    /\ Goto(a, "withdrawn")
    /\ UNCHANGED <<theWorld, prints>>

(* Denied while it is pending; otherwise its row is read once more ... *)
Withdraw(a) ==
    /\ At(a, "withdraw")
    /\ \/ DenyApproval(gates[a].id, Nobody) /\ Goto(a, "withdrawn")
       \/ Approval(a).status # "pending" /\ UNCHANGED vars /\ Goto(a, "reread")
       \/ Approval(a).status = "pending" /\ ExpireApproval(gates[a].id) /\ Goto(a, "reread")
    /\ UNCHANGED <<theWorld, prints>>

(* ... and a grant that landed meanwhile is spent on nothing. *)
Reread(a) ==
    /\ At(a, "reread")
    /\ Goto(a, IF Approval(a).status = "granted" THEN "spend" ELSE "withdrawn")
    /\ UNCHANGED <<vars, theWorld, prints>>

SpendGrant(a) ==
    /\ At(a, "spend")
    /\ \/ ConsumeApproval(gates[a].id, Approval(a).hash)
       \/ Approval(a).status # "granted" /\ UNCHANGED vars
       \/ Approval(a).status = "granted" /\ ExpireApproval(gates[a].id)
    /\ Goto(a, "withdrawn")
    /\ UNCHANGED <<theWorld, prints>>

-----------------------------------------------------------------------------
(* Presenting: at most two passes of _in_scope, _recheck and _take *)

(* Defect: the scope is fetched once, above the passes. *)
PassFromRecheck(g, again) ==
    [g EXCEPT !.pc = IF again THEN "read" ELSE "scope", !.again = again,
              !.matched = (world = prints[g.id]), !.scoped = within]

Pass(g, again) ==
    [g EXCEPT !.pc = "scope", !.again = again,
              !.matched = (world = prints[g.id]), !.scoped = within]

(* The caller has the id from the ApprovalRequired that ended its first call. *)
Present(a, h, k, id, provides) ==
    /\ At(a, "idle")
    /\ approvals[id].status # "absent"
    /\ gates' = [gates EXCEPT ![a] =
           Pass([Idle EXCEPT !.hash = h, !.key = k, !.id = id, !.provides = provides], FALSE)]
    /\ UNCHANGED <<vars, theWorld, prints>>

(* _in_scope: the provider fails, or the resource is in its answer or is not. *)
InScope(a) ==
    /\ At(a, "scope")
    /\ \/ within /\ Goto(a, "read")
       \/ Goto(a, "refused")
    /\ UNCHANGED <<vars, theWorld, prints>>

Fit(id) == approvals[id].answers # {} /\ approvals[id].answers \cap barred = {}

(* Defect: who answered is not looked at once the grant has lapsed by this clock. *)
UnfitIfLive(a) == Consumable(gates[a].id, gates[a].hash, now) /\ ~Fit(gates[a].id)

(* _check_approver stands aside unless the record is granted for this hash; a grant *)
(* that has lapsed by this clock is checked all the same.                           *)
Unfit(a) == GrantedFor(gates[a].id, gates[a].hash) /\ ~Fit(gates[a].id)

(* Whether there is a fingerprint on either side. *)
Preconditioned(a) == gates[a].provides \/ prints[gates[a].id] # NoPrint

(* _recheck up to the fetch: one read of the record, one of the clock, no write. *)
Recheck(a) ==
    /\ At(a, "read")
    /\ LET next == CASE Unfit(a) -> "refused"
                     [] ~Unfit(a) /\ ~Preconditioned(a) -> "take"
                     [] ~Unfit(a) /\ Preconditioned(a) ->
                            IF Consumable(gates[a].id, gates[a].hash, now) /\ gates[a].provides
                            THEN "fetch" ELSE "refused"
       IN gates' = [gates EXCEPT ![a].pc = next, ![a].seen = Approval(a).status]
    /\ UNCHANGED <<vars, theWorld, prints>>

(* _compare: the provider is asked, and fails, or agrees with the request or does not. *)
Compare(a) ==
    /\ At(a, "fetch")
    /\ \/ world = prints[gates[a].id] /\ Goto(a, "take")
       \/ Goto(a, "refused")
    /\ UNCHANGED <<vars, theWorld, prints>>

Take(a) ==
    /\ At(a, "take")
    /\ IF gates[a].key = NoKey
       THEN ConsumeApproval(gates[a].id, gates[a].hash)
       ELSE ConsumeApprovalAndReserve(gates[a].id, gates[a].key, a, gates[a].hash)
    /\ Goto(a, "taken")
    /\ UNCHANGED <<theWorld, prints>>

(* The store refuses the approval, or the key it would reserve. *)
StoreRefuses(a) ==
    /\ At(a, "take")
    /\ LET id == gates[a].id
           h == gates[a].hash
           r == effects[gates[a].key]
       IN \/ \E t \in Readings : Overdue(id, h, t) /\ ExpireApproval(id)
          \/ ~GrantedFor(id, h) /\ UNCHANGED vars
          \/ /\ gates[a].key # NoKey
             /\ \E t \in Readings :
                    /\ Consumable(id, h, t)
                    /\ \/ r.state = "committed" \/ LeaseIsLive(r, t)
                       \/ Free(r) /\ ~Affordable(h, t)
             /\ UNCHANGED vars
    /\ Goto(a, "refused")
    /\ UNCHANGED <<theWorld, prints>>

(* AmbiguousEffect: the hook is asked after the first pass, and not after the second. *)
MeetsUnknown(a) ==
    /\ At(a, "take") /\ gates[a].key # NoKey
    /\ LET r == effects[gates[a].key] IN
       \E t \in Readings :
           /\ Consumable(gates[a].id, gates[a].hash, t)
           /\ \/ r.state = "ambiguous" /\ UNCHANGED vars
              \/ Lapsed(r, t) /\ AmbiguateLapsed(gates[a].key)
    /\ Goto(a, IF gates[a].again THEN "refused" ELSE "hook")
    /\ UNCHANGED <<theWorld, prints>>

AskHook(a) ==
    /\ At(a, "hook")
    /\ \E answer \in Resolutions \cup {"unknown"} :
           gates' = [gates EXCEPT ![a].pc = "resolve", ![a].answer = answer]
    /\ UNCHANGED <<vars, theWorld, prints>>

(* A record that moved is taken once more, from the first check on. *)
Resolve(a) ==
    /\ At(a, "resolve")
    /\ \/ /\ gates[a].answer \in Resolutions
          /\ ResolveEffect(gates[a].key, gates[a].answer, "hook")
          /\ gates' = [gates EXCEPT ![a] = Pass(gates[a], TRUE)]
       \/ /\ gates[a].answer = "unknown" \/ effects[gates[a].key].state # "ambiguous"
          /\ UNCHANGED vars /\ Goto(a, "refused")
    /\ UNCHANGED <<theWorld, prints>>

-----------------------------------------------------------------------------
(* Everybody else *)

InPass(a) == gates[a].pc \in {"scope", "read", "fetch", "take"}

WorldMoves(w) ==
    /\ world # w
    /\ world' = w
    /\ gates' = [a \in Actions |-> [gates[a] EXCEPT !.matched =
           @ \/ (InPass(a) /\ prints[gates[a].id] = w)]]
    /\ UNCHANGED <<vars, within, barred, prints>>

ScopeMoves ==
    /\ within' = ~within
    /\ gates' = [a \in Actions |-> [gates[a] EXCEPT !.scoped = @ \/ (InPass(a) /\ within')]]
    /\ UNCHANGED <<vars, world, barred, prints>>

(* Any transaction of the store, by any process but one that stands at its gate. *)
AtGate(a) == gates[a].pc \notin {"idle"} \cup Over

Elsewhere ==
    /\ \/ \E id \in Approvals : ApprovalStep(id)
       \/ \E k \in Keys, a \in Actions : ~AtGate(a) /\ HolderStep(k, a)
       \/ \E k \in Keys : KeyStep(k)
       \/ Tick
    /\ UNCHANGED gateVars

Asking(a) == Pin(a) \/ Request(a) \/ ReadBack(a) \/ Withdraw(a) \/ Reread(a) \/ SpendGrant(a)
Passing(a) ==
    InScope(a) \/ Recheck(a) \/ Compare(a) \/ Take(a) \/ StoreRefuses(a)
        \/ MeetsUnknown(a) \/ AskHook(a) \/ Resolve(a)

Call(a) ==
    \E h \in Hashes, k \in Keys \cup {NoKey}, provides \in BOOLEAN :
        Ask(a, h, k, provides) \/ \E id \in Approvals : Present(a, h, k, id, provides)

GatesInit ==
    /\ Init
    /\ world \in Worlds /\ within \in BOOLEAN /\ barred \in SUBSET Principals
    /\ prints = [id \in Approvals |-> NoPrint]
    /\ gates = [a \in Actions |-> Idle]

GatesNext ==
    \/ Elsewhere
    \/ \E a \in Actions : Call(a) \/ Asking(a) \/ Passing(a)
    \/ \E w \in Worlds : WorldMoves(w)
    \/ ScopeMoves

GatesSpec == GatesInit /\ [][GatesNext]_allVars

-----------------------------------------------------------------------------
(* Properties *)

(* SPEC-v0.7 6.2, 6.4, SPEC-v0.9 5.3: what was taken was checked in the pass    *)
(* that took it.  The resource was in scope, and where a fingerprint is on      *)
(* either side the world was as it was when the human was asked, at a moment no *)
(* earlier than the last answer of a hook.                                      *)
CheckedInThisPass ==
    \A a \in Actions : At(a, "taken") =>
        gates[a].scoped /\ (Preconditioned(a) => gates[a].matched)

(* SPEC-v0.8 2.4: wherever the recheck could see the grant, or had to compare a *)
(* precondition, nothing is taken on the yes of nobody, of the requester or of  *)
(* a principal without the role, whatever the two clocks say of its expiry.     *)
ApproversWereChecked ==
    \A a \in Actions :
        (At(a, "taken") /\ (gates[a].seen = "granted" \/ Preconditioned(a))) => Fit(gates[a].id)

(* SPEC-v0.7 6.4: a request withdrawn because its row lost the fingerprint is   *)
(* left to nobody, though a human may have granted it in the meantime.          *)
NothingLeftToSpend ==
    \A a \in Actions :
        At(a, "withdrawn") => Approval(a).status \in {"denied", "consumed", "expired"}

(* SPEC-v0.8 4.1, G18: with an approver identity configured, no approval is     *)
(* taken on the requester's own yes.                                            *)
NoSelfApproval ==
    \A a \in Actions : At(a, "taken") => approvals[gates[a].id].answers \cap barred = {}
=============================================================================
