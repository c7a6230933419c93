------------------------------- MODULE Gateway -------------------------------
(***************************************************************************)
(* The MCP gateway around the kernel: each tools/call it is sent is one     *)
(* call of execute, or of resume when it presents a requestState, and the  *)
(* executor is one request to the upstream over a fresh connection.        *)
(*                                                                         *)
(* What the kernel leaves open, what an executor may claim, is decided     *)
(* here by what the transport observed.  The upstream runs an exchange, a  *)
(* request and the continuations of its elicitations, at most once, and    *)
(* may run it whenever it holds it.                                        *)
(*                                                                         *)
(* Parsing, identity, headers, framing and the relayed bodies are left out. *)
(***************************************************************************)
EXTENDS Kernel

CONSTANTS MaxRounds  \* --max-elicitation-rounds

ASSUME GatewayConstants == MaxRounds \in Nat

VARIABLES
    posts,   \* the gateway's local state of each request
    rounds   \* the elicitation counter of each key's continuation row

gatewayVars == <<kernelVars, posts, rounds>>

(* before, look: the reads that spare a human.  excess, mark: past the round bound. *)
Steps == {"idle", "before", "look", "execute", "inside", "bound", "excess", "mark", "told"}

(* sent: the hash of the arguments forwarded.  key: the one the post resolves to. *)
(* noes: history, the refusals that stood when the post arrived.                  *)
Unposted == [step |-> "idle", decision |-> "none", found |-> NoApproval, sent |-> NoHash,
             key |-> NoKey, holder |-> NoAction, noes |-> {}]

GatewayInit ==
    /\ KernelInit
    /\ posts = [c \in Everyone |-> Unposted]
    /\ rounds = [k \in Keys |-> 0]

Step(c, s) == posts[c].step = s
MoveTo(c, s) == posts' = [posts EXCEPT ![c].step = s]

-----------------------------------------------------------------------------
(* Before the kernel is called *)

Current(id) == now < approvals[id].expires
Granted(h) == {id \in Approvals : GrantedFor(id, h) /\ Current(id)}

Denials(h) == {id \in Approvals : approvals[id].status = "denied" /\ approvals[id].hash = h}

(* Defect: an old refusal is not looked for. *)
RefusedNever(h) == {}

Refused(h) == {id \in Denials(h) : Current(id)}

(* The pre-check of the decision, and the newest grant for the hash if it asks    *)
(* for one; which of several is the newest is left open, ids carrying no order.   *)
Receive(c, d, id) ==
    /\ At(c, "idle") /\ Step(c, "idle")
    /\ d \in Decisions[HashOf[c]]
    /\ LET grants == IF d = "approve" THEN Granted(HashOf[c]) ELSE {}
       IN /\ IF grants = {} THEN id = NoApproval ELSE id \in grants
          /\ posts' = [posts EXCEPT ![c] =
                 [Unposted EXCEPT !.step = IF d = "approve" /\ grants = {}
                                           THEN "before" ELSE "execute",
                                  !.decision = d, !.found = id, !.sent = HashOf[c],
                                  !.key = KeyOf[c], !.noes = Denials(HashOf[c])]]
    /\ UNCHANGED <<kernelVars, rounds>>

(* _before_asking_a_human: the refusals first, in one read ... *)
BeforeAsking(c) ==
    /\ Step(c, "before")
    /\ MoveTo(c, IF Refused(HashOf[c]) # {} THEN "told" ELSE "look")
    /\ UNCHANGED <<kernelVars, rounds>>

(* ... then the record, which may refuse the call now instead of after a yes. *)
LookAtRecord(c) ==
    /\ Step(c, "look")
    /\ MoveTo(c, IF /\ KeyOf[c] # NoKey
                    /\ effects[KeyOf[c]].state \in {"committed", "ambiguous"}
                 THEN "told" ELSE "execute")
    /\ UNCHANGED <<kernelVars, rounds>>

(* execute decides again: the policy is the same document, the authority may differ. *)
Execute(c, d) ==
    /\ Step(c, "execute")
    /\ d # posts[c].decision => "deny" \in {d, posts[c].decision}
    /\ Propose(c, d, posts[c].found)
    /\ MoveTo(c, "inside")
    /\ UNCHANGED rounds

(* _continue: the action comes from the store, and what is forwarded from the post. *)
Continue(c, k, tok, h, posted) ==
    /\ Step(c, "idle")
    /\ Resume(c, k, tok)
    /\ posts' = [posts EXCEPT ![c] =
           [Unposted EXCEPT !.step = "inside", !.sent = h, !.key = posted]]
    /\ UNCHANGED rounds

-----------------------------------------------------------------------------
(* The executor: what the transport observed, and what classify makes of it *)

Exchange(c) == {d \in Everyone : Key(d) = Key(c) /\ Action(d) = Action(c)}

(* The upstream runs what it holds, answered or not, once for an exchange. *)
UpstreamActs(c) ==
    /\ remote[c] \in {"sent", "asking"}
    /\ \A d \in Exchange(c) : Keyed(c) => remote[d] # "acted"
    /\ remote' = [remote EXCEPT ![c] = "acted"]
    /\ UNCHANGED <<vars, calls, receipts, forgiven, posts, rounds>>

(* Defect: a continuation that was refused is recorded FAILED. *)
RejectedOnAnyLeg(c) == RaisesNotExecuted(c)

(* Never connected, refused before dispatch, or a 401: nothing ran of this request. *)
(* Of a continuation that says nothing about the request it continues.              *)
Rejected(c) ==
    IF c \in Calls
    THEN RaisesNotExecuted(c)
    ELSE /\ At(c, "run") /\ remote[c] = "sent"
         /\ remote' = [remote EXCEPT ![c] = "refused"]
         /\ Outcome(c, Unfinished, MarkAmbiguous(Key(c), Action(c)), "ambiguous")
         /\ UNCHANGED <<receipts, forgiven>>

(* input_required with no requestState: the exchange has no name, so it is unknown. *)
ElicitsStateless(c) ==
    /\ At(c, "run") /\ remote[c] = "sent"
    /\ remote' = [remote EXCEPT ![c] = "asking"]
    /\ Outcome(c, Unfinished, MarkAmbiguous(Key(c), Action(c)), "ambiguous")
    /\ UNCHANGED <<receipts, forgiven>>

(* hold_continuation counts a round on the row of the key, whoever held it before. *)
(* A hold that was refused is another error than the suspension, and ends the call. *)
Elicits(c) ==
    /\ Suspends(c)
    /\ LET held == {k \in Keys : continuations'[k] # continuations[k]} IN
       /\ rounds' = [k \in Keys |-> IF k \in held THEN rounds[k] + 1 ELSE rounds[k]]
       /\ MoveTo(c, IF held = {} THEN "told" ELSE "bound")

(* A result; a rejection; a tool error, a lost or unreadable answer. *)
Forwards(c) ==
    \/ /\ Returns(c) \/ Rejected(c) \/ RaisesOther(c) \/ ElicitsStateless(c)
       /\ UNCHANGED <<posts, rounds>>
    \/ Elicits(c)

-----------------------------------------------------------------------------
(* _over_the_round_bound: three calls of the store, after the suspension is written *)

CountRounds(c) ==
    /\ Step(c, "bound")
    /\ MoveTo(c, IF posts[c].key # NoKey /\ rounds[posts[c].key] > MaxRounds
                 THEN "excess" ELSE "told")
    /\ UNCHANGED <<kernelVars, rounds>>

FindHolder(c) ==
    /\ Step(c, "excess")
    /\ LET r == effects[posts[c].key] IN
       posts' = [posts EXCEPT ![c].step = IF r.state = "new" THEN "told" ELSE "mark",
                              ![c].holder = r.action]
    /\ UNCHANGED <<kernelVars, rounds>>

(* A record that moved meanwhile makes the store raise, and nobody is answered. *)
DeclareOver(c) ==
    /\ Step(c, "mark")
    /\ \/ MarkAmbiguous(posts[c].key, posts[c].holder)
       \/ /\ ~HeldIn(effects[posts[c].key], posts[c].holder, Unfinished)
          /\ UNCHANGED vars
    /\ MoveTo(c, "told")
    /\ UNCHANGED <<calls, localVars, rounds>>

-----------------------------------------------------------------------------
Inside(step) == step /\ UNCHANGED <<posts, rounds>>

GatewayNext ==
    \/ \E c \in Calls, d \in {"allow", "approve", "deny"}, id \in Approvals \cup {NoApproval} :
          Receive(c, d, id)
    \/ \E c \in Calls : BeforeAsking(c) \/ LookAtRecord(c)
    \/ \E c \in Calls, d \in {"allow", "approve", "deny"} : Execute(c, d)
    \/ \E c \in Resumers, k \in Keys, tok \in Tokens, h \in Hashes, posted \in Keys \cup {NoKey} :
          Continue(c, k, tok, h, posted)
    \/ \E c \in Everyone :
          \/ Forwards(c) \/ UpstreamActs(c)
          \/ CountRounds(c) \/ FindHolder(c) \/ DeclareOver(c)
          \/ Inside(Decides(c) \/ Crash(c))
    \/ \E k \in Keys, s \in Resolutions : Inside(HumanResolves(k, s))
    \/ \E id \in Approvals : Inside(HumanAnswers(id))
    \/ Inside(TimePasses)

GatewaySpec == GatewayInit /\ [][GatewayNext]_gatewayVars

-----------------------------------------------------------------------------
(* Properties *)

(* FAILED on the gateway's word says the upstream did nothing and will do     *)
(* nothing, so no leg of the attempt ran, is on its way, or is held by an     *)
(* upstream that asked a question (SPEC-v0.2 6.8, SPEC-v0.7 12.2.12).         *)
NothingFailedWhileHeld ==
    \A k \in Keys : effects[k].state = "failed" /\ effects[k].resolvedBy = NoResolver =>
        \A c \in Everyone : Key(c) = k /\ OfAttempt(c, effects[k]) /\ ~Step(c, "idle") =>
            remote[c] \notin {"sent", "acted", "asking"}

(* "No" is an answer: no human is asked for an action that one of them had    *)
(* refused when the call arrived, as long as the refusal lasts (SPEC-v0.2     *)
(* 6.10), whatever is granted, resolved or consumed meanwhile.                *)
NoIsAnAnswer ==
    [][\A c \in Calls :
          (At(c, "ask") /\ calls'[c].pc = "waiting" /\ posts[c].decision = "approve") =>
              \A id \in posts[c].noes : ~Current(id)]_gatewayVars

(* "its params.arguments canonicalize to exactly the held action's canonical  *)
(* arguments" (SPEC-v0.2 6.9.2): whatever is forwarded for an action is what  *)
(* the action's hash says.                                                    *)
ForwardsTheHeldAction ==
    \A c \in Everyone : Ran(c) /\ ~Step(c, "idle") =>
        \A d \in Calls : ActionOf[d] = Action(c) => posts[c].sent = HashOf[d]
=============================================================================
