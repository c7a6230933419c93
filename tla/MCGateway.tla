------------------------------- MODULE MCGateway ------------------------------
(* Instances of the gateway, and of the kernel under it, for TLC. *)
EXTENDS Gateway, TLC

CONSTANTS h1, h2, k1, k2, l1, c1, c2, c3, c4, d1, d2, e1, p2

(* Each call proposes an action of its own: the action ids are the calls. *)
OwnAction == [c \in Calls |-> c]
Scattered == [c \in Calls |-> IF c \in {c1, e1} THEN NoKey ELSE IF c = c2 THEN k2 ELSE k1]
OthersAreFree == [c \in Calls |-> IF c \in {c1, c2, c3, c4} THEN h1 ELSE h2]

RelaxedForFree == [h \in Hashes |-> IF h = h2 THEN {"approve", "allow", "deny"} ELSE {"allow"}]

FirstCosts == [h \in Hashes |-> [l \in Lines |-> IF h = h1 THEN 1 ELSE 0]]
OneAtATime == {[line |-> l1, limit |-> 1, window |-> 2]}

(* Five scenes.  Of the kernel by itself: calls that spend; calls that are        *)
(* resumed; and calls, one without a key, that present one approval while the     *)
(* policy is relaxed under them.  The spender without a key, who is only ever     *)
(* refused, joins the second.  Of the gateway: two posts and a continuation, with *)
(* the arguments and key of the held action or of another; and two posts that     *)
(* may ask.                                                                       *)
Spends == {c2, c3, c4}
Quiet(cs) == \A c \in cs : At(c, "idle") /\ Step(c, "idle")
Unasked == \A c \in Calls : calls[c].decision # "approve" /\ calls[c].presented = NoApproval
Unhooked == \A c \in Calls : ~At(c, "hook")
Unsuspended == \A k \in Keys : continuations[k].token = NoToken

SpendScene ==
    /\ Quiet(Everyone \ Spends) /\ Unasked /\ Unsuspended
    /\ now <= (IF \E c \in Spends : At(c, "idle") THEN 2 ELSE 1)
    /\ effects[k2].resolvedBy = NoResolver /\ Unhooked
ResumeScene == Quiet(Spends \cup {e1}) /\ Unasked /\ now <= 2
AskScene ==
    /\ Quiet(Spends \cup Resumers \cup {c1}) /\ Unsuspended /\ now <= 1
    /\ approvals[p2].status = "absent" /\ effects[k1].resolvedBy # "human"

NoPosts == \A c \in Everyone : Step(c, "idle")
AllPosted == \A c \in Everyone : At(c, "idle") \/ ~Step(c, "idle")
Decided(ds) == \A c \in Calls : posts[c].decision \in ds /\ calls[c].decision \in ds
ElicitScene ==
    /\ Quiet(Spends \cup {c1, e1}) /\ (\E s \in Resumers : Quiet({s})) /\ Decided({"none", "allow"}) /\ now <= 2
    /\ effects[k1].attempt <= (IF now <= 1 THEN 2 ELSE 1) /\ Unhooked
    /\ \A s \in Resumers : <<posts[s].sent, posts[s].key>> \in {<<NoHash, NoKey>>, <<h2, k1>>, <<h1, k2>>}
PostScene ==
    /\ Quiet(Spends \cup Resumers \cup {c1, e1}) /\ Unsuspended /\ now <= 1

Crashless == \A c \in Everyone : ~At(c, "crashed")
KernelScene == NoPosts /\ Crashless /\ Decided({"none", "allow", "approve"}) /\ (SpendScene \/ ResumeScene \/ AskScene)
PostedScene == AllPosted /\ Crashless /\ (ElicitScene \/ PostScene)
SceneNext ==
    \/ KernelScene /\ Inside(KernelNext) /\ KernelScene'
    \/ PostedScene /\ GatewayNext /\ PostedScene'
SceneSpec == GatewayInit /\ [][SceneNext]_gatewayVars

AlikeRetries == Permutations({c3, c4}) \cup Permutations({d1, d2}) \cup Permutations(Resumers)
=============================================================================
