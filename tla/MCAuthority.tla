------------------------------ MODULE MCAuthority ------------------------------
(* Instances for TLC of what stands before the kernel: who is admitted, and what *)
(* they are permitted.                                                           *)
EXTENDS Authority, Identity, TLC

CONSTANTS a1, a2, x, y, u, root, envelope, c1, c2, g1, g2, q1, q2

Budget(limit, window) == [limit |-> limit, window |-> window]
Grant(agent, reach, tasks, expires, delegable, budgets) ==
    [agent |-> agent, reach |-> reach, tasks |-> tasks, expires |-> expires,
     delegable |-> delegable, budgets |-> budgets]

AnyTask == Tasks \cup {NoTask}
Doc(grant, ttl, depth) ==
    [grants |-> (root :> grant), depth |-> depth,
     envelopes |-> (envelope :>
         [grant |-> Grant(Anyone, {x, y}, AnyTask, Never, FALSE, {}), ttl |-> ttl])]

Wide == Grant(a1, {x, y}, AnyTask, MaxTime, TRUE, {Budget(1, 2)})
Narrow == Grant(a1, {x}, {u}, MaxTime - 1, FALSE, {Budget(1, 2)})
TwoDocuments == {Doc(Wide, 2, 2), Doc(Narrow, 1, 1)}

SomeOffers == {Grant(a1, {x, y}, AnyTask, 2, TRUE, {Budget(1, 2)}),
              Grant(a2, {x}, {u}, 2, FALSE, {Budget(1, 2)}),
              Grant(a2, {x}, {u}, 2, FALSE, {Budget(1, 1)})}

SomeAsks == {[agent |-> a1, act |-> y, task |-> NoTask, hop |-> NoHop],
             [agent |-> a2, act |-> x, task |-> u, hop |-> 2]}

SignedByOne == [c \in Credentials |-> IF c = g1 THEN q1 ELSE q2]
OneSourceEach == {[keys |-> "static", feed |-> "poll"], [keys |-> "static", feed |-> "file"],
                  [keys |-> "jwks", feed |-> "none"]}

(* Of authority, two scenes: one call, until it ends, while everything changes (a *)
(* narrower document or revocations), and two calls that spend.                   *)
Alone ==
    /\ At(c2, "idle") /\ ~At(c1, "over") /\ ~At(c1, "finished")
    /\ doc = Doc(Wide, 2, 2) \/ \A d \in Existing : ~delegations[d].revoked
    /\ plan = Nothing \/ At(c1, "idle")
Spending ==
    /\ doc = Doc(Wide, 2, 2)
    /\ \A d \in Existing : ~delegations[d].revoked
    /\ \A c \in Calls : ~At(c, "suspended")
    /\ \A d \in Existing : delegations[d].via = "api"
    /\ plan = Nothing

(* Of identity, three: a polled feed and a file for one credential, and fetched   *)
(* keys, one of which comes and goes.  A revocation is written at the first       *)
(* moment; an outage of the keys begins or ends then, and one of a feed early.    *)
FeedScene ==
    /\ setup.feed # "none" /\ \A k \in Kids : issuer[k] = 0
    /\ \A t \in Threads : Cred(t) # g2
    /\ source.revoked[g2] = NoTime /\ source.revoked[g1] <= 0
    /\ IF setup.feed = "poll" THEN clock < LastMoment /\ source.downAt <= 1 ELSE source.downAt # 0
    /\ Cardinality({t \in Threads : threads[t].then = "lookup"}) <= 1
KeyScene ==
    /\ setup.feed = "none" /\ source.listed = {} /\ issuer[q1] = 0
    /\ clock < LastMoment - 1 /\ source.downAt <= 0

(* The source goes down once, or comes up once (a file only goes down, and after   *)
(* the first moment); a file is rewritten with a change.                          *)
OneOutage == source.up # source.up' => source.downAt = (IF source.up THEN NoTime ELSE 0)
WithAChange == source.mtime # source.mtime' => source.listed # source.listed'

Undecided ==
    /\ doc = Doc(Wide, 2, 2) /\ delegations = <<>> /\ plan = Nothing /\ now = 0
    /\ \A c \in Calls : At(c, "idle")
Unidentified ==
    /\ setup.feed = "none" /\ issuer[q2] = 0 /\ source.downAt = NoTime /\ clock = 0
    /\ cache.fetchedAt = NoTime /\ \A t \in Threads : In(t, "new")

SceneInit ==
    /\ Init /\ IdentityInit
    /\ FeedScene \/ KeyScene
    /\ Undecided \/ Unidentified
SceneNext ==
    \/ Unidentified /\ Next /\ (Alone \/ Spending)' /\ UNCHANGED identityVars
    \/ /\ Undecided /\ IdentityNext /\ (FeedScene \/ KeyScene)'
       /\ OneOutage /\ WithAChange /\ UNCHANGED vars
SceneSpec == SceneInit /\ [][SceneNext]_<<vars, identityVars>>

AlikeThreads == Permutations(Threads)
=============================================================================
