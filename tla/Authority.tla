------------------------------- MODULE Authority -------------------------------
(***************************************************************************)
(* Authority: grants in a document, delegations in the store, and the      *)
(* calls that act under them.                                              *)
(*                                                                         *)
(* A grant's subject names an agent; its action, resource, environment and *)
(* user patterns and its argument constraints are abstracted to the set of *)
(* acts they reach, so that pattern containment is inclusion.  An absent   *)
(* list is the widest set: it holds NoTask too, which no declared list     *)
(* does.  An absent expiry is Never, which no clock reaches.               *)
(*                                                                         *)
(* Delegation ids are drawn at random and never met twice: the position in *)
(* the sequence of delegations stands for the id.                          *)
(***************************************************************************)
EXTENDS Integers, Sequences, FiniteSets

CONSTANTS
    Agents, Anyone,   \* agents, and the subject pattern that names none
    Acts,             \* what a call may do
    Tasks, NoTask,    \* the tasks a call may be made for, and none
    GrantIds,         \* ids of the document's grants
    EnvelopeIds,      \* ids of its break-glass envelopes
    Documents,        \* the authority documents that may be deployed
    Offers,           \* the grants somebody may ask to hand on
    Openers,          \* the people entitled to open an envelope
    Calls,            \* calls of execute
    Asks,             \* what they ask for: who, what, for which task, under which hop
    NoHop, Nothing,
    MaxDelegations,   \* bound: delegations ever recorded
    MaxTime           \* bound: the last moment

Never == MaxTime + 1
Times == 0..MaxTime

Budgets == [limit : Nat, window : Nat \ {0}]
Grants == [agent : Agents \cup {Anyone}, reach : SUBSET Acts,
           tasks : SUBSET (Tasks \cup {NoTask}), expires : 0..Never,
           delegable : BOOLEAN, budgets : SUBSET Budgets]

(* Grant.__post_init__: what may be delegated must end. *)
Wellformed(g) == g \in Grants /\ (g.delegable => g.expires # Never)

DelegationIds == 1..MaxDelegations

Requests == [agent : Agents, act : Acts, task : Tasks \cup {NoTask},
             hop : DelegationIds \cup {NoHop}]

ASSUME AuthorityConstants ==
    /\ MaxTime \in Nat /\ MaxDelegations \in Nat
    /\ Anyone \notin Agents /\ NoTask \notin Tasks
    /\ GrantIds \cap EnvelopeIds = {}
    /\ (GrantIds \cup EnvelopeIds) \cap Nat = {}
    /\ NoHop \notin Nat /\ Asks \subseteq Requests /\ Nothing \notin Requests
    /\ \A g \in Offers : Wellformed(g)
    /\ \A e \in Documents :
          /\ e.depth \in Nat
          /\ \A i \in DOMAIN e.grants : i \in GrantIds /\ Wellformed(e.grants[i])
          /\ \A i \in DOMAIN e.envelopes :
                i \in EnvelopeIds /\ e.envelopes[i].ttl \in Nat /\ Wellformed(e.envelopes[i].grant)

VARIABLES
    doc,          \* the document in force
    delegations,  \* the delegation records of the store, in the order they were put
    plan,         \* a delegation that was checked and is not yet put
    calls,        \* the calls
    now

vars == <<doc, delegations, plan, calls, now>>

Delegated == [parent : GrantIds \cup DelegationIds, grant : Grants, by : Agents,
              via : {"api"}, created : Times, revoked : BOOLEAN]
Opened == [parent : EnvelopeIds, grant : Grants, by : Openers,
           via : {"break-glass"}, created : Times, revoked : BOOLEAN]
Records == Delegated \cup Opened

Existing == 1..Len(delegations)

-----------------------------------------------------------------------------
(* Containment: a child says no more than its parent, on every dimension *)

Expired(g, t) == t > g.expires

(* _budgets_contained: a shorter window over the same limit is a higher rate. *)
BudgetsContained(parent, child) ==
    \A outer \in parent : \E inner \in child :
        inner.limit <= outer.limit /\ inner.window >= outer.window

(* Defect: a budget is compared by its limit alone. *)
ContainedButFaster(parent, child) ==
    /\ child.agent # Anyone
    /\ child.reach \subseteq parent.reach
    /\ child.tasks \subseteq parent.tasks
    /\ child.expires <= parent.expires
    /\ \A outer \in parent.budgets : \E inner \in child.budgets : inner.limit <= outer.limit

(* contained_dimension *)
Contained(parent, child) ==
    /\ child.agent # Anyone
    /\ child.reach \subseteq parent.reach
    /\ child.tasks \subseteq parent.tasks
    /\ child.expires <= parent.expires
    /\ BudgetsContained(parent.budgets, child.budgets)

-----------------------------------------------------------------------------
(* _walk: from a delegation up to the document, no further than the depth *)

Above(d) == delegations[d].parent

Climb(d) ==
    LET up[n \in 0..doc.depth] ==
            IF n = 0 THEN d
            ELSE IF Above(up[n - 1]) \in Existing THEN Above(up[n - 1]) ELSE up[n - 1]
    IN up

Highest == IF doc.depth = 0 THEN 0 ELSE doc.depth - 1
Nodes(d) == {Climb(d)[n] : n \in 0..Highest}
Top(d) == Climb(d)[Highest]
RootId(d) == Above(Top(d))

Declared == DOMAIN doc.grants
Enveloped == DOMAIN doc.envelopes
Rooted(d) == RootId(d) \in Declared \cup Enveloped

GrantOf(i) ==
    IF i \in Existing THEN delegations[i].grant
    ELSE IF i \in Declared THEN doc.grants[i] ELSE doc.envelopes[i].grant

Chain(d) == Nodes(d) \cup {RootId(d)}
Ancestors(d) == Chain(d) \ {d}

(* _Walk.undelegable_ancestor: an envelope exists to be a parent. *)
Delegable(i) == i \in Enveloped \/ GrantOf(i).delegable

-----------------------------------------------------------------------------
(* _check_chain, made again at every evaluation *)

StepsContained(d) == \A n \in Nodes(d) : Contained(GrantOf(Above(n)), GrantOf(n))

(* max_ttl is no dimension of containment: the opened grant is held to it here. *)
WithinTtl(d) ==
    RootId(d) \in Enveloped =>
        GrantOf(Top(d)).expires <= delegations[Top(d)].created + doc.envelopes[RootId(d)].ttl

(* Defect: only the delegation that is used is asked whether it was revoked. *)
ChainValidAtLeaf(d, t) ==
    /\ Rooted(d) /\ Cardinality(Nodes(d)) <= doc.depth
    /\ ~delegations[d].revoked
    /\ \A a \in Ancestors(d) : ~Expired(GrantOf(a), t) /\ Delegable(a)
    /\ StepsContained(d)
    /\ WithinTtl(d)

ChainValid(d, t) ==
    /\ Rooted(d) /\ Cardinality(Nodes(d)) <= doc.depth
    /\ \A n \in Nodes(d) : ~delegations[n].revoked
    /\ \A a \in Ancestors(d) : ~Expired(GrantOf(a), t) /\ Delegable(a)
    /\ StepsContained(d)
    /\ WithinTtl(d)

-----------------------------------------------------------------------------
(* evaluate *)

(* matches_shape, task_holds and constraints_hold; a task is not always asked. *)
Reaches(g, r, asked) ==
    /\ g.agent \in {Anyone, r.agent}
    /\ r.act \in g.reach
    /\ asked => r.task \in g.tasks

Covers(i, r, asked, t) ==
    /\ Reaches(GrantOf(i), r, asked)
    /\ ~Expired(GrantOf(i), t)
    /\ i \in Existing => ChainValid(i, t)

(* _candidates; _hop_candidate: a presented hop is the only candidate. *)
Candidates(hop) == IF hop = NoHop THEN Declared \cup Existing ELSE {hop} \cap Existing

Passing(r, hop, asked) == {i \in Candidates(hop) : Covers(i, r, asked, now)}

(* Defect: an action spends the budgets of the grant it names, and no other's. *)
ChargesOfLeaf(i) == {[grant |-> i, limit |-> b.limit, window |-> b.window] : b \in GrantOf(i).budgets}

(* _charges_for: every budget of the grant and of everything above it. *)
ChargesFor(i) ==
    UNION {{[grant |-> a, limit |-> b.limit, window |-> b.window] : b \in GrantOf(a).budgets}
             : a \in IF i \in Existing THEN Chain(i) ELSE {i}}

-----------------------------------------------------------------------------
(* delegate, hop and break-glass: a plan, made from reads, and later a put *)

Ids == Declared \cup Enveloped \cup Existing

Record(p, g, by, via) ==
    [parent |-> p, grant |-> g, by |-> by, via |-> via, created |-> now, revoked |-> FALSE]

(* The chain above a parent still stands. *)
ParentStands(p) ==
    /\ ~delegations[p].revoked /\ Rooted(p)
    /\ \A n \in Nodes(p) : ~delegations[n].revoked
    /\ \A a \in Ancestors(p) : Delegable(a) /\ ~Expired(GrantOf(a), now)

(* _parent_for_creation: an envelope is opened, never delegated beneath. *)
ParentForCreation(p) ==
    /\ p \in Declared \cup Existing
    /\ p \in Existing => ParentStands(p)
    /\ GrantOf(p).delegable /\ ~Expired(GrantOf(p), now)

Depth(p) == IF p \in Existing THEN Cardinality(Nodes(p)) ELSE 0

(* plan_delegation: whoever the parent names may hand part of it on. *)
PlanDelegation(p, g, by) ==
    /\ plan = Nothing
    /\ ParentForCreation(p)
    /\ GrantOf(p).agent \in {Anyone, by}
    /\ Depth(p) + 1 <= doc.depth
    /\ Contained(GrantOf(p), g)
    /\ plan' = Record(p, g, by, "api")
    /\ UNCHANGED <<doc, delegations, calls, now>>

(* _opener_for and plan_break_glass: whoever holds the roles, whatever the subject. *)
PlanBreakGlass(e, g, by) ==
    /\ plan = Nothing /\ e \in Enveloped
    /\ by \in Openers
    /\ g.expires # Never /\ g.expires <= now + doc.envelopes[e].ttl
    /\ 1 <= doc.depth
    /\ Contained(doc.envelopes[e].grant, g)
    /\ plan' = Record(e, g, by, "break-glass")
    /\ UNCHANGED <<doc, delegations, calls, now>>

(* put_delegation checks nothing again: what the plan read may have moved since. *)
PutDelegation ==
    /\ plan # Nothing
    /\ Len(delegations) < MaxDelegations
    /\ delegations' = Append(delegations, plan)
    /\ plan' = Nothing
    /\ UNCHANGED <<doc, calls, now>>

(* The process dies between the two, and nothing was recorded. *)
PlanIsLost ==
    /\ plan # Nothing
    /\ plan' = Nothing
    /\ UNCHANGED <<doc, delegations, calls, now>>

(* revoke: one write, whoever stands beneath. *)
Revoke(d) ==
    /\ d \in Existing /\ ~delegations[d].revoked
    /\ delegations' = [delegations EXCEPT ![d].revoked = TRUE]
    /\ UNCHANGED <<doc, plan, calls, now>>

-----------------------------------------------------------------------------
(* Calls: decided, reserved with their charges, run, suspended and resumed *)

IdleCall == [pc |-> "idle", request |-> Nothing, leaf |-> NoHop, chain |-> {}, charges |-> {},
                at |-> 0, strayed |-> 0]

At(c, pc) == calls[c].pc = pc
Request(c) == calls[c].request

(* _authority_result of execute.  Of the grants that pass the first id is named; *)
(* ids being arbitrary, any may be the first.                                   *)
Decide(c, r) ==
    /\ At(c, "idle")
    /\ \/ /\ Passing(r, r.hop, TRUE) = {}
          /\ calls' = [calls EXCEPT ![c].pc = "over"]
       \/ \E i \in Passing(r, r.hop, TRUE) :
             calls' = [calls EXCEPT ![c] =
                 [pc |-> "decided", request |-> r, leaf |-> i, charges |-> ChargesFor(i),
                  chain |-> IF i \in Existing THEN Chain(i) ELSE {i},
                  at |-> now, strayed |-> 0]]
    /\ UNCHANGED <<doc, delegations, plan, now>>

(* What was charged to a grant in the window that ends now. *)
Spenders(g, w) ==
    {c \in Calls : /\ calls[c].pc \in {"running", "suspended", "finished"}
                   /\ \E ch \in calls[c].charges : ch.grant = g
                   /\ now - calls[c].at <= w}

Affordable(c) ==
    \A ch \in calls[c].charges : Cardinality(Spenders(ch.grant, ch.window)) + 1 <= ch.limit

(* History: the legs begun in a row while nothing covered the call. *)
Covered(c) == Passing(Request(c), Request(c).hop, FALSE) # {}
Strays(c) == IF Covered(c) THEN calls[c].strayed ELSE calls[c].strayed + 1

(* _secure: what was decided is not decided again; the charges are what it planned. *)
Reserve(c) ==
    /\ At(c, "decided")
    /\ calls' = IF Affordable(c)
                THEN [calls EXCEPT ![c].pc = "running", ![c].at = now, ![c].strayed = Strays(c)]
                ELSE [calls EXCEPT ![c] = [IdleCall EXCEPT !.pc = "over"]]
    /\ UNCHANGED <<doc, delegations, plan, now>>

(* Defect: a reservation is held for whoever asks. *)
HoldsForAnyone(c) == TRUE

MayHold(c) == Passing(Request(c), Request(c).hop, FALSE) # {}

(* _suspend: an extension is authorized again, without its task.  Where it is not *)
(* the lease lapses; so it does where the caller's credential has expired.       *)
Suspend(c) ==
    /\ At(c, "running")
    /\ \/ /\ MayHold(c)
          /\ calls' = [calls EXCEPT ![c].pc = "suspended",
                                    ![c].strayed = IF Covered(c) THEN 0 ELSE calls[c].strayed]
       \/ calls' = [calls EXCEPT ![c].pc = "finished"]
    /\ UNCHANGED <<doc, delegations, plan, now>>

(* resume: authority is evaluated for the receipt, and the leg runs either way. *)
Resume(c) ==
    /\ At(c, "suspended")
    /\ calls' = [calls EXCEPT ![c].pc = "running", ![c].strayed = Strays(c)]
    /\ UNCHANGED <<doc, delegations, plan, now>>

(* Another document is deployed; the store stays. *)
Deploy(d) ==
    /\ doc # d
    /\ doc' = d
    /\ UNCHANGED <<delegations, plan, calls, now>>

Tick ==
    /\ now < MaxTime
    /\ now' = now + 1
    /\ UNCHANGED <<doc, delegations, plan, calls>>

Init ==
    /\ doc \in Documents
    /\ delegations = <<>>
    /\ plan = Nothing
    /\ calls = [c \in Calls |-> IdleCall]
    /\ now = 0

Next ==
    \/ \E p \in Ids, g \in Offers, by \in Agents : PlanDelegation(p, g, by)
    \/ \E e \in EnvelopeIds, g \in Offers, by \in Openers : PlanBreakGlass(e, g, by)
    \/ PutDelegation \/ PlanIsLost
    \/ \E d \in DelegationIds : Revoke(d)
    \/ \E c \in Calls, r \in Asks : Decide(c, r)
    \/ \E c \in Calls : Reserve(c) \/ Suspend(c) \/ Resume(c)
    \/ \E d \in Documents : Deploy(d)
    \/ Tick

Spec == Init /\ [][Next]_vars

-----------------------------------------------------------------------------
(* Properties *)

(* Every record is of one of the two kinds a caller can make, beneath something *)
(* that was there before it: nothing api-made stands beneath an envelope.       *)
StoreTypeOK ==
    /\ doc \in Documents
    /\ delegations \in Seq(Records) /\ Len(delegations) <= MaxDelegations
    /\ \A d \in Existing : Above(d) \in Nat => Above(d) < d
    /\ plan \in Records \cup {Nothing}
    /\ plan # Nothing /\ plan.parent \in Nat => plan.parent \in Existing
    /\ now \in Times

Fits(budgets, moments) ==
    \A b \in budgets, t \in Times :
        Cardinality({s \in moments : t - b.window <= s /\ s <= t}) <= b.limit

(* A delegation of a delegation permits nothing its parent does not: no act, no   *)
(* task, no later moment and no series of spends, whatever was planned or put in  *)
(* between (contained_dimension, _budgets_contained).                             *)
Attenuated ==
    \A d \in Existing : Above(d) \in Existing =>
        LET child == GrantOf(d)
            parent == GrantOf(Above(d))
        IN /\ parent.delegable
           /\ child.reach \subseteq parent.reach /\ child.tasks \subseteq parent.tasks
           /\ \A t \in Times : Expired(parent, t) => Expired(child, t)
           /\ \A moments \in SUBSET Times :
                 Fits(child.budgets, moments) => Fits(parent.budgets, moments)

(* A budget every document states for a grant, and a delegation's own budget, is *)
(* not overspent by everybody beneath it together, however the grants were       *)
(* split, in any window (_charges_for).                                          *)
StatedBy(i) ==
    IF i \in Existing THEN GrantOf(i).budgets
    ELSE {b \in UNION {e.grants[i].budgets : e \in {x \in Documents : i \in DOMAIN x.grants}} :
            \A e \in Documents : i \in DOMAIN e.grants /\ b \in e.grants[i].budgets}

NobodyOverspends ==
    \A i \in GrantIds \cup Existing : \A b \in StatedBy(i), t \in Times :
        Cardinality({c \in Calls : /\ calls[c].pc \in {"running", "suspended", "finished"}
                                   /\ i \in calls[c].chain
                                   /\ t - b.window <= calls[c].at /\ calls[c].at <= t})
            <= b.limit

(* Once nothing covers a call any more, by revocation, expiry or a new document, *)
(* it begins at most one more leg (resume runs it, _suspend does not hold it).   *)
OneLegAfterTheCut == \A c \in Calls : calls[c].strayed <= 1

(* From a grant up to the document, however deep. *)
Upward(i) ==
    LET up[n \in 0..MaxDelegations] ==
            IF n = 0 THEN i ELSE IF up[n - 1] \in Existing THEN Above(up[n - 1]) ELSE up[n - 1]
    IN {up[n] : n \in 0..MaxDelegations}

Permits(c) == At(c, "idle") /\ At(c, "decided")'

(* A call is permitted only by a chain of which every link, up to the document in *)
(* force, permits it now and stands; under a hop, only by that hop.  Beneath an   *)
(* envelope, somebody entitled opened it, and no later than it allows today ago,  *)
(* for whatever was delegated further down too (_check_chain, plan_break_glass).  *)
WholeChainPermits ==
    [][\A c \in Calls : Permits(c) =>
          LET i == calls'[c].leaf
              r == calls'[c].request
          IN /\ r.hop # NoHop => i = r.hop
             /\ \E root \in Upward(i) : root \in Declared \cup Enveloped
             /\ Cardinality(Upward(i)) <= doc.depth + 1
             /\ \A a \in Upward(i) \ {i} : a \in Enveloped \/ GrantOf(a).delegable
             /\ \A a \in Upward(i) :
                   /\ r.act \in GrantOf(a).reach /\ r.task \in GrantOf(a).tasks
                   /\ ~Expired(GrantOf(a), now)
                   /\ a \in Existing => ~delegations[a].revoked
             /\ \A d \in Upward(i) \cap Existing : Above(d) \in Enveloped =>
                   /\ delegations[d].by \in Openers
                   /\ now <= delegations[d].created + doc.envelopes[Above(d)].ttl]_vars
=============================================================================
