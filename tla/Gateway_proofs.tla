---------------------------- MODULE Gateway_proofs ----------------------------
(***************************************************************************)
(* The gateway around the kernel, for every number of posts, keys,         *)
(* requests and rounds.  A step of the gateway is a step of one call, one  *)
(* of somebody outside, an upstream that runs a request it answered with a *)
(* question, or a record declared unknown past the round bound; so what is *)
(* proved of a call's step holds here, although an upstream may do more    *)
(* than the kernel's remote.                                               *)
(***************************************************************************)
EXTENDS Gateway, Kernel_pardons

Choices == {"none", "allow", "approve", "deny"}
PostState == [step : Steps, decision : Choices, found : Approvals \cup {NoApproval},
              sent : Hashes \cup {NoHash}, key : Keys \cup {NoKey},
              holder : Actions \cup {NoAction}, noes : SUBSET Approvals]

Posted == posts \in [Everyone -> PostState] /\ rounds \in [Keys -> Nat]

(* The round bound is counted for a key, and only of a post that has one. *)
Counting == \A c \in Everyone : posts[c].step \in {"excess", "mark"} => posts[c].key \in Keys

(* A record in flight has an action in flight. *)
Attributed == \A k \in Keys : effects[k].state \in Unfinished => effects[k].action \in Actions

GatewayInv == CallInv /\ Attributed /\ Posted /\ Counting

-----------------------------------------------------------------------------
(* What a step of the gateway does below it *)

(* The upstream runs what it had answered with a question. *)
Wakes ==
    /\ \E c \in Everyone : remote[c] = "asking" /\ remote' = [remote EXCEPT ![c] = "acted"]
    /\ UNCHANGED <<vars, calls, receipts, forgiven>>

(* The gateway declares a record unknown. *)
Closes ==
    /\ \E k \in Keys, a \in Actions : MarkAmbiguous(k, a)
    /\ UNCHANGED <<calls, remote, receipts, forgiven>>

NoFailure == \A k \in Keys : effects'[k].state = "failed" => effects'[k] = effects[k]

(* A step of one call; only a call of execute ever proves that nothing happened. *)
Acted(c) == Stepped(c) /\ (c \in Resumers => NoFailure)

(* An outcome that is unknown although the request is over. *)
LEMMA UnknownSteps ==
    ASSUME CallInv, NEW c \in Everyone, At(c, "run"), remote[c] = "sent",
           NEW n \in {"refused", "asking"}, remote' = [remote EXCEPT ![c] = n],
           Outcome(c, Unfinished, MarkAmbiguous(Key(c), Action(c)), "ambiguous"),
           UNCHANGED <<receipts, forgiven>>
    PROVE  Acted(c)
<1>1. Refuse(c, "ambiguous") /\ n \in Legs
  BY DEF Outcome, Legs
<1>2. PICK y \in CallState : /\ calls' = [calls EXCEPT ![c] = y] /\ AsBefore(calls[c], y)
                             /\ y.pc = "record" /\ y.result = "ambiguous"
                             /\ CallOK(c, y, n, receipts[c])
  BY <1>1, Reports
<1>3. CASE UNCHANGED vars
  <2>1. receipts' = [receipts EXCEPT ![c] = receipts[c]] /\ receipts[c] \in Results
    BY StaysPut
  <2>2. Still /\ ConsumesNone /\ [Next]_vars /\ NoFailure
    BY <1>3 DEF vars, Still, ConsumesNone, NoFailure
  <2>3. Owner(y, n) => Owner(calls[c], remote[c])
    BY <1>2 DEF Owner, AsBefore
  <2>4. Claims(y, receipts[c]) => Claims(calls[c], receipts[c])
    BY <1>2 DEF Claims
  <2> QED
    BY <1>1, <1>2, <2>1, <2>2, <2>3, <2>4, SilentStep DEF Acted
<1>4. CASE Keyed(c) /\ MarkAmbiguous(calls[c].key, calls[c].action)
  <2>1. calls[c].key \in Keys /\ calls[c].pc # "idle"
    BY <1>4, Running DEF At
  <2>2. Concludes(c, calls[c], y, remote[c], n)
    BY <1>2, <1>4, <2>1 DEF Concludes, Same, AsBefore, Leg
  <2>3. Deed(c, calls[c], y, remote[c], n)
    BY <2>2 DEF Deed
  <2>4. [Next]_vars /\ UNCHANGED approvals
    BY <1>4, <2>1, HolderWrites
  <2>5. NoFailure
    <3>1. TypeOK /\ "ambiguous" \in EffectStates
      BY DEF CallInv, EffectStates
    <3>2. Wrote(calls[c].key, "ambiguous")
      BY <1>4, <2>1, <3>1, TransitionWrites DEF MarkAmbiguous
    <3> QED
      BY <3>2 DEF NoFailure, Wrote
  <2> QED
    BY <1>1, <1>2, <2>3, <2>4, <2>5, WritingStep DEF Acted
<1> QED
  BY <1>3, <1>4 DEF Outcome, Key, Action

(* What a continuation may do: it has nothing to decide. *)
LEMMA ResumersOnlyRecord ==
    ASSUME CallInv, NEW c \in Resumers, Decides(c)
    PROVE  RecordReceipt(c)
<1>1. /\ c \in Everyone
      /\ calls[c].pc \in {"idle", "run", "record", "over", "suspended", "crashed"}
  BY OfCall DEF CallOK, IsItsOwn, Started, Everyone
<1> QED
  BY <1>1
  DEF Decides, AskHuman, TakeApprovalAndKey, TakeApproval, TakeKeyOnly, ApprovalRefused,
      DuplicateRefused, AmbiguousRefused, BudgetRefused, AskHook, ApplyAnswer, SettleAnswer,
      SpendUnneeded, RefuseCeiling, Release, Unrun, Begin, BeginRefused, At

LEMMA KernelActs ==
    ASSUME CallInv, NEW c \in Everyone, Decides(c) \/ Crash(c)
    PROVE  Acted(c)
<1>1. Stepped(c)
  BY ProgressSteps, CrashSteps DEF Progress
<1>2. ASSUME c \in Resumers PROVE NoFailure
  BY <1>2, ResumersOnlyRecord DEF RecordReceipt, Crash, NoFailure, vars
<1> QED
  BY <1>1, <1>2 DEF Acted

LEMMA ForwardActs ==
    ASSUME CallInv, NEW c \in Everyone, Forwards(c)
    PROVE  Acted(c)
<1>0. TypeOK /\ (At(c, "run") => calls[c].action \in Actions /\ (Keyed(c) <=> Key(c) \in Keys))
  BY Running DEF CallInv, Key
<1>1. CASE Returns(c)
  <2>1. NoFailure
    BY <1>0, <1>1, TransitionWrites
    DEF Returns, Outcome, CommitEffect, NoFailure, Wrote, EffectStates, Resolutions, vars
  <2> QED
    BY <1>1, <2>1, ReturnsSteps DEF Acted
<1>2. CASE Rejected(c)
  <2>1. CASE c \in Calls
    BY <1>2, <2>1, RaisesNotExecutedSteps, KernelConstants DEF Rejected, Acted
  <2>2. CASE c \notin Calls
    <3>1. /\ At(c, "run") /\ remote[c] = "sent"
          /\ remote' = [remote EXCEPT ![c] = "refused"]
          /\ Outcome(c, Unfinished, MarkAmbiguous(Key(c), Action(c)), "ambiguous")
          /\ UNCHANGED <<receipts, forgiven>>
      BY <1>2, <2>2 DEF Rejected
    <3> QED
      BY <3>1, UnknownSteps
  <2> QED
    BY <2>1, <2>2
<1>3. CASE RaisesOther(c)
  <2>1. NoFailure
    BY <1>0, <1>3, TransitionWrites
    DEF RaisesOther, Outcome, MarkAmbiguous, NoFailure, Wrote, EffectStates, vars, HookAvailable
  <2> QED
    BY <1>3, <2>1, RaisesOtherSteps DEF Acted
<1>4. CASE ElicitsStateless(c)
  BY <1>4, UnknownSteps DEF ElicitsStateless
<1>5. CASE Elicits(c)
  <2>1. Suspends(c)
    BY <1>5 DEF Elicits
  <2>2. CASE UNCHANGED vars
    BY <2>1, <2>2, SuspendsSteps DEF Acted, NoFailure, vars
  <2>3. CASE Keyed(c) /\ \E tok \in Tokens : HoldContinuation(Key(c), Action(c), tok)
    <3>1. Key(c) \in Keys /\ Action(c) \in Actions
      BY <1>0, <2>1, <2>3 DEF Suspends, Action
    <3>2. NoFailure
      BY <1>0, <2>3, <3>1, HoldWrites DEF NoFailure, Wrote
    <3> QED
      BY <2>1, <3>2, SuspendsSteps DEF Acted
  <2> QED
    BY <2>1, <2>2, <2>3 DEF Suspends
<1> QED
  BY <1>1, <1>2, <1>3, <1>4, <1>5 DEF Forwards

(* Every step of the gateway is one of these. *)
SomeStep == (\E c \in Everyone : Acted(c)) \/ Outside \/ Wakes \/ Closes

LEMMA QuietSteps ==
    ASSUME UNCHANGED kernelVars
    PROVE  Outside
  BY DEF kernelVars, vars, Outside, Still, ConsumesNone

LEMMA GatewaySteps ==
    ASSUME GatewayInv, [GatewayNext]_gatewayVars
    PROVE  SomeStep
<1>0. CallInv
  BY DEF GatewayInv
<1>1. ASSUME NEW c \in Calls, NEW d \in {"allow", "approve", "deny"}, Execute(c, d)
      PROVE  SomeStep
  <2>1. c \in Everyone /\ c \notin Resumers /\ posts[c].found \in Approvals \cup {NoApproval}
    BY KernelConstants DEF Everyone, GatewayInv, Posted, PostState
  <2>2. PICK id \in Approvals \cup {NoApproval} : Propose(c, d, id)
    BY <1>1, <2>1 DEF Execute
  <2> QED
    BY <1>0, <2>1, <2>2, ProposeSteps DEF SomeStep, Acted
<1>2. ASSUME NEW c \in Resumers, NEW k \in Keys, NEW tok \in Tokens, NEW h \in Hashes,
             NEW posted \in Keys \cup {NoKey}, Continue(c, k, tok, h, posted)
      PROVE  SomeStep
  <2>1. Stepped(c) /\ c \in Everyone
    BY <1>0, <1>2, ResumeSteps DEF Continue, Everyone
  <2>2. NoFailure
    BY <1>2 DEF Continue, Resume, TakeContinuation, NoFailure
  <2> QED
    BY <2>1, <2>2 DEF SomeStep, Acted
<1>3. ASSUME NEW c \in Everyone, UpstreamActs(c) PROVE SomeStep
  <2>1. CASE remote[c] = "sent"
    <3>1. RemoteActs(c)
      BY <1>3, <2>1 DEF UpstreamActs, RemoteActs
    <3>2. NoFailure
      BY <3>1 DEF RemoteActs, NoFailure, vars
    <3> QED
      BY <1>0, <3>1, <3>2, RemoteActsSteps DEF SomeStep, Acted
  <2>2. CASE remote[c] = "asking"
    BY <1>3, <2>2 DEF UpstreamActs, SomeStep, Wakes
  <2> QED
    BY <1>3, <2>1, <2>2 DEF UpstreamActs
<1>4. ASSUME NEW c \in Everyone, DeclareOver(c) PROVE SomeStep
  <2>1. CASE UNCHANGED vars
    BY <1>4, <2>1, QuietSteps DEF DeclareOver, kernelVars, localVars, vars, SomeStep
  <2>2. CASE MarkAmbiguous(posts[c].key, posts[c].holder)
    <3>1. posts[c].key \in Keys
      BY <1>4 DEF DeclareOver, Step, GatewayInv, Counting
    <3>2. posts[c].holder \in Actions
      BY <2>2, <3>1 DEF MarkAmbiguous, HeldIn, GatewayInv, Attributed
    <3> QED
      BY <1>4, <2>2, <3>1, <3>2 DEF DeclareOver, localVars, Closes, SomeStep
  <2> QED
    BY <1>4, <2>1, <2>2 DEF DeclareOver
<1>5. ASSUME NEW c \in Everyone, Forwards(c) \/ Decides(c) \/ Crash(c) PROVE SomeStep
  BY <1>0, <1>5, ForwardActs, KernelActs DEF SomeStep
<1>6. ASSUME NEW c \in Everyone,
             \/ BeforeAsking(c) \/ LookAtRecord(c) \/ CountRounds(c) \/ FindHolder(c)
             \/ \E d, id : Receive(c, d, id)
      PROVE  SomeStep
  BY <1>6, QuietSteps
  DEF BeforeAsking, LookAtRecord, CountRounds, FindHolder, Receive, SomeStep
<1>7. ASSUME NEW k \in Keys, NEW s \in Resolutions, HumanResolves(k, s) PROVE SomeStep
  <2>1. [Next]_vars /\ ConsumesNone
    BY <1>7 DEF HumanResolves, ResolveEffect, Next, KeyStep, Resolvers, ConsumesNone
  <2> QED
    BY <1>7, <2>1 DEF Outside, HumanResolves, SomeStep
<1>8. ASSUME NEW id \in Approvals, HumanAnswers(id) PROVE SomeStep
  BY <1>0, <1>8, AnswerIsOutside DEF SomeStep
<1>9. CASE TimePasses
  BY <1>9 DEF TimePasses, Tick, Next, Outside, Still, ConsumesNone, localVars, SomeStep
<1>10. CASE UNCHANGED gatewayVars
  BY <1>10, QuietSteps DEF gatewayVars, SomeStep
<1> QED
  BY <1>1, <1>2, <1>3, <1>4, <1>5, <1>6, <1>7, <1>8, <1>9, <1>10
  DEF GatewayNext, Inside, Everyone

LEMMA SomeStepIsNext ==
    ASSUME SomeStep
    PROVE  [Next]_vars
<1>1. CASE Closes
  BY <1>1 DEF Closes, Next, HolderStep
<1> QED
  BY <1>1 DEF SomeStep, Acted, Stepped, StepOf, Outside, Wakes

-----------------------------------------------------------------------------
(* What holds of every post, always *)

LEMMA StepAttributed ==
    ASSUME TypeOK, Attributed, [Next]_vars
    PROVE  Attributed'
<1>1. SomeKind
  BY StepKinds
<1>2. ASSUME NEW k \in Keys, NEW a \in Actions, NEW h \in Hashes, NEW t \in Nat, Takes(k, a, h, t)
      PROVE  Attributed'
  BY <1>2, AcquireWrites DEF Takes, Attributed
<1>3. ASSUME NEW k \in Keys, NEW s \in {"executing", "committed", "ambiguous"}, Moves(k, s)
      PROVE  Attributed'
  <2>1. s \in EffectStates
    BY DEF EffectStates, Unfinished, Resolutions
  <2> QED
    BY <1>3, <2>1, TransitionWrites DEF Moves, Attributed, Wrote
<1>4. ASSUME NEW k \in Keys, Fails(k) PROVE Attributed'
  BY <1>4, TransitionWrites DEF Fails, Attributed, Wrote, EffectStates, Resolutions
<1>5. ASSUME NEW k \in Keys, NEW until \in Nat, Extends(k, until) PROVE Attributed'
  BY <1>5 DEF Extends, Attributed, TypeOK, EffectRecord, Unfinished
<1>6. ASSUME NEW k \in Keys, Resolves(k) PROVE Attributed'
  BY <1>6, ResolveWrites DEF Resolves, Attributed, Wrote, Resolutions, Unfinished
<1> QED
  BY <1>1, <1>2, <1>3, <1>4, <1>5, <1>6 DEF SomeKind, Leaves, Attributed

LEMMA WakesCalls == ASSUME CallInv, Wakes PROVE CallInv'
<1>1. PICK c \in Everyone : remote[c] = "asking" /\ remote' = [remote EXCEPT ![c] = "acted"]
  BY DEF Wakes
<1>2. CallOK(c, calls[c], "acted", receipts[c])
  BY <1>1, OfCall
  DEF CallOK, IsItsOwn, IsPlaced, IsSent, IsSecured, IsRecorded, Legs, Started, Secures
<1>3. TypeOK' /\ Tokened'
  BY NextType DEF Wakes, vars, CallInv, Tokened
<1>4. KernelTyped'
  BY <1>1 DEF Wakes, CallInv, KernelTyped, Legs
<1>5. \A d \in Everyone : CallOK(d, calls'[d], remote'[d], receipts'[d])
  BY <1>1, <1>2, OfCall DEF Wakes, CallInv, KernelTyped
<1> QED
  BY <1>3, <1>4, <1>5 DEF CallInv

LEMMA ClosesCalls == ASSUME CallInv, Closes PROVE CallInv'
<1>1. [Next]_vars
  BY SomeStepIsNext DEF SomeStep
<1>2. TypeOK' /\ Tokened'
  BY <1>1, NextType DEF CallInv, Tokened, Closes, MarkAmbiguous
<1> QED
  BY <1>2 DEF Closes, CallInv, KernelTyped

(* What a step does to a post: it moves on, or begins. *)
LEMMA MovedPost ==
    ASSUME Posted, NEW c \in Everyone, NEW s \in Steps, MoveTo(c, s)
    PROVE  /\ posts' \in [Everyone -> PostState]
           /\ \A d \in Everyone \ {c} : posts'[d] = posts[d]
           /\ posts'[c].step = s /\ posts'[c].key = posts[c].key
           /\ posts'[c].decision = posts[c].decision /\ posts'[c].found = posts[c].found
           /\ posts'[c].noes = posts[c].noes
<1>1. PICK p \in PostState : p = posts[c]
  BY DEF Posted
<1>2. PICK q : q = [p EXCEPT !.step = s]
  OBVIOUS
<1>3. /\ q \in PostState /\ q.step = s /\ q.key = p.key /\ q.decision = p.decision
      /\ q.found = p.found /\ q.noes = p.noes
  BY <1>2 DEF PostState
<1>4. posts' = [posts EXCEPT ![c] = q]
  BY <1>1, <1>2 DEF MoveTo
<1> QED
  BY <1>1, <1>3, <1>4 DEF Posted

LEMMA ReceivedPost ==
    ASSUME Posted, NEW c \in Calls, NEW d \in {"allow", "approve", "deny"},
           NEW id \in Approvals \cup {NoApproval}, Receive(c, d, id)
    PROVE  /\ posts' \in [Everyone -> PostState]
           /\ \A e \in Everyone \ {c} : posts'[e] = posts[e]
           /\ posts'[c].step \in {"before", "execute"}
           /\ posts'[c].noes = Denials(HashOf[c])
           /\ posts'[c].decision = d /\ posts'[c].found = id
           /\ posts'[c].step = "execute" /\ d = "approve" => id \in Approvals
<1> DEFINE grants == IF d = "approve" THEN Granted(HashOf[c]) ELSE {}
           s == IF d = "approve" /\ grants = {} THEN "before" ELSE "execute"
<1>1. /\ HashOf[c] \in Hashes /\ KeyOf[c] \in Keys \cup {NoKey} /\ c \in Everyone
      /\ Denials(HashOf[c]) \in SUBSET Approvals
  BY KernelConstants DEF Everyone, Denials
<1>2. PICK q : q = [Unposted EXCEPT !.step = s, !.decision = d, !.found = id, !.sent = HashOf[c],
                                    !.key = KeyOf[c], !.noes = Denials(HashOf[c])]
  OBVIOUS
<1>3. /\ q \in PostState /\ q.step = s /\ q.decision = d /\ q.found = id
      /\ q.noes = Denials(HashOf[c])
  BY <1>1, <1>2 DEF Unposted, PostState, Steps, Choices
<1>4. posts' = [posts EXCEPT ![c] = q]
  BY <1>2 DEF Receive
<1>5. s = "execute" /\ d = "approve" => id \in Approvals
  BY DEF Receive, Granted
<1> QED
  BY <1>1, <1>3, <1>4, <1>5 DEF Posted

LEMMA ContinuedPost ==
    ASSUME Posted, NEW c \in Resumers, NEW k \in Keys, NEW tok \in Tokens, NEW h \in Hashes,
           NEW posted \in Keys \cup {NoKey}, Continue(c, k, tok, h, posted)
    PROVE  /\ posts' \in [Everyone -> PostState]
           /\ \A e \in Everyone \ {c} : posts'[e] = posts[e]
           /\ posts'[c].step = "inside"
<1>1. PICK q : q = [Unposted EXCEPT !.step = "inside", !.sent = h, !.key = posted]
  OBVIOUS
<1>2. q \in PostState /\ q.step = "inside"
  BY <1>1 DEF Unposted, PostState, Steps, Choices
<1>3. posts' = [posts EXCEPT ![c] = q] /\ c \in Everyone
  BY <1>1 DEF Continue, Everyone
<1> QED
  BY <1>2, <1>3 DEF Posted

LEMMA FoundPost ==
    ASSUME CallInv, Posted, Counting, NEW c \in Everyone, FindHolder(c)
    PROVE  /\ posts' \in [Everyone -> PostState]
           /\ \A e \in Everyone \ {c} : posts'[e] = posts[e]
           /\ posts'[c].step \in {"told", "mark"} /\ posts'[c].key = posts[c].key
           /\ posts'[c].noes = posts[c].noes /\ posts'[c].decision = posts[c].decision
<1>1. PICK p \in PostState : p = posts[c]
  BY DEF Posted
<1>2. p.key \in Keys
  BY <1>1 DEF FindHolder, Step, Counting
<1>3. PICK r \in EffectRecord : r = effects[p.key]
  BY <1>2 DEF CallInv, TypeOK
<1>4. PICK q : q = [p EXCEPT !.step = IF r.state = "new" THEN "told" ELSE "mark",
                             !.holder = r.action]
  OBVIOUS
<1>5. /\ q \in PostState /\ q.step \in {"told", "mark"} /\ q.key = p.key /\ q.noes = p.noes
      /\ q.decision = p.decision
  BY <1>3, <1>4 DEF PostState, Steps, EffectRecord
<1>6. posts' = [posts EXCEPT ![c] = q]
  BY <1>1, <1>3, <1>4 DEF FindHolder, Posted
<1> QED
  BY <1>1, <1>5, <1>6 DEF Posted

(* What a step may do to the posts. *)
Moved(c, s) == s \in Steps /\ MoveTo(c, s) /\ (s = "excess" => posts[c].key \in Keys) /\ s # "mark"

LEMMA PostsMove ==
    ASSUME GatewayInv, [GatewayNext]_gatewayVars
    PROVE  /\ \/ posts' = posts
              \/ \E c \in Calls, d \in {"allow", "approve", "deny"}, id \in Approvals \cup {NoApproval} :
                    Receive(c, d, id)
              \/ \E c \in Resumers, k \in Keys, tok \in Tokens, h \in Hashes,
                     posted \in Keys \cup {NoKey} : Continue(c, k, tok, h, posted)
              \/ \E c \in Everyone : FindHolder(c)
              \/ \E c \in Everyone, s \in Steps : Moved(c, s)
           /\ rounds' \in [Keys -> Nat]
<1> DEFINE P == \/ posts' = posts
                \/ \E c \in Calls, d \in {"allow", "approve", "deny"}, id \in Approvals \cup {NoApproval} :
                      Receive(c, d, id)
                \/ \E c \in Resumers, k \in Keys, tok \in Tokens, h \in Hashes,
                       posted \in Keys \cup {NoKey} : Continue(c, k, tok, h, posted)
                \/ \E c \in Everyone : FindHolder(c)
                \/ \E c \in Everyone, s \in Steps : Moved(c, s)
           R == rounds' \in [Keys -> Nat]
<1>0. rounds \in [Keys -> Nat] /\ (rounds' = rounds => R)
  BY DEF GatewayInv, Posted
<1>1. ASSUME NEW c \in Everyone, NEW s \in Steps \ {"excess", "mark"}, MoveTo(c, s) PROVE P
  BY <1>1 DEF Moved
<1>2. {"told", "look", "execute", "inside", "bound"} \subseteq Steps \ {"excess", "mark"}
  BY DEF Steps
<1>3. ASSUME NEW c \in Calls, BeforeAsking(c) \/ LookAtRecord(c) PROVE P /\ R
  <2>1. \E s \in {"told", "look", "execute"} : MoveTo(c, s)
    BY <1>3 DEF BeforeAsking, LookAtRecord
  <2> QED
    BY <1>0, <1>1, <1>2, <1>3, <2>1 DEF BeforeAsking, LookAtRecord, Everyone
<1>4. ASSUME NEW c \in Calls, NEW d, Execute(c, d) PROVE P /\ R
  BY <1>0, <1>1, <1>2, <1>4 DEF Execute, Everyone
<1>5. ASSUME NEW c \in Everyone, Elicits(c) PROVE P /\ R
  <2>1. R
    BY <1>0, <1>5 DEF Elicits
  <2>2. \E s \in {"told", "bound"} : MoveTo(c, s)
    BY <1>5 DEF Elicits
  <2> QED
    BY <1>1, <1>2, <2>1, <2>2
<1>6. ASSUME NEW c \in Everyone, CountRounds(c) PROVE P /\ R
  <2>1. posts[c].key # NoKey => posts[c].key \in Keys
    BY DEF GatewayInv, Posted, PostState
  <2>2. \E s \in Steps : Moved(c, s)
    BY <1>6, <2>1 DEF CountRounds, Moved, Steps
  <2> QED
    BY <1>0, <1>6, <2>2 DEF CountRounds
<1>7. ASSUME NEW c \in Everyone, DeclareOver(c) PROVE P /\ R
  BY <1>0, <1>1, <1>2, <1>7 DEF DeclareOver
<1>8. ASSUME NEW c \in Everyone, Forwards(c) PROVE P /\ R
  BY <1>0, <1>5, <1>8 DEF Forwards
<1>9. ASSUME UNCHANGED <<posts, rounds>> PROVE P /\ R
  BY <1>0, <1>9
<1>10. ASSUME NEW c \in Everyone, FindHolder(c) PROVE P /\ R
  BY <1>0, <1>10 DEF FindHolder
<1>11. ASSUME NEW c \in Resumers, NEW k \in Keys, NEW tok \in Tokens, NEW h \in Hashes,
              NEW posted \in Keys \cup {NoKey}, Continue(c, k, tok, h, posted)
       PROVE  P /\ R
  BY <1>0, <1>11 DEF Continue
<1>12. ASSUME NEW c \in Calls, NEW d \in {"allow", "approve", "deny"},
              NEW id \in Approvals \cup {NoApproval}, Receive(c, d, id)
       PROVE  P /\ R
  BY <1>0, <1>12 DEF Receive
<1>13. [GatewayNext]_gatewayVars => P /\ R
  BY <1>3, <1>4, <1>6, <1>7, <1>8, <1>9, <1>10, <1>11, <1>12
  DEF GatewayNext, Inside, UpstreamActs, gatewayVars
<1> QED
  BY <1>13

LEMMA StepPosted ==
    ASSUME GatewayInv, [GatewayNext]_gatewayVars
    PROVE  Posted' /\ Counting'
<1>0. Posted /\ Counting /\ CallInv /\ Calls \subseteq Everyone /\ Resumers \subseteq Everyone
  BY DEF GatewayInv, Everyone
<1>1. rounds' \in [Keys -> Nat]
  BY PostsMove
<1>2. CASE posts' = posts
  BY <1>0, <1>1, <1>2 DEF Posted, Counting
<1>3. ASSUME NEW c \in Calls, NEW d \in {"allow", "approve", "deny"},
             NEW id \in Approvals \cup {NoApproval}, Receive(c, d, id)
      PROVE  Posted' /\ Counting'
  BY <1>0, <1>1, <1>3, ReceivedPost DEF Posted, Counting
<1>4. ASSUME NEW c \in Resumers, NEW k \in Keys, NEW tok \in Tokens, NEW h \in Hashes,
             NEW posted \in Keys \cup {NoKey}, Continue(c, k, tok, h, posted)
      PROVE  Posted' /\ Counting'
  BY <1>0, <1>1, <1>4, ContinuedPost DEF Posted, Counting
<1>5. ASSUME NEW c \in Everyone, FindHolder(c) PROVE Posted' /\ Counting'
  BY <1>0, <1>1, <1>5, FoundPost DEF Posted, Counting, FindHolder, Step
<1>6. ASSUME NEW c \in Everyone, NEW s \in Steps, Moved(c, s) PROVE Posted' /\ Counting'
  BY <1>0, <1>1, <1>6, MovedPost DEF Posted, Counting, Moved
<1> QED
  BY <1>2, <1>3, <1>4, <1>5, <1>6, PostsMove

LEMMA InitGateway == GatewayInit => GatewayInv
<1> SUFFICES ASSUME GatewayInit PROVE GatewayInv
  OBVIOUS
<1>1. CallInv
  BY InitCalls DEF GatewayInit
<1>2. Attributed
  BY DEF GatewayInit, KernelInit, Init, Attributed, NoRecord, Unfinished
<1>3. Unposted \in PostState /\ Unposted.step = "idle"
  BY DEF Unposted, PostState, Steps, Choices
<1> QED
  BY <1>1, <1>2, <1>3 DEF GatewayInit, GatewayInv, Posted, Counting

LEMMA NextGateway == GatewayInv /\ [GatewayNext]_gatewayVars => GatewayInv' /\ SomeStep
<1> SUFFICES ASSUME GatewayInv, [GatewayNext]_gatewayVars PROVE GatewayInv' /\ SomeStep
  OBVIOUS
<1>1. SomeStep
  BY GatewaySteps
<1>2. CallInv'
  BY <1>1, StepCalls, OutsideCalls, WakesCalls, ClosesCalls DEF SomeStep, Acted, GatewayInv
<1>3. Attributed'
  BY <1>1, SomeStepIsNext, StepAttributed DEF GatewayInv, CallInv
<1> QED
  BY <1>1, <1>2, <1>3, StepPosted DEF GatewayInv

(* Behind the gateway every call keeps its own order too: nothing the upstream     *)
(* does late, and no record declared unknown under a call, puts its program         *)
(* counter, its charges and its receipt at odds.                                    *)
THEOREM PostsAreOrderly == GatewaySpec => []GatewayInv
<1>1. GatewayInv /\ [GatewayNext]_gatewayVars => GatewayInv'
  BY NextGateway
<1> QED
  BY <1>1, InitGateway, PTL DEF GatewaySpec

(* Whatever the gateway does to the tables is one of the store's transactions, the  *)
(* record it declares unknown past the round bound included.                        *)
THEOREM GatewayUsesStore == GatewaySpec => KernelImplementsStore
<1>1. GatewayInit => Init
  BY DEF GatewayInit, KernelInit
<1>2. GatewayInv /\ [GatewayNext]_gatewayVars => [Next]_vars
  BY NextGateway, SomeStepIsNext
<1> QED
  BY <1>1, <1>2, PostsAreOrderly, PTL DEF GatewaySpec, KernelImplementsStore, Spec

(* So behind the gateway no budget is overspent, no attempt is charged twice, what  *)
(* is proven not to have happened is refunded, and a quorum stands behind a grant.  *)
THEOREM GatewayKeepsTables ==
    GatewaySpec => [](/\ WithinBudget /\ RecordsAgree /\ ChargesFollowEffects
                      /\ OneChargePerAttempt /\ QuorumBehindGrant)
BY GatewayUsesStore, BudgetsHold, RecordsAlwaysAgree, ChargesAlwaysFollow, OneChargeAlways,
   QuorumAlways, PTL DEF KernelImplementsStore

-----------------------------------------------------------------------------
(* A continuation follows its call, and a failure is proven by a call that has none *)

(* No leg of the action a record failed under ran, runs, or is held upstream. *)
Unheld ==
    \A k \in Keys : effects[k].state = "failed" /\ effects[k].resolvedBy = NoResolver =>
        \A c \in Everyone : Key(c) = k /\ Action(c) = effects[k].action =>
            remote[c] \notin {"sent", "acted", "asking"}

(* What is resumed, or may be, was led on that key by the call it belongs to. *)
LedOn(k, a) ==
    \E c \in Calls : ActionOf[c] = a /\ Key(c) = k /\ remote[c] \in {"asking", "acted"}

Trailed ==
    /\ \A k \in Keys : continuations[k].token # NoToken => LedOn(k, continuations[k].action)
    /\ \A c \in Resumers : ~At(c, "idle") => LedOn(Key(c), Action(c))

LEMMA TrailedFollowed == Trailed => Followed
  BY DEF Trailed, Followed, LedOn, Led

(* What was led stays led: what the remote asked or did is never taken back. *)
LEMMA LedStays ==
    ASSUME CallInv, NEW c \in Everyone, NEW y, NEW n, Deed(c, calls[c], y, remote[c], n),
           remote' = [remote EXCEPT ![c] = n], calls' = [calls EXCEPT ![c] = y]
    PROVE  \A k, a : LedOn(k, a) =>
               \E e \in Calls : /\ ActionOf[e] = a /\ calls'[e].key = k
                               /\ remote'[e] \in {"asking", "acted"}
<1> SUFFICES ASSUME NEW k, NEW a, LedOn(k, a)
             PROVE  \E e \in Calls : /\ ActionOf[e] = a /\ calls'[e].key = k
                                     /\ remote'[e] \in {"asking", "acted"}
  OBVIOUS
<1>1. PICK e \in Calls : ActionOf[e] = a /\ Key(e) = k /\ remote[e] \in {"asking", "acted"}
  BY DEF LedOn
<1>2. remote'[e] \in {"asking", "acted"} /\ calls'[e].key = k
  BY <1>1
  DEF Deed, Prepares, Continues, Acquires, Starts, Withdraws, Concludes, Parks, TakesUp, Declares,
      Adjudicates, CallInv, KernelTyped, Everyone, Leg, Same, Key
<1> QED
  BY <1>1, <1>2

(* A call of execute parks what it leads; a continuation what it followed. *)
LEMMA StepTrailed ==
    ASSUME CallInv, CallInv', Trailed, NEW c \in Everyone, Stepped(c)
    PROVE  Trailed'
<1>1. PICK y \in CallState, n \in Legs, h \in Results : StepOf(c, y, n, h)
  BY DEF Stepped
<1> DEFINE x == calls[c]
           m == remote[c]
           LedNow(k, a) == \E e \in Calls : /\ ActionOf[e] = a /\ calls'[e].key = k
                                            /\ remote'[e] \in {"asking", "acted"}
<1>2. /\ calls'[c] = y /\ remote'[c] = n /\ remote' = [remote EXCEPT ![c] = n]
      /\ calls' = [calls EXCEPT ![c] = y]
      /\ \A d \in Everyone \ {c} : calls'[d] = calls[d] /\ remote'[d] = remote[d]
      /\ Deed(c, x, y, m, n) /\ Resumers \subseteq Everyone /\ Calls \cap Resumers = {}
  BY <1>1, KernelConstants DEF StepOf, CallInv, KernelTyped, Everyone
<1>3. \A k, a : LedOn(k, a) => LedNow(k, a)
  <2>1. CallInv /\ Deed(c, calls[c], y, remote[c], n)
    BY <1>2
  <2>2. remote' = [remote EXCEPT ![c] = n] /\ calls' = [calls EXCEPT ![c] = y]
    BY <1>2
  <2>3. \A k, a : LedOn(k, a) =>
            \E e \in Calls : /\ ActionOf[e] = a /\ calls'[e].key = k
                            /\ remote'[e] \in {"asking", "acted"}
    BY <2>1, <2>2, LedStays, Zenon
  <2> QED
    BY <2>3
<1>4. Parks(c, x, y, m, n) => LedNow(Key(c), Action(c))
  <2>1. Parks(c, x, y, m, n) => m = "sent" /\ n = "asking" /\ y.key = Key(c)
    BY DEF Parks, Same, Key
  <2>2. CASE m = "sent" /\ n = "asking" /\ y.key = Key(c) /\ c \in Calls
    BY <1>2, <2>2, RunnersAreMade
  <2>3. CASE m = "sent" /\ c \in Resumers
    BY <1>3, <2>3, RunnersAreMade DEF Trailed
  <2> QED
    BY <2>1, <2>2, <2>3 DEF Everyone
<1>5. ASSUME NEW k \in Keys, continuations'[k].token # NoToken
      PROVE  LedNow(k, continuations'[k].action)
  <2>1. CASE continuations'[k] = continuations[k]
    BY <1>3, <1>5, <2>1 DEF Trailed
  <2>2. CASE Parks(c, x, y, m, n) /\ k = Key(c) /\ continuations'[k].action = Action(c)
    BY <1>4, <2>2
  <2> QED
    BY <1>2, <1>5, <2>1, <2>2, ValuesMove
<1>6. ASSUME NEW d \in Resumers, calls'[d].pc # "idle"
      PROVE  LedNow(calls'[d].key, calls'[d].action)
  <2>1. CASE calls[d].pc # "idle" /\ calls'[d].action = Action(d) /\ calls'[d].key = Key(d)
    BY <1>3, <2>1 DEF Trailed, At
  <2>2. CASE d = c /\ TakesUp(c, x, y, m, n)
    <3>1. y.key \in Keys /\ y.action = continuations[y.key].action /\ continuations[y.key].token # NoToken
      BY <2>2, StoreConstants DEF TakesUp, TakeContinuation
    <3> QED
      BY <1>2, <1>3, <2>2, <3>1 DEF Trailed
  <2>3. CASE d = c /\ Same(x, y) /\ ~TakesUp(c, x, y, m, n)
    <3>1. CASE calls[d].pc # "idle"
      BY <1>2, <2>1, <2>3, <3>1 DEF Same, Action, Key
    <3>2. CASE calls[d].pc = "idle"
      <4>1. x.key = NoKey /\ NoKey \notin Keys
        BY <1>2, <2>3, <3>2, OfCall, KernelConstants DEF CallOK, IsSent
      <4>2. y.key \in Keys
        BY <1>2, <1>6, <2>3 DEF CallInv, CallOK, IsItsOwn
      <4> QED
        BY <2>3, <4>1, <4>2 DEF Same
    <3> QED
      BY <3>1, <3>2
  <2>4. CASE d # c
    BY <1>2, <1>6, <2>1, <2>4 DEF Action, Key
  <2>5. d = c => Same(x, y) \/ TakesUp(c, x, y, m, n)
    BY <1>2
    DEF Deed, Prepares, Continues, Acquires, Starts, Withdraws, Concludes, Parks, Declares,
        Adjudicates
  <2> QED
    BY <2>2, <2>3, <2>4, <2>5
<1> QED
  BY <1>5, <1>6 DEF Trailed, LedOn, At, Action, Key

(* A leg that is on its way, held or done was one before, or began on a record that *)
(* is executing.                                                                    *)
LEMMA LegsAreFresh ==
    ASSUME CallInv, NEW c \in Everyone, NEW y, NEW n, Deed(c, calls[c], y, remote[c], n),
           n \in {"sent", "acted", "asking"}, y.key \in Keys
    PROVE  \/ remote[c] \in {"sent", "acted", "asking"} /\ Same(calls[c], y)
           \/ effects'[y.key].state = "executing"
<1>1. CASE Leg(n)
  BY <1>1, FreshLegs DEF Runs, Leg
<1>2. CASE n = "asking"
  BY <1>2
  DEF Deed, Prepares, Continues, Acquires, Starts, Withdraws, Concludes, Parks, TakesUp, Declares,
      Adjudicates, Leg
<1> QED
  BY <1>1, <1>2 DEF Leg

(* Who proves that nothing happened is the call the action belongs to, and nothing  *)
(* follows a call that led nowhere.                                                 *)
LEMMA WithdrawnHasNone ==
    ASSUME CallInv, Followed, NEW c \in Calls, remote[c] \in {"idle", "sent"},
           calls[c].action = ActionOf[c],
           NEW d \in Everyone, d # c, remote[d] # "idle"
    PROVE  Action(d) # Action(c)
<1>1. CASE d \in Calls
  BY <1>1, RunnersAreMade, OneCallPerAction DEF Action
<1>2. CASE d \in Resumers
  <2>1. Led(Action(d))
    BY <1>2, RunnersAreMade DEF Followed
  <2>2. ~Led(ActionOf[c])
    BY OneCallPerAction DEF Led
  <2> QED
    BY <2>1, <2>2 DEF Action
<1> QED
  BY <1>1, <1>2 DEF Everyone

LEMMA StepUnheld ==
    ASSUME CallInv, CallInv', Followed, Unheld, NEW c \in Everyone, Acted(c)
    PROVE  Unheld'
<1>1. PICK y \in CallState, n \in Legs, h \in Results : StepOf(c, y, n, h)
  BY DEF Acted, Stepped
<1>2. /\ calls'[c] = y /\ remote'[c] = n /\ Deed(c, calls[c], y, remote[c], n)
      /\ \A d \in Everyone \ {c} : calls'[d] = calls[d] /\ remote'[d] = remote[d]
  BY <1>1 DEF StepOf, CallInv, KernelTyped
<1>3. ASSUME NEW k \in Keys, effects'[k].state = "failed", effects'[k].resolvedBy = NoResolver,
             NEW d \in Everyone, calls'[d].key = k, calls'[d].action = effects'[k].action,
             remote'[d] \in {"sent", "acted", "asking"}
      PROVE  FALSE
  <2>1. CASE effects'[k] = effects[k]
    <3>1. ~(remote[d] \in {"sent", "acted", "asking"} /\ Same(calls[d], calls'[d]))
      BY <1>3, <2>1 DEF Unheld, Same, Key, Action
    <3>2. CASE d # c
      BY <1>2, <1>3, <3>1, <3>2 DEF Same
    <3>3. CASE d = c
      BY <1>2, <1>3, <3>1, <3>3, LegsAreFresh
    <3> QED
      BY <3>2, <3>3
  <2>2. CASE /\ Withdraws(c, calls[c], y, remote[c], n) /\ k = Key(c)
             /\ effects[k].state = "executing" /\ effects[k].action = Action(c)
    <3>1. effects'[k] # effects[k]
      BY <1>3, <2>2
    <3>2. c \in Calls
      BY <1>3, <3>1 DEF Acted, NoFailure, Everyone
    <3>3. remote[c] \in {"idle", "sent"} /\ Owns(c) /\ n \in {"idle", "refused"}
      BY <2>2 DEF Withdraws, Owns
    <3>4. d # c
      BY <1>2, <1>3, <3>3
    <3>5. remote[d] \in {"sent", "acted", "asking"} /\ Action(d) = effects'[k].action
      BY <1>2, <1>3, <3>4 DEF Action
    <3>6. effects'[k].action = Action(c)
      <4>1. effects'[k].action = effects[k].action \/ effects'[k].action = Action(c)
        BY <1>2, <1>3, DeedRecord
      <4> QED
        BY <2>2, <4>1
    <3>7. calls[c].action = ActionOf[c]
      BY <3>2, <3>3, OwnersAreMade DEF Action
    <3> QED
      BY <3>2, <3>3, <3>4, <3>5, <3>6, <3>7, WithdrawnHasNone
  <2>3. effects'[k].resolvedBy # "hook"
    BY <1>3 DEF NoResolver
  <2> QED
    BY <1>2, <1>3, <2>1, <2>2, <2>3, DeedSettles
<1> QED
  BY <1>3 DEF Unheld, Key, Action

LEMMA NextUnheld ==
    ASSUME GatewayInv, GatewayInv', Trailed, Unheld, SomeStep
    PROVE  Trailed' /\ Unheld'
<1>0. CallInv /\ CallInv' /\ TypeOK
  BY DEF GatewayInv, CallInv
<1>1. CASE \E c \in Everyone : Acted(c)
  BY <1>0, <1>1, StepTrailed, StepUnheld, TrailedFollowed DEF Acted
<1>2. CASE Outside
  <2>1. calls' = calls /\ remote' = remote /\ continuations' = continuations
    BY <1>0, <1>2, OutsideRecord
  <2>2. \A k \in Keys : effects'[k].state = "failed" /\ effects'[k].resolvedBy = NoResolver =>
            effects'[k] = effects[k]
    BY <1>0, <1>2, OutsideSettles DEF NoResolver
  <2> QED
    BY <2>1, <2>2 DEF Trailed, LedOn, Unheld, Key, Action, At
<1>3. CASE Wakes
  <2>1. PICK c \in Everyone : remote[c] = "asking" /\ remote' = [remote EXCEPT ![c] = "acted"]
    BY <1>3 DEF Wakes
  <2>2. \A d \in Everyone : /\ remote[d] \in {"asking", "acted"} => remote'[d] \in {"asking", "acted"}
                            /\ remote'[d] \in {"sent", "acted", "asking"} =>
                                  remote[d] \in {"sent", "acted", "asking"}
    BY <1>0, <2>1 DEF CallInv, KernelTyped
  <2>3. UNCHANGED <<effects, continuations, calls>>
    BY <1>3 DEF Wakes, vars
  <2>4. \A k, a : LedOn(k, a) =>
            \E e \in Calls : /\ ActionOf[e] = a /\ calls'[e].key = k
                            /\ remote'[e] \in {"asking", "acted"}
    BY <2>2, <2>3 DEF LedOn, Key, Everyone
  <2>5. Trailed'
    BY <2>3, <2>4 DEF Trailed, LedOn, At, Action, Key
  <2>6. Unheld'
    BY <2>2, <2>3 DEF Unheld, Key, Action
  <2> QED
    BY <2>5, <2>6
<1>4. CASE Closes
  <2>1. PICK k \in Keys, a \in Actions : MarkAmbiguous(k, a)
    BY <1>4 DEF Closes
  <2>2. Wrote(k, "ambiguous")
    BY <1>0, <2>1, TransitionWrites DEF MarkAmbiguous, EffectStates
  <2>3. UNCHANGED <<calls, remote, continuations>>
    BY <1>4 DEF Closes, MarkAmbiguous
  <2> QED
    BY <2>2, <2>3 DEF Wrote, Trailed, LedOn, Unheld, Key, Action, At
<1> QED
  BY <1>1, <1>2, <1>3, <1>4 DEF SomeStep

LEMMA GatewayFollows == GatewaySpec => [](GatewayInv /\ Trailed /\ Unheld)
<1>1. GatewayInit => Trailed /\ Unheld
  BY DEF GatewayInit, KernelInit, Init, NoRecord, IdleCall, Trailed, Unheld, At, Everyone
<1>2. GatewayInv /\ GatewayInv' /\ Trailed /\ Unheld /\ [GatewayNext]_gatewayVars
          => Trailed' /\ Unheld'
  BY NextGateway, NextUnheld
<1> QED
  BY <1>1, <1>2, PostsAreOrderly, PTL DEF GatewaySpec

(* A record that is FAILED on the gateway's word names an attempt of which no leg   *)
(* ran, is on its way, or is held by an upstream that asked a question: a refused   *)
(* continuation is recorded as unknown, and nothing follows a call that was refused *)
(* before it led anywhere.                                                          *)
THEOREM GatewayFailuresAreProven == GatewaySpec => []NothingFailedWhileHeld
<1>1. Unheld => NothingFailedWhileHeld
  BY DEF Unheld, NothingFailedWhileHeld, OfAttempt
<1> QED
  BY <1>1, GatewayFollows, PTL

(* Nor is any request that acted, acts or may act under that attempt. *)
THEOREM GatewayProvesFailures == GatewaySpec => []FailedProvesNothing
<1>1. Unheld => FailedProvesNothing
  BY DEF Unheld, FailedProvesNothing, OfAttempt
<1> QED
  BY <1>1, GatewayFollows, PTL

-----------------------------------------------------------------------------
(* What the kernel promises, kept behind the gateway *)

Held(c) == remote[c] \in {"sent", "acted", "asking"}

(* A leg whose attempt the record is done with was pardoned, one that asked included. *)
HeldPardoned ==
    /\ \A k \in Keys : Excused(k)
    /\ \A c \in Calls : Owns(c) /\ Held(c) =>
          \/ calls[c].attempt \in forgiven[Key(c)]
          \/ calls[c].attempt = Record(c).attempt /\ Record(c).state # "failed"

Promises == Numbered /\ SpendsOwn /\ Named /\ Truthful /\ Paid /\ HeldPardoned

LEMMA WakesPromises ==
    ASSUME CallInv, Promises, Wakes
    PROVE  Promises'
<1>1. PICK c \in Everyone : remote[c] = "asking" /\ remote' = [remote EXCEPT ![c] = "acted"]
  BY DEF Wakes
<1>2. UNCHANGED <<vars, calls, receipts, forgiven>>
  BY DEF Wakes
<1>3. UNCHANGED <<effects, ledger, approvals, continuations>>
  BY <1>2 DEF vars
<1>4. \A d \in Everyone : /\ remote'[d] = "idle" <=> remote[d] = "idle"
                          /\ (Held(d))' => Held(d)
  BY <1>1 DEF CallInv, KernelTyped, Held
<1>5. \A d \in Everyone : (Owns(d))' <=> Owns(d)
  BY <1>2, <1>4 DEF Owns, Owner
<1>6. Calls \subseteq Everyone /\ Resumers \subseteq Everyone
  BY DEF Everyone
<1>7. Numbered' /\ Named'
  BY <1>2, <1>3, <1>5, <1>6 DEF Promises, Numbered, Named, Record, Key, Action
<1>8. SpendsOwn' /\ Truthful'
  BY <1>2, <1>3 DEF Promises, SpendsOwn, Truthful, Claims, Keyed, Record, Key, Action
<1>9. Paid'
  BY <1>2, <1>3, <1>5, <1>6 DEF Promises, Paid, Key
<1>10. HeldPardoned'
  BY <1>2, <1>3, <1>4, <1>5, <1>6 DEF Promises, HeldPardoned, Excused, Record, Key
<1> QED
  BY <1>7, <1>8, <1>9, <1>10 DEF Promises

LEMMA ClosesPromises ==
    ASSUME CallInv, Promises, Closes
    PROVE  Promises'
<1>1. PICK j \in Keys, a \in Actions : MarkAmbiguous(j, a)
  BY DEF Closes
<1>2. Wrote(j, "ambiguous") /\ effects[j].state \in Unfinished
  BY <1>1, TransitionWrites DEF MarkAmbiguous, EffectStates, CallInv, HeldIn
<1>3. UNCHANGED <<calls, remote, receipts, forgiven, ledger, approvals>>
  BY <1>1 DEF Closes, MarkAmbiguous
<1>4. \A k \in Keys : /\ effects'[k].attempt = effects[k].attempt
                      /\ effects'[k].action = effects[k].action
                      /\ effects'[k].state = "failed" <=> effects[k].state = "failed"
                      /\ effects[k].state = "committed" => effects'[k] = effects[k]
  BY <1>2 DEF Wrote, Unfinished
<1>5. \A d \in Everyone : (Owns(d) => Key(d) \in Keys) /\ (Key(d) # NoKey => Key(d) \in Keys)
  BY DEF Owns, Owner, Key, CallInv, KernelTyped, CallState
<1>6. Calls \subseteq Everyone /\ Resumers \subseteq Everyone
  BY DEF Everyone
<1>7. Numbered'
  BY <1>3, <1>4, <1>5, <1>6 DEF Promises, Numbered, Owns, Owner, Record, Key
<1>8. Named'
  BY <1>3, <1>4, <1>5, <1>6 DEF Promises, Named, Owns, Owner, Record, Key, Action
<1>9. SpendsOwn' /\ Paid'
  BY <1>3 DEF Promises, SpendsOwn, Paid, Owns, Owner, Key
<1>10. Truthful'
  BY <1>3, <1>4, <1>5 DEF Promises, Truthful, Claims, Keyed, Record, Key, Action
<1>11. HeldPardoned'
  BY <1>3, <1>4, <1>5, <1>6 DEF Promises, HeldPardoned, Excused, Owns, Owner, Held, Record, Key
<1> QED
  BY <1>7, <1>8, <1>9, <1>10, <1>11 DEF Promises

(* What is held after the step of a call, before that step. *)
LEMMA HeldBefore ==
    ASSUME CallInv, NEW c \in Everyone, Stepped(c), NEW d \in Calls, (Owns(d))', (Held(d))'
    PROVE  /\ Owns(d) /\ calls'[d].key = Key(d) /\ calls'[d].action = Action(d)
           /\ calls'[d].attempt = calls[d].attempt
           /\ \/ Held(d)
              \/ /\ d = c /\ effects[Key(d)].action = Action(d)
                 /\ effects'[Key(d)].state = "executing"
                 /\ effects'[Key(d)].attempt = effects[Key(d)].attempt
<1>1. PICK y \in CallState, n \in Legs, h \in Results : StepOf(c, y, n, h)
  BY DEF Stepped
<1>2. /\ calls'[c] = y /\ remote'[c] = n
      /\ \A e \in Everyone \ {c} : calls'[e] = calls[e] /\ remote'[e] = remote[e]
      /\ Calls \subseteq Everyone
  BY <1>1 DEF StepOf, CallInv, KernelTyped, Everyone
<1>3. CASE d # c
  BY <1>2, <1>3 DEF Owns, Held, Key, Action
<1>4. CASE d = c /\ n # "asking"
  <2>1. (Runs(d))'
    BY <1>2, <1>4 DEF Held, Runs, Leg
  <2> QED
    BY <2>1, LegBefore DEF Runs, Leg, Held
<1>5. CASE d = c /\ n = "asking"
  <2>1. Deed(c, calls[c], y, remote[c], n)
    BY <1>1 DEF StepOf
  <2>2. Same(calls[c], y) /\ remote[c] \in {"sent", "acted", "asking"}
    BY <1>5, <2>1
    DEF Deed, Prepares, Continues, Acquires, Starts, Withdraws, Concludes, Parks, TakesUp,
        Declares, Adjudicates, Leg
  <2>3. Owns(c)
    BY <1>2, <1>5, <2>2 DEF Owns, Owner, Same
  <2> QED
    BY <1>2, <1>5, <2>2, <2>3 DEF Same, Held, Key, Action
<1> QED
  BY <1>3, <1>4, <1>5

LEMMA StepHeldPardoned ==
    ASSUME CallInv, CallInv', RecordsAgree, Numbered, Followed, Named, HeldPardoned,
           NEW c \in Everyone, Acted(c)
    PROVE  HeldPardoned'
<1>1. PICK y \in CallState, n \in Legs, h \in Results : StepOf(c, y, n, h)
  BY DEF Acted, Stepped
<1> DEFINE x == calls[c]
           m == remote[c]
<1>2. /\ calls'[c] = y /\ remote'[c] = n /\ Deed(c, x, y, m, n)
      /\ Calls \subseteq Everyone /\ Stepped(c)
  BY <1>1 DEF StepOf, CallInv, KernelTyped, Everyone, Acted
<1>3. \A k \in Keys :
          \/ effects'[k].attempt = effects[k].attempt
          \/ /\ Acquires(c, x, y, m, n) /\ k = Key(c)
             /\ effects'[k].attempt = effects[k].attempt + 1
  BY <1>2, DeedRecord
<1>4. \A k \in Keys : (Excused(k))'
  BY <1>2, StepExcused DEF HeldPardoned
<1>5. \A k \in Keys : forgiven[k] \subseteq forgiven'[k]
  BY <1>2, DeedSettles
<1>6. ASSUME NEW d \in Calls, (Owns(d))', (Held(d))'
      PROVE  \/ calls'[d].attempt \in forgiven'[calls'[d].key]
             \/ /\ calls'[d].attempt = effects'[calls'[d].key].attempt
                /\ effects'[calls'[d].key].state # "failed"
  <2>1. /\ d \in Everyone /\ Owns(d) /\ calls'[d].key = Key(d)
        /\ calls'[d].action = Action(d) /\ calls'[d].attempt = calls[d].attempt
        /\ \/ Held(d)
           \/ /\ d = c /\ effects[Key(d)].action = Action(d)
              /\ effects'[Key(d)].state = "executing"
              /\ effects'[Key(d)].attempt = effects[Key(d)].attempt
    BY <1>2, <1>6, HeldBefore
  <2>2. Key(d) \in Keys /\ calls[d].attempt >= 1 /\ calls[d].attempt \in Nat
    BY <2>1, OwnersAreMade DEF Numbered
  <2>3. CASE ~Held(d)
    BY <2>1, <2>3 DEF Named, Record
  <2>4. CASE calls[d].attempt \in forgiven[Key(d)]
    BY <1>5, <2>1, <2>2, <2>4
  <2>5. CASE Held(d) /\ calls[d].attempt = effects[Key(d)].attempt /\ effects[Key(d)].state # "failed"
    <3>1. effects[Key(d)].state # "new"
      BY <2>2, <2>5 DEF RecordsAgree
    <3>2. effects'[Key(d)].attempt = effects[Key(d)].attempt
      <4>1. Acquires(c, x, y, m, n) /\ Key(d) = Key(c) => Free(effects[Key(d)])
        BY AcquireWrites DEF Acquires, CallInv, Key
      <4> QED
        BY <1>3, <2>2, <2>5, <3>1, <4>1 DEF Free
    <3>3. CASE effects'[Key(d)].state = "failed"
      <4>1. \/ calls[d].attempt \in forgiven'[Key(d)]
            \/ /\ Withdraws(c, x, y, m, n) /\ Key(d) = Key(c)
               /\ effects[Key(d)].action = Action(c)
        BY <1>2, <2>2, <2>5, <3>3, DeedSettles
      <4>2. ASSUME Withdraws(c, x, y, m, n), Key(d) = Key(c), effects[Key(d)].action = Action(c)
            PROVE  FALSE
        <5>1. d # c
          BY <1>2, <1>6, <2>5, <4>2 DEF Withdraws, Held
        <5>2. Action(d) = Action(c)
          BY <2>1, <2>5, <4>2 DEF Named, Record
        <5>3. c \in Calls
          BY <2>2, <2>5, <3>3 DEF Acted, NoFailure, Everyone
        <5>4. remote[c] \in {"idle", "sent"} /\ Owns(c)
          BY <4>2 DEF Withdraws, Owns
        <5>5. calls[c].action = ActionOf[c]
          BY <5>3, <5>4, OwnersAreMade DEF Action
        <5>6. remote[d] # "idle"
          BY <2>5 DEF Held
        <5> QED
          BY <2>1, <5>1, <5>2, <5>3, <5>4, <5>5, <5>6, WithdrawnHasNone
      <4> QED
        BY <2>1, <4>1, <4>2
    <3> QED
      BY <2>1, <2>5, <3>2, <3>3
  <2> QED
    BY <2>1, <2>3, <2>4, <2>5 DEF HeldPardoned, Record
<1> QED
  BY <1>4, <1>6 DEF HeldPardoned, Record, Key

LEMMA OutsideHeldPardoned == ASSUME CallInv, HeldPardoned, Outside PROVE HeldPardoned'
<1>1. calls' = calls /\ remote' = remote
  BY OutsideRecord
<1>2. \A k \in Keys : (Excused(k))'
  BY OutsideExcused DEF HeldPardoned
<1>3. ASSUME NEW d \in Calls, Owns(d), Held(d)
      PROVE  \/ calls[d].attempt \in forgiven'[Key(d)]
             \/ calls[d].attempt = effects'[Key(d)].attempt /\ effects'[Key(d)].state # "failed"
  <2>1. Key(d) \in Keys
    BY <1>3 DEF Owns, Owner, Key
  <2>2. \/ calls[d].attempt \in forgiven[Key(d)]
        \/ calls[d].attempt = effects[Key(d)].attempt /\ effects[Key(d)].state # "failed"
    BY <1>3 DEF HeldPardoned, Record
  <2> QED
    BY <2>1, <2>2, OutsideSettles
<1> QED
  BY <1>1, <1>2, <1>3 DEF HeldPardoned, Owns, Held, Record, Key

LEMMA NextPromises ==
    ASSUME GatewayInv, GatewayInv', RecordsAgree, Followed, Promises, SomeStep
    PROVE  Promises'
<1>0. CallInv /\ CallInv'
  BY DEF GatewayInv
<1>1. ASSUME NEW c \in Everyone, Acted(c) PROVE Promises'
  BY <1>0, <1>1, StepNumbered, StepSpends, StepNamed, StepTruthful, StepPaid, StepHeldPardoned
  DEF Acted, Promises
<1>2. CASE Outside
  BY <1>0, <1>2, OutsideNumbered, OutsideSpends, OutsideNamed, OutsideTruthful, OutsidePaid,
     OutsideHeldPardoned
  DEF Promises
<1> QED
  BY <1>0, <1>1, <1>2, WakesPromises, ClosesPromises DEF SomeStep

LEMMA GatewayPromises == GatewaySpec => []Promises
<1>1. GatewayInit => Promises
  <2>1. KernelInit => Truthful
    BY DEF KernelInit, Truthful, Claims, IdleCall
  <2>2. KernelInit => Paid
    BY DEF KernelInit, Paid, Owns, Owner, IdleCall, Secures, Everyone
  <2>3. KernelInit => HeldPardoned
    BY FS_EmptySet
    DEF KernelInit, HeldPardoned, Excused, Owns, Owner, IdleCall, Secures, Everyone
  <2> QED
    BY <2>1, <2>2, <2>3, InitNumbered, InitSpends, InitNamed DEF GatewayInit, Promises
<1>2. GatewayInv /\ GatewayInv' /\ RecordsAgree /\ Followed /\ Promises
        /\ [GatewayNext]_gatewayVars => Promises'
  <2> SUFFICES ASSUME GatewayInv, GatewayInv', RecordsAgree, Followed, Promises,
                      [GatewayNext]_gatewayVars
               PROVE  Promises'
    OBVIOUS
  <2>1. SomeStep
    BY NextGateway
  <2> QED
    BY <2>1, NextPromises
<1>3. GatewaySpec => []RecordsAgree
  BY GatewayKeepsTables, PTL
<1> QED
  BY <1>1, <1>2, <1>3, PostsAreOrderly, GatewayFollows, TrailedFollowed, PTL DEF GatewaySpec

LEMMA PromisedCharges == CallInv /\ Paid /\ HeldPardoned /\ ChargesFollowEffects => ChargesAreEarned
<1> SUFFICES ASSUME CallInv, Paid, HeldPardoned, ChargesFollowEffects PROVE ChargesAreEarned
  OBVIOUS
<1>1. ASSUME NEW c \in Calls, NEW l \in Lines, Ran(c), Cost[HashOf[c]][l] > 0
      PROVE  \E row \in ledger : /\ row.line = l /\ row.key = Key(c)
                                /\ row.attempt = calls[c].attempt
                                /\ row.amount = Cost[HashOf[c]][l]
  <2>1. c \in Everyone /\ IsSecured(c, calls[c], remote[c]) /\ calls[c] \in CallState
    BY OfCall DEF Everyone, CallOK
  <2>2. Key(c) # NoKey
    BY <1>1, <2>1 DEF IsSecured, Unkeyed, Ran, Key
  <2>3. Owns(c)
    BY <1>1, <2>1, <2>2 DEF CallState, Owns, Owner, Ran, Key
  <2> QED
    BY <1>1, <2>3 DEF Paid
<1>2. ASSUME NEW row \in ledger, ~row.held, NEW c \in ActedOn(row.key) \cap Calls,
             calls[c].attempt = row.attempt
      PROVE  row.attempt \in forgiven[row.key]
  <2>1. row.key \in Keys
    BY DEF CallInv, TypeOK, Consumption
  <2>2. Owns(c) /\ Held(c) /\ Key(c) = row.key
    BY <2>1 DEF ActedOn, Owns, Owner, Held, Key
  <2> QED
    BY <1>2, <2>2 DEF HeldPardoned, ChargesFollowEffects, Record
<1> QED
  BY <1>1, <1>2 DEF ChargesAreEarned

(* Behind the gateway no more executors start than the ceiling allows, an approval  *)
(* is spent by one call and for its own hash, and a receipt stays true, although    *)
(* the upstream runs late what it had answered with a question and the gateway      *)
(* declares records unknown under calls that know nothing of it.                    *)
THEOREM GatewayKeepsPromises ==
    GatewaySpec => [](OneRunPerApproval /\ CeilingHolds /\ ReceiptsAreTrue)
<1>1. CallInv /\ Promises => OneRunPerApproval /\ CeilingHolds /\ ReceiptsAreTrue
  BY NumberedCeiling, SpendsOnce, TruthfulReceipts DEF Promises
<1> QED
  BY <1>1, PostsAreOrderly, GatewayPromises, PTL DEF GatewayInv

(* Whatever the upstream runs was charged before it was sent, and the charge is     *)
(* given back only for an attempt it never ran or that somebody pardoned, an        *)
(* attempt that ended on a question included.                                       *)
THEOREM GatewayChargesAreEarned == GatewaySpec => []ChargesAreEarned
<1>1. GatewaySpec => []ChargesFollowEffects
  BY GatewayKeepsTables, PTL
<1>2. GatewayInv /\ Promises /\ ChargesFollowEffects => ChargesAreEarned
  BY PromisedCharges DEF GatewayInv, Promises
<1> QED
  BY <1>1, <1>2, PostsAreOrderly, GatewayPromises, PTL

-----------------------------------------------------------------------------
(* "No" is an answer *)

(* What a post noted as refused when it arrived was, and still is: for its own hash. *)
Noted ==
    \A c \in Calls : \A id \in posts[c].noes :
        id \in Approvals /\ approvals[id].status = "denied" /\ approvals[id].hash = HashOf[c]

(* A call that has nothing to present and is past the look for a refusal. *)
Unrefused(c) ==
    \/ Step(c, "look")
    \/ Step(c, "execute") /\ posts[c].decision = "approve" /\ posts[c].found = NoApproval
    \/ At(c, "ask") /\ posts[c].decision = "approve"

LapsedNoes == \A c \in Calls : Unrefused(c) => \A id \in posts[c].noes : ~Current(id)

(* A refusal is final, and it does not come back once it has lapsed. *)
LEMMA DeniedStays ==
    ASSUME TypeOK, [Next]_vars, NEW id \in Approvals, approvals[id].status = "denied"
    PROVE  /\ approvals'[id] = approvals[id]
           /\ ~Current(id) => ~(Current(id))'
<1>1. approvals'[id] = approvals[id]
  BY ApprovalStepKinds DEF ApprovalKinds
<1>2. now' = now \/ now' = now + 1
  BY DEF Next, vars, Tick, KeyStep, HolderStep, ApprovalStep, ReserveEffect, TakeKey, ConsumeApprovalAndReserve,
     BeginExecution, CommitEffect, FailEffect, MarkAmbiguous, ExtendLease, HoldContinuation,
     TakeContinuation, ResolveEffect, AmbiguateLapsed, PutApprovalRequest, GrantApproval,
     DenyApproval, ExpireApproval, ConsumeApproval
<1>3. now \in Nat /\ approvals[id].expires \in Nat
  BY DEF TypeOK, ApprovalRecord
<1> QED
  BY <1>1, <1>2, <1>3 DEF Current

(* Only execute brings a call to the question. *)
LEMMA NoNewAsk ==
    ASSUME CallInv, NEW c \in Everyone, Forwards(c) \/ Decides(c) \/ Crash(c)
    PROVE  calls'[c].pc # "ask" /\ \A d \in Everyone \ {c} : calls'[d] = calls[d]
<1> DEFINE Elsewhere == calls'[c].pc # "ask" /\ \A d \in Everyone \ {c} : calls'[d] = calls[d]
<1>1. PICK x \in CallState : x = calls[c]
  BY DEF CallInv, KernelTyped
<1>2. calls \in [Everyone -> CallState]
  BY DEF CallInv, KernelTyped
<1>3. ASSUME NEW y, y.pc # "ask", calls' = [calls EXCEPT ![c] = y] PROVE Elsewhere
  BY <1>2, <1>3
<1>4. ASSUME NEW pc, pc # "ask", Goto(c, pc) PROVE Elsewhere
  BY <1>2, <1>4 DEF Goto, CallState
<1>5. ASSUME NEW result, Refuse(c, result) PROVE Elsewhere
  BY <1>2, <1>5 DEF Refuse, CallState
<1>6. \A k, n : Secured(k, n) # "ask"
  BY DEF Secured
<1>7. CASE Forwards(c)
  BY <1>4, <1>5, <1>7
  DEF Forwards, Returns, Rejected, RaisesNotExecuted, RaisesOther, ElicitsStateless, Elicits,
      Suspends, Outcome
<1>8. CASE Crash(c)
  BY <1>4, <1>8 DEF Crash
<1>9. CASE TakeApprovalAndKey(c) \/ TakeApproval(c) \/ TakeKeyOnly(c)
  <2>1. \E spent, n : Took(c, spent, n)
    BY <1>9 DEF TakeApprovalAndKey, TakeApproval, TakeKeyOnly
  <2>2. PICK spent, n : Took(c, spent, n)
    BY <2>1
  <2>3. PICK pc : /\ pc = IF ~Approving(c) /\ calls[c].presented # NoApproval
                          THEN "spend" ELSE Secured(Key(c), n)
                  /\ calls' = [calls EXCEPT ![c].pc = pc, ![c].spent = spent, ![c].attempt = n]
    BY <2>2 DEF Took
  <2>4. pc # "ask"
    BY <1>6, <2>3
  <2>5. PICK y : y = [x EXCEPT !.pc = pc, !.spent = spent, !.attempt = n]
    OBVIOUS
  <2>6. y.pc = pc /\ calls' = [calls EXCEPT ![c] = y]
    BY <1>1, <1>2, <2>3, <2>5 DEF CallState
  <2> QED
    BY <1>3, <2>4, <2>6
<1>10. CASE SpendUnneeded(c)
  <2>1. PICK pc : /\ pc = Secured(Key(c), calls[c].attempt)
                  /\ \/ calls' = [calls EXCEPT ![c].pc = pc, ![c].spent = calls[c].presented]
                     \/ Goto(c, pc)
    BY <1>10 DEF SpendUnneeded
  <2>2. PICK y : y = [x EXCEPT !.pc = pc, !.spent = calls[c].presented]
    OBVIOUS
  <2>3. y.pc = pc
    BY <2>2 DEF CallState
  <2>4. \/ calls' = [calls EXCEPT ![c] = y]
        \/ Goto(c, pc)
    BY <1>1, <1>2, <2>1, <2>2
  <2> QED
    BY <1>3, <1>4, <1>6, <2>1, <2>3, <2>4
<1>11. CASE AskHook(c)
  <2>1. PICK pc \in {"resolve", "settle"}, ans \in HookAnswers(Key(c)) :
            calls' = [calls EXCEPT ![c].pc = pc, ![c].asked = TRUE, ![c].answer = ans]
    BY <1>11 DEF AskHook
  <2>2. PICK y : y = [x EXCEPT !.pc = pc, !.asked = TRUE, !.answer = ans]
    OBVIOUS
  <2>3. y.pc = pc /\ calls' = [calls EXCEPT ![c] = y]
    BY <1>1, <1>2, <2>1, <2>2 DEF CallState
  <2> QED
    BY <1>3, <2>1, <2>3
<1>12. CASE AskHuman(c) \/ RefuseCeiling(c) \/ Release(c) \/ Unrun(c) \/ Begin(c) \/ BeginRefused(c)
            \/ RecordReceipt(c)
  BY <1>4, <1>5, <1>12 DEF AskHuman, RefuseCeiling, Release, Unrun, Begin, BeginRefused, RecordReceipt
<1>13. CASE ApprovalRefused(c) \/ DuplicateRefused(c) \/ AmbiguousRefused(c) \/ BudgetRefused(c)
            \/ ApplyAnswer(c) \/ SettleAnswer(c)
  BY <1>4, <1>5, <1>13
  DEF ApprovalRefused, DuplicateRefused, AmbiguousRefused, BudgetRefused, ApplyAnswer, SettleAnswer
<1> QED
  BY <1>7, <1>8, <1>9, <1>10, <1>11, <1>12, <1>13 DEF Decides

(* What a step leaves of a post and of the call behind it. *)
LEMMA NoesMove ==
    ASSUME GatewayInv, [GatewayNext]_gatewayVars, NEW c \in Calls
    PROVE  \/ posts'[c].noes = posts[c].noes
           \/ posts'[c].noes = Denials(HashOf[c]) /\ UNCHANGED approvals
<1>0. Posted /\ Counting /\ CallInv /\ c \in Everyone /\ c \notin Resumers
  BY KernelConstants DEF GatewayInv, Everyone
<1>1. ASSUME NEW e \in Calls, NEW d \in {"allow", "approve", "deny"},
             NEW id \in Approvals \cup {NoApproval}, Receive(e, d, id)
      PROVE  \/ posts'[c].noes = posts[c].noes
             \/ posts'[c].noes = Denials(HashOf[c]) /\ UNCHANGED approvals
  BY <1>0, <1>1, ReceivedPost DEF Receive, kernelVars, vars
<1>2. ASSUME NEW e \in Resumers, NEW k \in Keys, NEW tok \in Tokens, NEW h \in Hashes,
             NEW posted \in Keys \cup {NoKey}, Continue(e, k, tok, h, posted)
      PROVE  posts'[c].noes = posts[c].noes
  BY <1>0, <1>2, ContinuedPost
<1>3. ASSUME NEW e \in Everyone, FindHolder(e) PROVE posts'[c].noes = posts[c].noes
  BY <1>0, <1>3, FoundPost
<1>4. ASSUME NEW e \in Everyone, NEW s \in Steps, Moved(e, s) PROVE posts'[c].noes = posts[c].noes
  BY <1>0, <1>4, MovedPost DEF Moved
<1> QED
  BY <1>1, <1>2, <1>3, <1>4, PostsMove

LEMMA StepNoted ==
    ASSUME GatewayInv, Noted, [GatewayNext]_gatewayVars
    PROVE  Noted'
<1>1. TypeOK /\ [Next]_vars
  BY NextGateway, SomeStepIsNext DEF GatewayInv, CallInv
<1>2. ASSUME NEW c \in Calls, NEW id \in posts'[c].noes
      PROVE  id \in Approvals /\ approvals'[id].status = "denied" /\ approvals'[id].hash = HashOf[c]
  <2>1. CASE posts'[c].noes = posts[c].noes
    <3>1. id \in Approvals /\ approvals[id].status = "denied" /\ approvals[id].hash = HashOf[c]
      BY <1>2, <2>1 DEF Noted
    <3> QED
      BY <1>1, <3>1, DeniedStays
  <2>2. CASE posts'[c].noes = Denials(HashOf[c]) /\ UNCHANGED approvals
    BY <1>2, <2>2 DEF Denials
  <2> QED
    BY <2>1, <2>2, NoesMove
<1> QED
  BY <1>2 DEF Noted

(* A call is past the look only because it looked, and what it saw was none. *)
LEMMA Looked ==
    ASSUME GatewayInv, Noted, [GatewayNext]_gatewayVars, NEW c \in Calls, (Unrefused(c))'
    PROVE  \/ Unrefused(c) /\ posts'[c].noes = posts[c].noes
           \/ (\A id \in posts[c].noes : ~Current(id)) /\ posts'[c].noes = posts[c].noes
<1> DEFINE Kept == posts'[c].noes = posts[c].noes /\ posts'[c].decision = posts[c].decision
           Was == Unrefused(c) /\ posts'[c].noes = posts[c].noes
           None == (\A id \in posts[c].noes : ~Current(id)) /\ posts'[c].noes = posts[c].noes
<1>0. /\ Posted /\ Counting /\ CallInv /\ c \in Everyone /\ c \notin Resumers
      /\ \/ posts'[c].step = "look"
         \/ /\ posts'[c].step = "execute" /\ posts'[c].decision = "approve"
            /\ posts'[c].found = NoApproval
         \/ calls'[c].pc = "ask" /\ posts'[c].decision = "approve"
  BY KernelConstants DEF GatewayInv, Everyone, Unrefused, Step, At
<1>1. CASE posts'[c] = posts[c] /\ (calls'[c].pc = "ask" => calls[c].pc = "ask")
  BY <1>0, <1>1 DEF Unrefused, Step, At
<1>2. CASE /\ Kept /\ posts'[c].step \notin {"look", "execute"}
           /\ calls'[c].pc = "ask" => calls[c].pc = "ask"
  BY <1>0, <1>2 DEF Unrefused, At
<1>3. ASSUME NEW e \in Calls, NEW d \in {"allow", "approve", "deny"},
             NEW id \in Approvals \cup {NoApproval}, Receive(e, d, id)
      PROVE  Was \/ None
  <2>1. calls' = calls /\ At(e, "idle") /\ e \in Everyone
    BY <1>3 DEF Receive, kernelVars, Everyone
  <2>2. CASE e = c
    BY <1>0, <1>3, <2>1, <2>2, ReceivedPost, KernelConstants DEF At
  <2>3. CASE e # c
    BY <1>0, <1>1, <1>3, <2>1, <2>3, ReceivedPost
  <2> QED
    BY <2>2, <2>3
<1>4. ASSUME NEW e \in Calls, BeforeAsking(e) PROVE Was \/ None
  <2>1. PICK s \in {"told", "look"} : /\ MoveTo(e, s) /\ s \in Steps
                                      /\ (s = "look" => Refused(HashOf[e]) = {})
    BY <1>4 DEF BeforeAsking, Steps
  <2>2. calls' = calls /\ e \in Everyone
    BY <1>4 DEF BeforeAsking, kernelVars, Everyone
  <2>3. CASE e # c
    BY <1>0, <1>1, <2>1, <2>2, <2>3, MovedPost
  <2>4. CASE e = c /\ s = "told"
    BY <1>0, <1>2, <2>1, <2>2, <2>4, MovedPost
  <2>5. CASE e = c /\ s = "look"
    <3>1. \A id \in posts[c].noes : ~Current(id)
      BY <2>1, <2>5 DEF Noted, Refused, Denials
    <3> QED
      BY <1>0, <2>1, <2>2, <2>5, <3>1, MovedPost
  <2> QED
    BY <2>1, <2>3, <2>4, <2>5
<1>5. ASSUME NEW e \in Calls, LookAtRecord(e) PROVE Was \/ None
  <2>1. PICK s \in {"told", "execute"} : MoveTo(e, s) /\ s \in Steps
    BY <1>5 DEF LookAtRecord, Steps
  <2>2. calls' = calls /\ e \in Everyone /\ Step(e, "look")
    BY <1>5 DEF LookAtRecord, kernelVars, Everyone
  <2>3. CASE e # c
    BY <1>0, <1>1, <2>1, <2>2, <2>3, MovedPost
  <2>4. CASE e = c
    BY <1>0, <2>1, <2>2, <2>4, MovedPost DEF Unrefused
  <2> QED
    BY <2>3, <2>4
<1>6. ASSUME NEW e \in Calls, NEW d \in {"allow", "approve", "deny"}, Execute(e, d)
      PROVE  Was \/ None
  <2>1. MoveTo(e, "inside") /\ "inside" \in Steps /\ e \in Everyone /\ Step(e, "execute")
        /\ \A b \in Everyone \ {e} : calls'[b] = calls[b]
    BY <1>0, <1>6 DEF Execute, Steps, Everyone, Propose, CallInv, KernelTyped
  <2>2. CASE e # c
    BY <1>0, <1>1, <2>1, <2>2, MovedPost
  <2>3. CASE e = c
    <3>1. Kept /\ posts'[c].step = "inside"
      BY <1>0, <2>1, <2>3, MovedPost
    <3>2. calls'[c].pc = "ask" => d = "approve" /\ posts[c].found = NoApproval
      BY <1>0, <1>6, <2>3 DEF Execute, Propose, CallInv, KernelTyped, IdleCall
    <3> QED
      BY <1>0, <2>1, <2>3, <3>1, <3>2 DEF Unrefused
  <2> QED
    BY <2>2, <2>3
<1>7. ASSUME NEW e \in Resumers, NEW k \in Keys, NEW tok \in Tokens, NEW h \in Hashes,
             NEW posted \in Keys \cup {NoKey}, Continue(e, k, tok, h, posted)
      PROVE  Was \/ None
  BY <1>0, <1>1, <1>7, ContinuedPost DEF Continue, Resume, CallInv, KernelTyped, Everyone
<1>8. ASSUME NEW e \in Everyone, Forwards(e) PROVE Was \/ None
  <2>1. calls'[e].pc # "ask" /\ \A d \in Everyone \ {e} : calls'[d] = calls[d]
    BY <1>0, <1>8, NoNewAsk
  <2>2. CASE posts' = posts
    BY <1>0, <1>1, <2>1, <2>2
  <2>3. ASSUME NEW s \in {"told", "bound"}, MoveTo(e, s) PROVE Was \/ None
    <3>1. s \in Steps
      BY DEF Steps
    <3>2. CASE e = c
      BY <1>0, <1>2, <2>1, <2>3, <3>1, <3>2, MovedPost
    <3>3. CASE e # c
      BY <1>0, <1>1, <2>1, <2>3, <3>1, <3>3, MovedPost
    <3> QED
      BY <3>2, <3>3
  <2> QED
    BY <1>8, <2>2, <2>3 DEF Forwards, Elicits
<1>9. ASSUME NEW e \in Everyone, Decides(e) \/ Crash(e), posts' = posts PROVE Was \/ None
  BY <1>0, <1>1, <1>9, NoNewAsk
<1>10. ASSUME NEW e \in Everyone, CountRounds(e) \/ DeclareOver(e) PROVE Was \/ None
  <2>1. PICK s \in {"told", "excess"} : MoveTo(e, s) /\ s \in Steps
    BY <1>10 DEF CountRounds, DeclareOver, Steps
  <2>2. calls' = calls
    BY <1>10 DEF CountRounds, DeclareOver, kernelVars
  <2>3. CASE e = c
    BY <1>0, <1>2, <2>1, <2>2, <2>3, MovedPost
  <2>4. CASE e # c
    BY <1>0, <1>1, <2>1, <2>2, <2>4, MovedPost
  <2> QED
    BY <2>3, <2>4
<1>11. ASSUME NEW e \in Everyone, FindHolder(e) PROVE Was \/ None
  <2>1. calls' = calls
    BY <1>11 DEF FindHolder, kernelVars
  <2> QED
    BY <1>0, <1>1, <1>2, <1>11, <2>1, FoundPost
<1>12. CASE posts' = posts /\ calls' = calls
  BY <1>0, <1>1, <1>12
<1> QED
  BY <1>3, <1>4, <1>5, <1>6, <1>7, <1>8, <1>9, <1>10, <1>11, <1>12
  DEF GatewayNext, Inside, UpstreamActs, HumanResolves, HumanAnswers, TimePasses, gatewayVars,
      kernelVars

LEMMA StepLapsed ==
    ASSUME GatewayInv, Noted, LapsedNoes, [GatewayNext]_gatewayVars
    PROVE  LapsedNoes'
<1>1. TypeOK /\ [Next]_vars
  BY NextGateway, SomeStepIsNext DEF GatewayInv, CallInv
<1>2. ASSUME NEW c \in Calls, (Unrefused(c))', NEW id \in posts'[c].noes PROVE ~(Current(id))'
  <2>1. posts'[c].noes = posts[c].noes /\ \A n \in posts[c].noes : ~Current(n)
    BY <1>2, Looked DEF LapsedNoes
  <2>2. id \in Approvals /\ approvals[id].status = "denied" /\ ~Current(id)
    BY <1>2, <2>1 DEF Noted
  <2> QED
    BY <1>1, <2>2, DeniedStays
<1> QED
  BY <1>2 DEF LapsedNoes

LEMMA NoesLapse == GatewaySpec => [](Noted /\ LapsedNoes)
<1>1. GatewayInit => Noted /\ LapsedNoes
  BY DEF GatewayInit, KernelInit, IdleCall, Unposted, Noted, LapsedNoes, Unrefused, Step, At,
         Everyone
<1>2. GatewayInv /\ Noted /\ LapsedNoes /\ [GatewayNext]_gatewayVars => Noted' /\ LapsedNoes'
  BY StepNoted, StepLapsed
<1> QED
  BY <1>1, <1>2, PostsAreOrderly, PTL DEF GatewaySpec

(* "No" is an answer: no human is asked for what one of them had refused when the   *)
(* call arrived, as long as that refusal lasts, whatever was granted, resolved or   *)
(* consumed between the look and the question.                                      *)
THEOREM RefusalsAreFinal == GatewaySpec => NoIsAnAnswer
<1>1. LapsedNoes /\ [GatewayNext]_gatewayVars =>
          [\A c \in Calls :
              (At(c, "ask") /\ calls'[c].pc = "waiting" /\ posts[c].decision = "approve") =>
                  \A id \in posts[c].noes : ~Current(id)]_gatewayVars
  BY DEF LapsedNoes, Unrefused
<1> QED
  BY <1>1, NoesLapse, PTL DEF GatewaySpec, NoIsAnAnswer

-----------------------------------------------------------------------------
(* What ran was pardoned, behind the gateway too *)

(* An exchange, a request and its continuations, is run once. *)
RunOnce ==
    \A c, d \in Everyone :
        c # d /\ remote[c] = "acted" /\ remote[d] = "acted" /\ Key(c) = Key(d) /\ Key(c) \in Keys
            => Action(c) # Action(d)

(* Only the upstream makes anything happen. *)
LEMMA NoNewAct ==
    ASSUME GatewayInv, [GatewayNext]_gatewayVars, NEW d \in Everyone,
           remote'[d] = "acted", remote[d] # "acted"
    PROVE  UpstreamActs(d)
<1>0. remote \in [Everyone -> Legs] /\ Calls \subseteq Everyone /\ Resumers \subseteq Everyone
  BY DEF GatewayInv, CallInv, KernelTyped, Everyone
<1>1. ASSUME NEW e \in Everyone, NEW v, v # "acted", remote' = [remote EXCEPT ![e] = v]
      PROVE  FALSE
  BY <1>0, <1>1
<1>2. CASE remote' = remote
  BY <1>2
<1>3. ASSUME NEW c \in Calls, NEW e, NEW id, Propose(c, e, id) PROVE FALSE
  BY <1>0, <1>1, <1>2, <1>3 DEF Propose
<1>4. ASSUME NEW c \in Everyone, NEW k, NEW tok, Resume(c, k, tok) PROVE FALSE
  BY <1>1, <1>4 DEF Resume
<1>5. ASSUME NEW c \in Everyone, Forwards(c) PROVE FALSE
  BY <1>1, <1>2, <1>5
  DEF Forwards, Returns, Rejected, RaisesNotExecuted, RaisesOther, ElicitsStateless, Elicits,
      Suspends, localVars
<1>6. ASSUME NEW c \in Everyone, Decides(c) \/ Crash(c) PROVE FALSE
  BY <1>1, <1>2, <1>6
  DEF Decides, Crash, AskHuman, TakeApprovalAndKey, TakeApproval, TakeKeyOnly, Took,
      ApprovalRefused, DuplicateRefused, AmbiguousRefused, BudgetRefused, AskHook, ApplyAnswer,
      SettleAnswer, SpendUnneeded, RefuseCeiling, Release, Unrun, Begin, BeginRefused,
      RecordReceipt, localVars
<1>7. ASSUME NEW c \in Everyone, UpstreamActs(c) PROVE UpstreamActs(d)
  BY <1>0, <1>7 DEF UpstreamActs
<1> QED
  BY <1>0, <1>2, <1>3, <1>4, <1>5, <1>6, <1>7
  DEF GatewayNext, Inside, Receive, BeforeAsking, LookAtRecord, Execute, Continue, CountRounds,
      FindHolder, DeclareOver, HumanResolves, HumanAnswers, TimePasses, gatewayVars, kernelVars,
      localVars

(* What ran is about what it was about, for good. *)
LEMMA RanStays ==
    ASSUME GatewayInv, SomeStep, NEW d \in Everyone, remote[d] = "acted"
    PROVE  calls'[d].key = Key(d) /\ calls'[d].action = Action(d)
<1>1. ASSUME NEW c \in Everyone, Acted(c)
      PROVE  calls'[d].key = Key(d) /\ calls'[d].action = Action(d)
  <2>1. PICK y \in CallState, n \in Legs, h \in Results : StepOf(c, y, n, h)
    BY <1>1 DEF Acted, Stepped
  <2>2. /\ calls'[c] = y /\ Deed(c, calls[c], y, remote[c], n)
        /\ \A e \in Everyone \ {c} : calls'[e] = calls[e]
    BY <2>1 DEF StepOf, GatewayInv, CallInv, KernelTyped
  <2>3. c = d => Same(calls[c], y)
    BY <2>2
    DEF Deed, Prepares, Continues, Acquires, Starts, Withdraws, Concludes, Parks, TakesUp,
        Declares, Adjudicates
  <2> QED
    BY <2>2, <2>3 DEF Same, Key, Action
<1>2. CASE Outside \/ Wakes \/ Closes
  BY <1>2 DEF Outside, Wakes, Closes, Key, Action
<1> QED
  BY <1>1, <1>2 DEF SomeStep

LEMMA StepRunOnce ==
    ASSUME GatewayInv, RunOnce, [GatewayNext]_gatewayVars
    PROVE  RunOnce'
<1>0. SomeStep
  BY NextGateway
<1>1. ASSUME NEW c \in Everyone, NEW d \in Everyone, c # d, remote'[c] = "acted",
             remote'[d] = "acted", calls'[c].key = calls'[d].key, calls'[c].key \in Keys,
             calls'[c].action = calls'[d].action, UpstreamActs(c)
      PROVE  FALSE
  <2>1. remote[d] = "acted" /\ calls' = calls
    BY <1>1 DEF UpstreamActs, GatewayInv, CallInv, KernelTyped
  <2>2. Keyed(c) /\ d \in Exchange(c)
    BY <1>1, <2>1, KernelConstants DEF Keyed, Key, Action, Exchange
  <2> QED
    BY <1>1, <2>1, <2>2 DEF UpstreamActs
<1>2. ASSUME NEW c \in Everyone, NEW d \in Everyone, c # d, remote'[c] = "acted",
             remote'[d] = "acted", calls'[c].key = calls'[d].key, calls'[c].key \in Keys,
             calls'[c].action = calls'[d].action
      PROVE  FALSE
  <2>1. remote[c] = "acted" /\ remote[d] = "acted"
    BY <1>1, <1>2, NoNewAct
  <2> QED
    BY <1>0, <1>2, <2>1, RanStays DEF RunOnce
<1> QED
  BY <1>2 DEF RunOnce, Key, Action

LEMMA ExchangesRunOnce == GatewaySpec => []RunOnce
<1>1. GatewayInit => RunOnce
  BY DEF GatewayInit, KernelInit, RunOnce
<1>2. GatewayInv /\ RunOnce /\ [GatewayNext]_gatewayVars => RunOnce'
  BY StepRunOnce
<1> QED
  BY <1>1, <1>2, PostsAreOrderly, PTL DEF GatewaySpec

(* What ran was led by a call of execute; each of these has a number of its own,    *)
(* and all but the last were pardoned.                                              *)
LEMMA PardonedActs ==
    CallInv /\ Numbered /\ HeldPardoned /\ Trailed /\ RunOnce => ActsArePardoned
<1> SUFFICES ASSUME CallInv, Numbered, HeldPardoned, Trailed, RunOnce, NEW k \in Keys
             PROVE  /\ Cardinality(ActedOn(k)) <= 1 + Cardinality(forgiven[k])
                    /\ \A c, d \in ActedOn(k) \cap Calls :
                          c # d => /\ calls[c].attempt # calls[d].attempt
                                   /\ calls[c].attempt < calls[d].attempt =>
                                          calls[c].attempt \in forgiven[k]
  BY DEF ActsArePardoned
<1> DEFINE Leads(e, c) == /\ ActionOf[e] = Action(c) /\ Key(e) = k
                          /\ remote[e] \in {"asking", "acted"}
           lead(c) == CHOOSE e \in Calls : Leads(e, c)
           S == ActedOn(k)
           T == forgiven[k] \cup {effects[k].attempt}
           f == [c \in S |-> calls[lead(c)].attempt]
<1>1. ASSUME NEW c \in S PROVE lead(c) \in Calls /\ Leads(lead(c), c)
  <2>1. c \in Everyone /\ Key(c) = k /\ remote[c] = "acted"
    BY <1>1 DEF ActedOn
  <2>2. \E e \in Calls : Leads(e, c)
    <3>1. CASE c \in Calls
      BY <2>1, <3>1, RunnersAreMade
    <3>2. CASE c \in Resumers
      BY <2>1, <3>2, RunnersAreMade DEF Trailed, LedOn
    <3> QED
      BY <2>1, <3>1, <3>2 DEF Everyone
  <2> QED
    BY <2>2
<1>2. ASSUME NEW e \in Calls, Key(e) = k, remote[e] \in {"asking", "acted"}
      PROVE  Owns(e) /\ calls[e].attempt \in T
  <2>1. Owns(e) /\ Held(e)
    BY <1>2 DEF Owns, Owner, Held, Key
  <2> QED
    BY <1>2, <2>1 DEF HeldPardoned, Record
<1>3. f \in [S -> T]
  BY <1>1, <1>2
<1>4. ASSUME NEW c \in S, NEW d \in S, f[c] = f[d] PROVE c = d
  <2>1. lead(c) = lead(d)
    <3>1. calls[lead(c)].attempt = calls[lead(d)].attempt
      BY <1>4
    <3>2. Owns(lead(c)) /\ Owns(lead(d)) /\ Key(lead(c)) = Key(lead(d))
          /\ lead(c) \in Calls /\ lead(d) \in Calls
      BY <1>1, <1>2, <1>4
    <3> HIDE DEF lead
    <3> QED
      BY <3>1, <3>2 DEF Numbered
  <2>2. Action(c) = Action(d)
    BY <1>1, <1>4, <2>1
  <2> QED
    BY <1>4, <2>2 DEF RunOnce, ActedOn
<1>5. f \in Injection(S, T)
  BY <1>3, <1>4 DEF Injection, IsInjective
<1>6. IsFiniteSet(forgiven[k])
  BY DEF HeldPardoned, Excused
<1>7. /\ IsFiniteSet(T) /\ Cardinality(forgiven[k]) \in Nat
      /\ Cardinality(T) \in {Cardinality(forgiven[k]), Cardinality(forgiven[k]) + 1}
  BY <1>6, FS_AddElement, FS_CardinalityType
<1>8. Cardinality(S) <= Cardinality(T) /\ IsFiniteSet(S)
  BY <1>5, <1>7, FS_Injection
<1>9. Cardinality(S) <= 1 + Cardinality(forgiven[k])
  <2>1. Cardinality(S) \in Nat
    BY <1>8, FS_CardinalityType
  <2> QED
    BY <1>7, <1>8, <2>1
<1>10. ASSUME NEW c \in S \cap Calls, NEW d \in S \cap Calls, c # d
       PROVE  /\ calls[c].attempt # calls[d].attempt
              /\ calls[c].attempt < calls[d].attempt => calls[c].attempt \in forgiven[k]
  <2>1. /\ c \in Everyone /\ d \in Everyone /\ c \in Calls /\ d \in Calls
        /\ Key(c) = k /\ Key(d) = k /\ Owns(c) /\ Owns(d) /\ calls[c].attempt \in T
    BY <1>2, <1>10 DEF ActedOn, Everyone
  <2>2. calls[c].attempt # calls[d].attempt
    BY <1>10, <2>1 DEF Numbered
  <2>3. calls[d].attempt <= effects[k].attempt /\ calls[d].attempt \in Nat
        /\ calls[c].attempt \in Nat /\ effects[k].attempt \in Nat
    BY <2>1, OwnersAreMade DEF Numbered, Record, CallInv, TypeOK, EffectRecord
  <2> QED
    BY <2>1, <2>2, <2>3
<1> QED
  BY <1>9, <1>10

(* Behind the gateway too, an effect happens at most once more than somebody        *)
(* pardoned an attempt, and of two calls that both did it the earlier was pardoned: *)
(* whatever the upstream runs late belongs to an exchange, which it runs once, and  *)
(* every exchange is led by one call with an attempt number of its own.             *)
THEOREM GatewayActsArePardoned == GatewaySpec => []ActsArePardoned
<1>1. GatewayInv /\ Promises /\ Trailed /\ RunOnce => ActsArePardoned
  BY PardonedActs DEF GatewayInv, Promises
<1> QED
  BY <1>1, PostsAreOrderly, GatewayFollows, GatewayPromises, ExchangesRunOnce, PTL

(* To whoever looks at one effect only, the gateway is what the kernel is: one      *)
(* attempt at a time, done for ever, and unknown until somebody says what happened. *)
THEOREM GatewayKeepsPromise == GatewaySpec => KeepsPromise
BY GatewayUsesStore, StoreKeepsPromise, PTL DEF KernelImplementsStore
=============================================================================
