---------------------------- MODULE Gates_proofs ----------------------------
(***************************************************************************)
(* The gates of an approval, for every number of actions, approvals,       *)
(* principals, worlds and attempts.  What a call knows of its approval is  *)
(* kept in GateOK, which each step of the call changes at one place and    *)
(* which no other step disturbs: an answer once given stays, and a request *)
(* that exists keeps its hash and its fingerprint.                         *)
(***************************************************************************)
EXTENDS Gates, EffectStore_proofs

Gate == [pc : Places, hash : Hashes \cup {NoHash}, key : Keys \cup {NoKey},
         id : Approvals \cup {NoApproval}, provides : BOOLEAN, print : Worlds \cup {NoPrint},
         seen : ApprovalStatus, again : BOOLEAN, answer : Resolutions \cup {"unknown"},
         matched : BOOLEAN, scoped : BOOLEAN]

GateTypeOK ==
    /\ world \in Worlds /\ within \in BOOLEAN
    /\ prints \in [Approvals -> Worlds \cup {NoPrint}]
    /\ gates \in [Actions -> Gate]

(* Where a call has an approval request, and where that request was answered. *)
Requested == {"readback", "waiting", "withdraw", "reread", "spend", "withdrawn",
              "scope", "read", "fetch", "take", "hook", "resolve", "taken"}
Final == {"denied", "consumed", "expired"}
Answered(id) == approvals[id].status \notin {"absent", "pending"}

(* The recheck saw a grant, or had a precondition to compare. *)
Looked(a) == gates[a].seen = "granted" \/ Preconditioned(a)

IsPresented(a) ==
    /\ gates[a].pc # "idle" => gates[a].hash \in Hashes
    /\ gates[a].pc \in Requested =>
           gates[a].id \in Approvals /\ Approval(a).status # "absent"
    /\ gates[a].pc \in {"hook", "resolve"} => gates[a].key \in Keys

(* What held at this moment of a pass is remembered, and what let it pass is so. *)
IsChecked(a) ==
    /\ InPass(a) /\ world = prints[gates[a].id] => gates[a].matched
    /\ InPass(a) /\ within => gates[a].scoped
    /\ gates[a].pc \in {"read", "fetch", "take", "taken"} => gates[a].scoped
    /\ gates[a].pc \in {"take", "taken"} /\ Preconditioned(a) => gates[a].matched

(* A grant that was looked at has its answers for good, and they fit. *)
IsFit(a) ==
    /\ gates[a].pc \in {"fetch", "take"} /\ Looked(a) =>
           /\ Answered(gates[a].id)
           /\ Approval(a).hash = gates[a].hash => Fit(gates[a].id)
    /\ gates[a].pc = "taken" =>
           Answered(gates[a].id) /\ (Looked(a) => Fit(gates[a].id))

IsWithdrawn(a) ==
    /\ gates[a].pc \in {"reread", "spend"} => Answered(gates[a].id)
    /\ gates[a].pc = "withdrawn" => Approval(a).status \in Final

GateOK(a) == IsPresented(a) /\ IsChecked(a) /\ IsFit(a) /\ IsWithdrawn(a)

(* A request that exists is for some action hash. *)
Hashed == \A id \in Approvals : approvals[id].status # "absent" => approvals[id].hash \in Hashes

GatesInv ==
    /\ TypeOK /\ GateTypeOK /\ Hashed
    /\ \A a \in Actions : GateOK(a)

-----------------------------------------------------------------------------
(* What the store may do to a request that a call has *)

LEMMA HashedSteps == ASSUME TypeOK, Hashed, [Next]_vars PROVE Hashed'
<1>1. CASE approvals' = approvals
  BY <1>1 DEF Hashed
<1>2. ASSUME NEW x \in Approvals, NEW h \in Hashes, NEW n \in 1..MaxNeeded,
             PutApprovalRequest(x, h, n)
      PROVE  Hashed'
  BY <1>2 DEF PutApprovalRequest, Hashed, TypeOK
<1>3. ASSUME NEW x \in Approvals, NEW v, GrantApproval(x, v) \/ DenyApproval(x, v)
      PROVE  Hashed'
  <2>1. approvals[x] \in ApprovalRecord /\ approvals[x].status # "absent"
    BY <1>3 DEF TypeOK, GrantApproval, DenyApproval, Answerable
  <2>2. ASSUME NEW s, NEW y,
               approvals' = [approvals EXCEPT ![x] = [approvals[x] EXCEPT !.answers = y, !.status = s]]
        PROVE  Hashed'
    BY <2>1, <2>2 DEF Hashed, TypeOK, ApprovalRecord
  <2>3. ASSUME NEW s, NEW y,
               approvals' = [approvals EXCEPT ![x].status = s, ![x].answers = y]
        PROVE  Hashed'
    BY <2>1, <2>3 DEF Hashed, TypeOK, ApprovalRecord
  <2> QED
    BY <1>3, <2>2, <2>3 DEF GrantApproval, DenyApproval
<1>4. ASSUME NEW x \in Approvals, NEW s, approvals[x].status # "absent",
             approvals' = [approvals EXCEPT ![x].status = s]
      PROVE  Hashed'
  <2>1. \A id \in Approvals : approvals[id] \in ApprovalRecord
    BY DEF TypeOK
  <2> QED
    BY <1>4, <2>1 DEF Hashed, TypeOK, ApprovalRecord
<1>5. ASSUME NEW x \in Approvals, ApprovalStep(x) PROVE Hashed'
  BY <1>2, <1>3, <1>4, <1>5
  DEF ApprovalStep, ExpireApproval, ConsumeApproval, Overdue, Consumable, GrantedFor
<1>6. ASSUME NEW k \in Keys, NEW a \in Actions, HolderStep(k, a) PROVE Hashed'
  BY <1>1, <1>4, <1>6
  DEF HolderStep, ReserveEffect, ConsumeApprovalAndReserve, Consumable, GrantedFor,
      BeginExecution, CommitEffect, FailEffect, MarkAmbiguous, ExtendLease, HoldContinuation
<1> QED
  BY <1>1, <1>5, <1>6
  DEF Next, vars, KeyStep, AmbiguateLapsed, ResolveEffect, TakeContinuation, Tick

(* A request that exists keeps its hash, an answered one its answers, a final one all. *)
LEMMA RequestsStay ==
    ASSUME TypeOK, [Next]_vars, NEW id \in Approvals, approvals[id].status # "absent"
    PROVE  /\ approvals'[id].status # "absent" /\ approvals'[id].hash = approvals[id].hash
           /\ Answered(id) => Answered(id)' /\ approvals'[id].answers = approvals[id].answers
           /\ approvals[id].status \in Final => approvals'[id].status \in Final
<1>1. ApprovalKinds(id) /\ approvals[id] \in ApprovalRecord
  BY ApprovalStepKinds DEF TypeOK
<1>2. ASSUME NEW s \in {"consumed", "expired"},
             approvals'[id] = [approvals[id] EXCEPT !.status = s]
      PROVE  /\ approvals'[id].status = s /\ approvals'[id].hash = approvals[id].hash
             /\ approvals'[id].answers = approvals[id].answers
  BY <1>1, <1>2 DEF ApprovalRecord
<1> QED
  BY <1>1, <1>2 DEF ApprovalKinds, Answered, Final, ApprovalRecord, ApprovalStatus

(* A call that does not move is told nothing new by anybody else's step. *)
LEMMA OthersKeep ==
    ASSUME GatesInv, [Next]_vars, NEW b \in Actions, gates'[b] = gates[b],
           UNCHANGED theWorld,
           \A id \in Approvals : approvals[id].status # "absent" => prints'[id] = prints[id]
    PROVE  GateOK(b)'
<1>1. GateOK(b) /\ TypeOK
  BY DEF GatesInv
<1>2. CASE gates[b].pc \in Requested
  <2> DEFINE id == gates[b].id
  <2>1. id \in Approvals /\ approvals[id].status # "absent"
    BY <1>1, <1>2 DEF GateOK, IsPresented, Approval
  <2>2. prints'[id] = prints[id]
    BY <2>1
  <2>3. /\ approvals'[id].status # "absent" /\ approvals'[id].hash = approvals[id].hash
        /\ Answered(id) => Answered(id)' /\ approvals'[id].answers = approvals[id].answers
        /\ approvals[id].status \in Final => approvals'[id].status \in Final
    BY <1>1, <2>1, RequestsStay
  <2>4. Answered(id) => (Fit(id) <=> Fit(id)')
    BY <2>3 DEF Fit, theWorld
  <2>5. IsPresented(b)' /\ IsChecked(b)'
    BY <1>1, <2>1, <2>2, <2>3
    DEF GateOK, IsPresented, IsChecked, Approval, Preconditioned, InPass, theWorld
  <2>6. IsFit(b)' /\ IsWithdrawn(b)'
    BY <1>1, <2>1, <2>2, <2>3, <2>4
    DEF GateOK, IsFit, IsWithdrawn, Approval, Preconditioned, Looked, Answered
  <2> QED
    BY <2>5, <2>6 DEF GateOK
<1>3. CASE gates[b].pc \notin Requested
  BY <1>1, <1>3
  DEF GateOK, IsPresented, IsChecked, IsFit, IsWithdrawn, InPass, Requested
<1> QED
  BY <1>2, <1>3

-----------------------------------------------------------------------------
(* The steps of a call *)

PrintsStay == \A id \in Approvals : approvals[id].status # "absent" => prints'[id] = prints[id]

(* A step of one call: a transaction of the store or none, and its own state only. *)
Moved(a) ==
    /\ [Next]_vars /\ UNCHANGED theWorld /\ PrintsStay
    /\ GateTypeOK'
    /\ \A b \in Actions \ {a} : gates'[b] = gates[b]
    /\ GateOK(a)'

(* Nothing of a call's state changes but where it is. *)
Stays(g, f) ==
    /\ f \in Gate
    /\ f.hash = g.hash /\ f.key = g.key /\ f.id = g.id /\ f.provides = g.provides
    /\ f.print = g.print /\ f.seen = g.seen /\ f.again = g.again /\ f.answer = g.answer
    /\ f.matched = g.matched /\ f.scoped = g.scoped

Alone(a) ==
    gates' \in [Actions -> Gate] /\ \A b \in Actions \ {a} : gates'[b] = gates[b]

LEMMA GotoIs ==
    ASSUME GateTypeOK, NEW a \in Actions, NEW pc \in Places, Goto(a, pc)
    PROVE  gates'[a].pc = pc /\ Stays(gates[a], gates'[a]) /\ Alone(a)
<1>1. gates[a] \in Gate /\ gates \in [Actions -> Gate]
  BY DEF GateTypeOK
<1>2. gates'[a] = [gates[a] EXCEPT !.pc = pc] /\ \A b \in Actions \ {a} : gates'[b] = gates[b]
  BY <1>1 DEF Goto
<1>3. gates'[a] \in Gate /\ gates' = [gates EXCEPT ![a] = gates'[a]]
  BY <1>1, <1>2 DEF Goto, Gate
<1>4. gates' \in [Actions -> Gate]
  BY <1>1, <1>3
<1>5. gates'[a].pc = pc /\ Stays(gates[a], gates'[a])
  BY <1>1, <1>2, <1>3 DEF Stays, Gate
<1> QED
  BY <1>2, <1>4, <1>5 DEF Alone

(* A pass begins with what holds at this moment. *)
LEMMA PassIs ==
    ASSUME GateTypeOK, NEW f \in Gate, NEW again \in BOOLEAN
    PROVE  /\ Pass(f, again) \in Gate /\ Pass(f, again).pc = "scope"
           /\ Pass(f, again).id = f.id /\ Pass(f, again).hash = f.hash
           /\ Pass(f, again).key = f.key /\ Pass(f, again).provides = f.provides
           /\ world = prints[f.id] => Pass(f, again).matched
           /\ within => Pass(f, again).scoped
<1>1. PICK m \in BOOLEAN : m = (world = prints[f.id])
  OBVIOUS
<1>2. Pass(f, again) = [f EXCEPT !.pc = "scope", !.again = again, !.matched = m, !.scoped = within]
  BY <1>1 DEF Pass
<1>3. /\ Pass(f, again) \in Gate /\ Pass(f, again).pc = "scope"
      /\ Pass(f, again).id = f.id /\ Pass(f, again).hash = f.hash
      /\ Pass(f, again).key = f.key /\ Pass(f, again).provides = f.provides
      /\ Pass(f, again).matched = m /\ Pass(f, again).scoped = within
  BY <1>2 DEF Gate, Places, GateTypeOK
<1> QED
  BY <1>1, <1>3

LEMMA CallMoves ==
    ASSUME GatesInv, NEW a \in Actions, NEW h \in Hashes, NEW k \in Keys \cup {NoKey},
           NEW p \in BOOLEAN,
           Ask(a, h, k, p) \/ \E id \in Approvals : Present(a, h, k, id, p)
    PROVE  Moved(a)
<1>0. GateTypeOK
  BY DEF GatesInv
<1>1. CASE Ask(a, h, k, p)
  <2> DEFINE g == [Idle EXCEPT !.pc = "pin", !.hash = h, !.key = k, !.provides = p]
  <2>1. g \in Gate
    BY DEF Idle, Gate, Places, ApprovalStatus
  <2>2. gates'[a] = g /\ Alone(a)
    BY <1>0, <1>1, <2>1 DEF Ask, GateTypeOK, Alone
  <2>3. gates'[a].pc = "pin" /\ gates'[a].hash = h
    BY <2>2 DEF Idle
  <2>4. GateOK(a)'
    BY <2>3 DEF GateOK, IsPresented, IsChecked, IsFit, IsWithdrawn, InPass, Requested
  <2> QED
    BY <1>0, <1>1, <2>2, <2>4 DEF Moved, Ask, PrintsStay, theWorld, GateTypeOK, Alone
<1>2. ASSUME NEW id \in Approvals, Present(a, h, k, id, p) PROVE Moved(a)
  <2> DEFINE f == [Idle EXCEPT !.hash = h, !.key = k, !.id = id, !.provides = p]
  <2>1. f \in Gate /\ f.id = id /\ f.hash = h /\ f.key = k /\ f.provides = p
    BY DEF Idle, Gate, Places, ApprovalStatus
  <2> HIDE DEF f
  <2>2. /\ Pass(f, FALSE) \in Gate /\ Pass(f, FALSE).pc = "scope"
        /\ Pass(f, FALSE).id = id /\ Pass(f, FALSE).hash = h
        /\ world = prints[id] => Pass(f, FALSE).matched
        /\ within => Pass(f, FALSE).scoped
    BY <1>0, <2>1, PassIs
  <2>3. gates' = [gates EXCEPT ![a] = Pass(f, FALSE)]
    BY <1>2 DEF Present, f
  <2>4. gates'[a] = Pass(f, FALSE) /\ Alone(a)
    BY <1>0, <2>2, <2>3 DEF GateTypeOK, Alone
  <2>5. GateOK(a)'
    BY <1>2, <2>2, <2>4
    DEF GateOK, IsPresented, IsChecked, IsFit, IsWithdrawn, InPass, Approval, Present, vars, theWorld
  <2> QED
    BY <1>0, <1>2, <2>4, <2>5 DEF Moved, Present, PrintsStay, theWorld, GateTypeOK, Alone
<1> QED
  BY <1>1, <1>2

(* A call that is not at a gate, nor withdrawing, has nothing to keep. *)
LEMMA NothingToKeep ==
    ASSUME NEW a \in Actions, gates[a].hash \in Hashes, gates[a].pc \in {"request", "refused"}
    PROVE  GateOK(a)
  BY DEF GateOK, IsPresented, IsChecked, IsFit, IsWithdrawn, InPass, Requested

(* A step that leaves the store, the world and the prints alone. *)
LEMMA LocalMoves ==
    ASSUME GatesInv, NEW a \in Actions, UNCHANGED <<vars, theWorld, prints>>, Alone(a), GateOK(a)'
    PROVE  Moved(a)
  BY DEF Moved, PrintsStay, GateTypeOK, GatesInv, Alone, theWorld

LEMMA PinMoves == ASSUME GatesInv, NEW a \in Actions, Pin(a) PROVE Moved(a)
<1>0. GateTypeOK /\ gates[a] \in Gate /\ gates[a].hash \in Hashes
  BY DEF GatesInv, GateTypeOK, Pin, At, GateOK, IsPresented
<1>1. CASE Goto(a, "refused")
  <2>1. gates'[a].pc = "refused" /\ Stays(gates[a], gates'[a]) /\ Alone(a)
    BY <1>0, <1>1, GotoIs DEF Places
  <2>2. GateOK(a)'
    BY <1>0, <2>1
    DEF Stays, GateOK, IsPresented, IsChecked, IsFit, IsWithdrawn, InPass, Requested
  <2> QED
    BY <2>1, <2>2, LocalMoves DEF Pin
<1>2. CASE gates' = [gates EXCEPT ![a].pc = "request",
                                  ![a].print = IF gates[a].provides THEN world ELSE NoPrint]
  <2>1. PICK print \in Worlds \cup {NoPrint} :
            gates' = [gates EXCEPT ![a].pc = "request", ![a].print = print]
    BY <1>0, <1>2 DEF GateTypeOK
  <2>2. gates'[a] = [gates[a] EXCEPT !.pc = "request", !.print = print]
    BY <1>0, <2>1 DEF GateTypeOK
  <2>3. gates'[a] \in Gate /\ gates'[a].pc = "request" /\ gates'[a].hash = gates[a].hash
    BY <1>0, <2>2 DEF Gate, Places
  <2>4. Alone(a)
    BY <1>0, <2>1, <2>3 DEF GateTypeOK, Alone
  <2>5. GateOK(a)'
    BY <1>0, <2>3
    DEF GateOK, IsPresented, IsChecked, IsFit, IsWithdrawn, InPass, Requested
  <2> QED
    BY <2>4, <2>5, LocalMoves DEF Pin
<1> QED
  BY <1>1, <1>2 DEF Pin

LEMMA RequestMoves == ASSUME GatesInv, NEW a \in Actions, Request(a) PROVE Moved(a)
<1>0. GateTypeOK /\ TypeOK /\ gates[a] \in Gate /\ gates[a].hash \in Hashes
  BY DEF GatesInv, GateTypeOK, Request, At, GateOK, IsPresented
<1>1. PICK id \in Approvals, n \in 1..MaxNeeded, print \in {gates[a].print, NoPrint} :
         /\ PutApprovalRequest(id, gates[a].hash, n)
         /\ prints' = [prints EXCEPT ![id] = print]
         /\ gates' = [gates EXCEPT ![a].pc = "readback", ![a].id = id]
  BY DEF Request
<1>2. print \in Worlds \cup {NoPrint}
  BY <1>0 DEF Gate
<1>3. gates'[a] = [gates[a] EXCEPT !.pc = "readback", !.id = id]
  BY <1>0, <1>1 DEF GateTypeOK
<1>4. /\ gates'[a] \in Gate /\ gates'[a].pc = "readback"
      /\ gates'[a].hash = gates[a].hash /\ gates'[a].id = id
  BY <1>0, <1>3 DEF Gate, Places
<1>5. Alone(a)
  BY <1>0, <1>1, <1>4 DEF GateTypeOK, Alone
<1>6. Next
  BY <1>0, <1>1 DEF Next, ApprovalStep
<1>7. PrintsStay /\ prints' \in [Approvals -> Worlds \cup {NoPrint}]
  BY <1>0, <1>1, <1>2 DEF PrintsStay, PutApprovalRequest, GateTypeOK
<1>8. approvals'[id].status = "pending"
  BY <1>0, <1>1 DEF PutApprovalRequest, TypeOK
<1>9. GateOK(a)'
  BY <1>0, <1>4, <1>8
  DEF GateOK, IsPresented, IsChecked, IsFit, IsWithdrawn, InPass, Approval
<1> QED
  BY <1>0, <1>5, <1>6, <1>7, <1>9 DEF Moved, Request, GateTypeOK, Alone, theWorld

LEMMA ReadBackMoves == ASSUME GatesInv, NEW a \in Actions, ReadBack(a) PROVE Moved(a)
<1>0. GateTypeOK /\ gates[a] \in Gate /\ GateOK(a) /\ gates[a].pc = "readback"
  BY DEF GatesInv, GateTypeOK, ReadBack, At
<1>1. PICK pc \in {"waiting", "withdraw"} : Goto(a, pc)
  BY DEF ReadBack
<1>2. gates'[a].pc = pc /\ Stays(gates[a], gates'[a]) /\ Alone(a)
  BY <1>0, <1>1, GotoIs DEF Places
<1>3. GateOK(a)'
  BY <1>0, <1>2
  DEF ReadBack, vars, Stays, GateOK, IsPresented, IsChecked, IsFit, IsWithdrawn, InPass, Requested,
      Approval
<1> QED
  BY <1>2, <1>3, LocalMoves DEF ReadBack

(* A request is given up by steps that leave it answered, and leave for good only a *)
(* request whose answer is final.                                                   *)
LEMMA WithdrawalMoves ==
    ASSUME GatesInv, NEW a \in Actions, NEW pc \in {"withdrawn", "reread", "spend"},
           gates[a].pc \in {"withdraw", "reread", "spend"}, Goto(a, pc),
           [Next]_vars, UNCHANGED <<theWorld, prints>>,
           approvals'[gates[a].id].status \notin {"absent", "pending"},
           pc = "withdrawn" => approvals'[gates[a].id].status \in Final
    PROVE  Moved(a)
<1>0. GateTypeOK /\ gates[a] \in Gate /\ GateOK(a)
  BY DEF GatesInv, GateTypeOK
<1>1. gates'[a].pc = pc /\ Stays(gates[a], gates'[a]) /\ Alone(a)
  BY <1>0, GotoIs DEF Places
<1>2. gates[a].id \in Approvals /\ gates[a].hash \in Hashes
  BY <1>0 DEF GateOK, IsPresented, Requested
<1>3. GateOK(a)'
  BY <1>1, <1>2
  DEF Stays, GateOK, IsPresented, IsChecked, IsFit, IsWithdrawn, InPass, Approval, Answered
<1> QED
  BY <1>0, <1>1, <1>3 DEF Moved, PrintsStay, GateTypeOK, Alone, theWorld

LEMMA WithdrawMoves ==
    ASSUME GatesInv, NEW a \in Actions, Withdraw(a) \/ Reread(a) \/ SpendGrant(a)
    PROVE  Moved(a)
<1> DEFINE id == gates[a].id
<1>0. TypeOK /\ GateOK(a) /\ gates[a].pc \in {"withdraw", "reread", "spend"}
      /\ UNCHANGED <<theWorld, prints>>
  BY DEF GatesInv, Withdraw, Reread, SpendGrant, At
<1>1. /\ id \in Approvals /\ approvals[id] \in ApprovalRecord
      /\ approvals[id].status # "absent" /\ approvals[id].hash \in Hashes
  BY <1>0 DEF GateOK, IsPresented, Requested, Approval, TypeOK, GatesInv, Hashed
<1>2. gates[a].pc \in {"reread", "spend"} =>
          /\ approvals[id].status \notin {"absent", "pending"}
          /\ approvals[id].status # "granted" => approvals[id].status \in Final
  BY <1>0, <1>1 DEF GateOK, IsWithdrawn, Answered, Final, ApprovalRecord, ApprovalStatus
<1>3. ASSUME ExpireApproval(id) PROVE [Next]_vars /\ approvals'[id].status = "expired"
  <2>1. ApprovalStep(id) /\ approvals' = [approvals EXCEPT ![id].status = "expired"]
    BY <1>3 DEF ApprovalStep, ExpireApproval
  <2> QED
    BY <1>0, <1>1, <2>1 DEF Next, TypeOK
<1>4. CASE Withdraw(a)
  <2>1. CASE DenyApproval(id, Nobody) /\ Goto(a, "withdrawn")
    <3>1. [Next]_vars
      BY <1>1, <2>1 DEF Next, ApprovalStep
    <3>2. approvals'[id].status = "denied"
      BY <1>0, <1>1, <2>1 DEF DenyApproval, TypeOK, ApprovalRecord
    <3> QED
      BY <1>0, <2>1, <3>1, <3>2, WithdrawalMoves DEF Final
  <2>2. CASE approvals[id].status # "pending" /\ UNCHANGED vars /\ Goto(a, "reread")
    <3>1. [Next]_vars /\ approvals'[id].status \notin {"absent", "pending"}
      BY <1>1, <2>2 DEF vars
    <3> QED
      BY <1>0, <2>2, <3>1, WithdrawalMoves
  <2>3. CASE ExpireApproval(id) /\ Goto(a, "reread")
    <3>1. [Next]_vars /\ approvals'[id].status = "expired"
      BY <1>3, <2>3
    <3> QED
      BY <1>0, <2>3, <3>1, WithdrawalMoves
  <2> QED
    BY <1>4, <2>1, <2>2, <2>3 DEF Withdraw, Approval
<1>5. CASE Reread(a)
  <2>1. PICK pc \in {"spend", "withdrawn"} :
            Goto(a, pc) /\ (pc = "withdrawn" => approvals[id].status # "granted")
    BY <1>5 DEF Reread, Approval
  <2>2. [Next]_vars /\ approvals' = approvals /\ gates[a].pc = "reread"
    BY <1>5 DEF Reread, vars, At
  <2>3. approvals'[id].status \notin {"absent", "pending"}
        /\ (pc = "withdrawn" => approvals'[id].status \in Final)
    BY <1>2, <2>1, <2>2
  <2> QED
    BY <1>0, <2>1, <2>2, <2>3, WithdrawalMoves
<1>6. CASE SpendGrant(a)
  <2>0. Goto(a, "withdrawn") /\ gates[a].pc = "spend"
    BY <1>6 DEF SpendGrant, At
  <2>1. CASE ConsumeApproval(id, approvals[id].hash)
    <3>1. [Next]_vars
      BY <1>1, <2>1 DEF Next, ApprovalStep
    <3>2. approvals'[id].status = "consumed"
      BY <1>0, <1>1, <2>1 DEF ConsumeApproval, TypeOK
    <3> QED
      BY <1>0, <2>0, <3>1, <3>2, WithdrawalMoves DEF Final
  <2>2. CASE approvals[id].status # "granted" /\ UNCHANGED vars
    <3>1. [Next]_vars /\ approvals'[id].status \in Final
      BY <1>2, <2>0, <2>2 DEF vars
    <3>2. approvals'[id].status \notin {"absent", "pending"}
      BY <3>1 DEF Final
    <3> QED
      BY <1>0, <2>0, <3>1, <3>2, WithdrawalMoves
  <2>3. CASE ExpireApproval(id)
    <3>1. [Next]_vars /\ approvals'[id].status = "expired"
      BY <1>3, <2>3
    <3> QED
      BY <1>0, <2>0, <3>1, WithdrawalMoves DEF Final
  <2> QED
    BY <1>6, <2>1, <2>2, <2>3 DEF SpendGrant, Approval
<1> QED
  BY <1>4, <1>5, <1>6

LEMMA AskingMoves == ASSUME GatesInv, NEW a \in Actions, Asking(a) PROVE Moved(a)
  BY PinMoves, RequestMoves, ReadBackMoves, WithdrawMoves DEF Asking

-----------------------------------------------------------------------------
(* The steps of a pass *)

(* Being refused forgets everything, whatever the store did on the way. *)
LEMMA RefusedMoves ==
    ASSUME GatesInv, NEW a \in Actions, gates[a].pc # "idle", Goto(a, "refused"),
           [Next]_vars, UNCHANGED <<theWorld, prints>>
    PROVE  Moved(a)
<1>0. GateTypeOK /\ gates[a] \in Gate /\ gates[a].hash \in Hashes
  BY DEF GatesInv, GateTypeOK, GateOK, IsPresented
<1>1. gates'[a].pc = "refused" /\ Stays(gates[a], gates'[a]) /\ Alone(a)
  BY <1>0, GotoIs DEF Places
<1>2. GateOK(a)'
  BY <1>0, <1>1
  DEF Stays, GateOK, IsPresented, IsChecked, IsFit, IsWithdrawn, InPass, Requested
<1> QED
  BY <1>0, <1>1, <1>2 DEF Moved, PrintsStay, GateTypeOK, Alone, theWorld

LEMMA InScopeMoves == ASSUME GatesInv, NEW a \in Actions, InScope(a) PROVE Moved(a)
<1>0. GateTypeOK /\ gates[a] \in Gate /\ GateOK(a) /\ gates[a].pc = "scope"
  BY DEF GatesInv, GateTypeOK, InScope, At
<1>1. CASE within /\ Goto(a, "read")
  <2>1. gates'[a].pc = "read" /\ Stays(gates[a], gates'[a]) /\ Alone(a)
    BY <1>0, <1>1, GotoIs DEF Places
  <2>2. gates[a].scoped
    BY <1>0, <1>1 DEF GateOK, IsChecked, InPass
  <2>3. GateOK(a)'
    BY <1>0, <2>1, <2>2
    DEF InScope, vars, theWorld, Stays, GateOK, IsPresented, IsChecked, IsFit, IsWithdrawn,
        InPass, Requested, Approval
  <2> QED
    BY <2>1, <2>3, LocalMoves DEF InScope
<1>2. CASE Goto(a, "refused")
  BY <1>0, <1>2, RefusedMoves DEF InScope
<1> QED
  BY <1>1, <1>2 DEF InScope

LEMMA RecheckMoves == ASSUME GatesInv, NEW a \in Actions, Recheck(a) PROVE Moved(a)
<1> DEFINE id == gates[a].id
<1>0. /\ GateTypeOK /\ TypeOK /\ gates[a] \in Gate /\ GateOK(a) /\ gates[a].pc = "read"
      /\ UNCHANGED <<vars, theWorld, prints>>
  BY DEF GatesInv, GateTypeOK, Recheck, At
<1>1. PICK next \in {"refused", "take", "fetch"} :
         /\ gates' = [gates EXCEPT ![a].pc = next, ![a].seen = Approval(a).status]
         /\ next = "take" => ~Unfit(a) /\ ~Preconditioned(a)
         /\ next = "fetch" => ~Unfit(a) /\ Consumable(id, gates[a].hash, now)
  BY Zenon DEF Recheck
<1>2. id \in Approvals /\ gates[a].hash \in Hashes /\ approvals[id].status \in ApprovalStatus
      /\ approvals[id].status # "absent"
  BY <1>0 DEF GateOK, IsPresented, Requested, TypeOK, ApprovalRecord, Approval
<1>3. gates'[a] = [gates[a] EXCEPT !.pc = next, !.seen = approvals[id].status]
  BY <1>0, <1>1 DEF GateTypeOK, Approval
<1>4. /\ gates'[a] \in Gate /\ gates'[a].pc = next /\ gates'[a].seen = approvals[id].status
      /\ gates'[a].hash = gates[a].hash /\ gates'[a].id = id /\ gates'[a].key = gates[a].key
      /\ gates'[a].provides = gates[a].provides
      /\ gates'[a].matched = gates[a].matched /\ gates'[a].scoped = gates[a].scoped
  BY <1>0, <1>2, <1>3 DEF Gate, Places
<1>5. Alone(a)
  BY <1>0, <1>1, <1>4 DEF GateTypeOK, Alone
<1>6. approvals' = approvals /\ prints' = prints /\ world' = world /\ within' = within
      /\ barred' = barred
  BY <1>0 DEF vars, theWorld
<1>7. next = "fetch" \/ (next = "take" /\ gates'[a].seen = "granted") =>
          /\ approvals[id].status = "granted"
          /\ approvals[id].hash = gates[a].hash => Fit(id)
  BY <1>1, <1>4 DEF Unfit, GrantedFor, Consumable
<1>8. IsFit(a)'
  <2>1. gates'[a].pc \in {"fetch", "take"} /\ Looked(a)' =>
            next = "fetch" \/ (next = "take" /\ gates'[a].seen = "granted")
    BY <1>1, <1>4, <1>6 DEF Looked, Preconditioned
  <2> QED
    BY <1>1, <1>4, <1>6, <1>7, <2>1 DEF IsFit, Answered, Fit, Approval
<1>9. IsPresented(a)' /\ IsChecked(a)' /\ IsWithdrawn(a)'
  BY <1>0, <1>1, <1>2, <1>4, <1>6
  DEF GateOK, IsPresented, IsChecked, IsWithdrawn, InPass, Requested, Approval, Preconditioned
<1> QED
  BY <1>0, <1>5, <1>8, <1>9, LocalMoves DEF GateOK

LEMMA CompareMoves == ASSUME GatesInv, NEW a \in Actions, Compare(a) PROVE Moved(a)
<1>0. GateTypeOK /\ gates[a] \in Gate /\ GateOK(a) /\ gates[a].pc = "fetch"
  BY DEF GatesInv, GateTypeOK, Compare, At
<1>1. CASE world = prints[gates[a].id] /\ Goto(a, "take")
  <2>1. gates'[a].pc = "take" /\ Stays(gates[a], gates'[a]) /\ Alone(a)
    BY <1>0, <1>1, GotoIs DEF Places
  <2>2. gates[a].matched /\ gates[a].scoped
    BY <1>0, <1>1 DEF GateOK, IsChecked, InPass
  <2>3. IsFit(a)' /\ IsWithdrawn(a)'
    BY <1>0, <2>1
    DEF Compare, vars, theWorld, Stays, GateOK, IsFit, IsWithdrawn, Looked, Preconditioned,
        Answered, Fit, Approval
  <2>4. IsPresented(a)' /\ IsChecked(a)'
    BY <1>0, <2>1, <2>2
    DEF Compare, vars, Stays, GateOK, IsPresented, IsChecked, Requested, Approval
  <2> QED
    BY <2>1, <2>3, <2>4, LocalMoves DEF Compare, GateOK
<1>2. CASE Goto(a, "refused")
  BY <1>0, <1>2, RefusedMoves DEF Compare
<1> QED
  BY <1>1, <1>2 DEF Compare

(* What the take consumes is a grant for this very hash, so what was looked at fits. *)
LEMMA TakeMoves == ASSUME GatesInv, NEW a \in Actions, Take(a) PROVE Moved(a)
<1> DEFINE id == gates[a].id
           h == gates[a].hash
<1>0. /\ GateTypeOK /\ TypeOK /\ gates[a] \in Gate /\ GateOK(a) /\ gates[a].pc = "take"
      /\ UNCHANGED <<theWorld, prints>> /\ Goto(a, "taken")
  BY DEF GatesInv, GateTypeOK, Take, At
<1>1. id \in Approvals /\ h \in Hashes /\ approvals[id] \in ApprovalRecord
  BY <1>0 DEF GateOK, IsPresented, Requested, TypeOK
<1>2. /\ [Next]_vars
      /\ approvals[id].status = "granted" /\ approvals[id].hash = h
      /\ approvals' = [approvals EXCEPT ![id].status = "consumed"]
  <2>1. CASE ConsumeApproval(id, h)
    BY <1>1, <2>1 DEF ConsumeApproval, Consumable, GrantedFor, Next, ApprovalStep
  <2>2. CASE gates[a].key # NoKey /\ ConsumeApprovalAndReserve(id, gates[a].key, a, h)
    <3>1. gates[a].key \in Keys
      BY <1>0, <2>2 DEF Gate
    <3>2. HolderStep(gates[a].key, a)
      BY <1>1, <2>2 DEF HolderStep
    <3>3. Next
      BY <3>1, <3>2 DEF Next
    <3> QED
      BY <2>2, <3>3 DEF ConsumeApprovalAndReserve, Consumable, GrantedFor
  <2> QED
    BY <2>1, <2>2 DEF Take
<1>3. approvals'[id].status = "consumed" /\ approvals'[id].answers = approvals[id].answers
  BY <1>0, <1>1, <1>2 DEF TypeOK, ApprovalRecord
<1>4. gates'[a].pc = "taken" /\ Stays(gates[a], gates'[a]) /\ Alone(a)
  BY <1>0, GotoIs DEF Places
<1>5. Looked(a) => Fit(id)
  BY <1>0, <1>2 DEF GateOK, IsFit, Approval
<1>6. IsFit(a)'
  BY <1>0, <1>3, <1>4, <1>5
  DEF IsFit, Answered, Fit, Looked, Preconditioned, Stays, theWorld
<1>7. IsPresented(a)' /\ IsChecked(a)' /\ IsWithdrawn(a)'
  BY <1>0, <1>1, <1>3, <1>4
  DEF GateOK, IsPresented, IsChecked, IsWithdrawn, InPass, Requested, Approval, Preconditioned,
      Stays, theWorld
<1> QED
  BY <1>0, <1>2, <1>4, <1>6, <1>7 DEF Moved, PrintsStay, GateTypeOK, Alone, theWorld, GateOK

LEMMA StoreRefusesMoves == ASSUME GatesInv, NEW a \in Actions, StoreRefuses(a) PROVE Moved(a)
<1>0. /\ gates[a].pc = "take" /\ Goto(a, "refused") /\ UNCHANGED <<theWorld, prints>>
      /\ ExpireApproval(gates[a].id) \/ UNCHANGED vars
  BY DEF StoreRefuses, At
<1>1. gates[a].id \in Approvals
  BY <1>0 DEF GatesInv, GateOK, IsPresented, Requested
<1>2. [Next]_vars
  BY <1>0, <1>1 DEF Next, ApprovalStep
<1> QED
  BY <1>0, <1>2, RefusedMoves

LEMMA MeetsUnknownMoves == ASSUME GatesInv, NEW a \in Actions, MeetsUnknown(a) PROVE Moved(a)
<1>0. /\ GateTypeOK /\ TypeOK /\ gates[a] \in Gate /\ GateOK(a) /\ gates[a].pc = "take"
      /\ gates[a].key \in Keys /\ UNCHANGED <<theWorld, prints>>
      /\ UNCHANGED vars \/ AmbiguateLapsed(gates[a].key)
      /\ Goto(a, "refused") \/ Goto(a, "hook")
  BY DEF GatesInv, GateTypeOK, MeetsUnknown, At, Gate
<1>1. [Next]_vars /\ approvals' = approvals
  BY <1>0 DEF Next, KeyStep, AmbiguateLapsed, vars
<1>2. CASE Goto(a, "hook")
  <2>1. gates'[a].pc = "hook" /\ Stays(gates[a], gates'[a]) /\ Alone(a)
    BY <1>0, <1>2, GotoIs DEF Places
  <2>2. GateOK(a)'
    BY <1>0, <1>1, <2>1
    DEF Stays, GateOK, IsPresented, IsChecked, IsFit, IsWithdrawn, InPass, Requested, Approval
  <2> QED
    BY <1>0, <1>1, <2>1, <2>2 DEF Moved, PrintsStay, GateTypeOK, Alone, theWorld
<1>3. CASE Goto(a, "refused")
  BY <1>0, <1>1, <1>3, RefusedMoves
<1> QED
  BY <1>0, <1>2, <1>3

LEMMA AskHookMoves == ASSUME GatesInv, NEW a \in Actions, AskHook(a) PROVE Moved(a)
<1>0. GateTypeOK /\ gates[a] \in Gate /\ GateOK(a) /\ gates[a].pc = "hook"
  BY DEF GatesInv, GateTypeOK, AskHook, At
<1>1. PICK answer \in Resolutions \cup {"unknown"} :
         gates' = [gates EXCEPT ![a].pc = "resolve", ![a].answer = answer]
  BY DEF AskHook
<1>2. gates'[a] = [gates[a] EXCEPT !.pc = "resolve", !.answer = answer]
  BY <1>0, <1>1 DEF GateTypeOK
<1>3. /\ gates'[a] \in Gate /\ gates'[a].pc = "resolve" /\ gates'[a].hash = gates[a].hash
      /\ gates'[a].id = gates[a].id /\ gates'[a].key = gates[a].key
  BY <1>0, <1>2 DEF Gate, Places
<1>4. Alone(a)
  BY <1>0, <1>1, <1>3 DEF GateTypeOK, Alone
<1>5. GateOK(a)'
  BY <1>0, <1>3
  DEF AskHook, vars, GateOK, IsPresented, IsChecked, IsFit, IsWithdrawn, InPass, Requested, Approval
<1> QED
  BY <1>4, <1>5, LocalMoves DEF AskHook

LEMMA ResolveMoves == ASSUME GatesInv, NEW a \in Actions, Resolve(a) PROVE Moved(a)
<1>0. GateTypeOK /\ TypeOK /\ gates[a] \in Gate /\ GateOK(a) /\ gates[a].pc = "resolve"
      /\ UNCHANGED <<theWorld, prints>> /\ gates[a].key \in Keys
  BY DEF GatesInv, GateTypeOK, Resolve, At, GateOK, IsPresented
<1>1. CASE /\ gates[a].answer \in Resolutions
           /\ ResolveEffect(gates[a].key, gates[a].answer, "hook")
           /\ gates' = [gates EXCEPT ![a] = Pass(gates[a], TRUE)]
  <2>1. KeyStep(gates[a].key)
    BY <1>1 DEF KeyStep, Resolvers
  <2>2. Next /\ approvals' = approvals
    BY <1>0, <1>1, <2>1 DEF Next, ResolveEffect
  <2>3. /\ Pass(gates[a], TRUE) \in Gate /\ Pass(gates[a], TRUE).pc = "scope"
        /\ Pass(gates[a], TRUE).id = gates[a].id /\ Pass(gates[a], TRUE).hash = gates[a].hash
        /\ world = prints[gates[a].id] => Pass(gates[a], TRUE).matched
        /\ within => Pass(gates[a], TRUE).scoped
    BY <1>0, PassIs
  <2>4. gates'[a] = Pass(gates[a], TRUE) /\ Alone(a)
    BY <1>0, <1>1, <2>3 DEF GateTypeOK, Alone
  <2>5. GateOK(a)'
    BY <1>0, <2>2, <2>3, <2>4
    DEF GateOK, IsPresented, IsChecked, IsFit, IsWithdrawn, InPass, Requested, Approval, theWorld
  <2> QED
    BY <1>0, <2>2, <2>4, <2>5 DEF Moved, PrintsStay, GateTypeOK, Alone, theWorld
<1>2. CASE UNCHANGED vars /\ Goto(a, "refused")
  BY <1>0, <1>2, RefusedMoves
<1> QED
  BY <1>1, <1>2 DEF Resolve

LEMMA PassingMoves == ASSUME GatesInv, NEW a \in Actions, Passing(a) PROVE Moved(a)
  BY InScopeMoves, RecheckMoves, CompareMoves, TakeMoves, StoreRefusesMoves,
     MeetsUnknownMoves, AskHookMoves, ResolveMoves DEF Passing

-----------------------------------------------------------------------------
(* Everybody's steps *)

(* The world and the scope move under everybody, and everybody remembers what they saw. *)
LEMMA WorldKeeps ==
    ASSUME GatesInv, NEW w \in Worlds, WorldMoves(w)
    PROVE  GateTypeOK' /\ \A a \in Actions : GateOK(a)'
<1>0. GateTypeOK
  BY DEF GatesInv
<1>1. ASSUME NEW a \in Actions PROVE gates'[a] \in Gate /\ GateOK(a)'
  <2>1. gates[a] \in Gate /\ GateOK(a)
    BY <1>0 DEF GatesInv, GateTypeOK
  <2>2. PICK m \in BOOLEAN : m = (gates[a].matched \/ (InPass(a) /\ prints[gates[a].id] = w))
    OBVIOUS
  <2>3. gates'[a] = [gates[a] EXCEPT !.matched = m]
    BY <2>2 DEF WorldMoves
  <2>4. /\ gates'[a] \in Gate /\ gates'[a].pc = gates[a].pc /\ gates'[a].hash = gates[a].hash
        /\ gates'[a].id = gates[a].id /\ gates'[a].key = gates[a].key
        /\ gates'[a].provides = gates[a].provides /\ gates'[a].seen = gates[a].seen
        /\ gates'[a].matched = m /\ gates'[a].scoped = gates[a].scoped
    BY <2>1, <2>3 DEF Gate
  <2>5. /\ approvals' = approvals /\ prints' = prints /\ within' = within /\ barred' = barred
        /\ world' = w
    BY DEF WorldMoves, vars
  <2>6. IsFit(a)' /\ IsWithdrawn(a)' /\ IsPresented(a)'
    BY <2>1, <2>4, <2>5
    DEF GateOK, IsFit, IsWithdrawn, IsPresented, Looked, Preconditioned, Answered, Fit, Approval
  <2>7. IsChecked(a)'
    BY <2>1, <2>2, <2>4, <2>5 DEF GateOK, IsChecked, InPass, Preconditioned
  <2> QED
    BY <2>4, <2>6, <2>7 DEF GateOK
<1>2. gates' \in [Actions -> Gate]
  <2>1. gates' = [a \in Actions |-> gates'[a]]
    BY DEF WorldMoves
  <2> QED
    BY <1>1, <2>1
<1> QED
  BY <1>0, <1>1, <1>2 DEF WorldMoves, GateTypeOK

LEMMA ScopeKeeps ==
    ASSUME GatesInv, ScopeMoves
    PROVE  GateTypeOK' /\ \A a \in Actions : GateOK(a)'
<1>0. GateTypeOK
  BY DEF GatesInv
<1>1. ASSUME NEW a \in Actions PROVE gates'[a] \in Gate /\ GateOK(a)'
  <2>1. gates[a] \in Gate /\ GateOK(a)
    BY <1>0 DEF GatesInv, GateTypeOK
  <2>2. PICK m \in BOOLEAN : m = (gates[a].scoped \/ (InPass(a) /\ within'))
    OBVIOUS
  <2>3. gates'[a] = [gates[a] EXCEPT !.scoped = m]
    BY <2>2 DEF ScopeMoves
  <2>4. /\ gates'[a] \in Gate /\ gates'[a].pc = gates[a].pc /\ gates'[a].hash = gates[a].hash
        /\ gates'[a].id = gates[a].id /\ gates'[a].key = gates[a].key
        /\ gates'[a].provides = gates[a].provides /\ gates'[a].seen = gates[a].seen
        /\ gates'[a].scoped = m /\ gates'[a].matched = gates[a].matched
    BY <2>1, <2>3 DEF Gate
  <2>5. /\ approvals' = approvals /\ prints' = prints /\ world' = world /\ barred' = barred
    BY DEF ScopeMoves, vars
  <2>6. IsFit(a)' /\ IsWithdrawn(a)' /\ IsPresented(a)'
    BY <2>1, <2>4, <2>5
    DEF GateOK, IsFit, IsWithdrawn, IsPresented, Looked, Preconditioned, Answered, Fit, Approval
  <2>7. IsChecked(a)'
    BY <2>1, <2>2, <2>4, <2>5 DEF GateOK, IsChecked, InPass, Preconditioned
  <2> QED
    BY <2>4, <2>6, <2>7 DEF GateOK
<1>2. gates' \in [Actions -> Gate]
  <2>1. gates' = [a \in Actions |-> gates'[a]]
    BY DEF ScopeMoves
  <2> QED
    BY <1>1, <2>1
<1> QED
  BY <1>0, <1>1, <1>2 DEF ScopeMoves, GateTypeOK

LEMMA InitGates == GatesInit => GatesInv
<1> SUFFICES ASSUME GatesInit PROVE GatesInv
  OBVIOUS
<1>1. TypeOK /\ Hashed
  BY InitType DEF GatesInit, Init, Hashed, NoRequest
<1>2. Idle \in Gate
  BY DEF Idle, Gate, Places, ApprovalStatus
<1>3. GateTypeOK
  BY <1>2 DEF GatesInit, GateTypeOK
<1>4. ASSUME NEW a \in Actions PROVE GateOK(a)
  <2>1. gates[a].pc = "idle"
    BY DEF GatesInit, Idle
  <2> QED
    BY <2>1 DEF GateOK, IsPresented, IsChecked, IsFit, IsWithdrawn, InPass, Requested
<1> QED
  BY <1>1, <1>3, <1>4 DEF GatesInv

(* Every step is a transaction of the store or none. *)
LEMMA GatesSteps ==
    ASSUME GatesInv, [GatesNext]_allVars
    PROVE  [Next]_vars /\ GateTypeOK' /\ \A a \in Actions : GateOK(a)'
<1>1. ASSUME NEW a \in Actions, Moved(a)
      PROVE  [Next]_vars /\ GateTypeOK' /\ \A b \in Actions : GateOK(b)'
  <2>1. ASSUME NEW b \in Actions \ {a} PROVE GateOK(b)'
    BY <1>1, <2>1, OthersKeep DEF Moved, PrintsStay
  <2> QED
    BY <1>1, <2>1 DEF Moved
<1>2. CASE \E a \in Actions : Call(a) \/ Asking(a) \/ Passing(a)
  BY <1>1, <1>2, CallMoves, AskingMoves, PassingMoves DEF Call
<1>3. ASSUME [Next]_vars, UNCHANGED gateVars
      PROVE  GateTypeOK' /\ \A a \in Actions : GateOK(a)'
  <2>1. ASSUME NEW b \in Actions PROVE GateOK(b)'
    BY <1>3, OthersKeep DEF gateVars, theWorld
  <2> QED
    BY <1>3, <2>1 DEF gateVars, GateTypeOK, GatesInv
<1>4. CASE Elsewhere
  BY <1>3, <1>4 DEF Elsewhere, Next
<1>5. CASE \E w \in Worlds : WorldMoves(w)
  BY <1>5, WorldKeeps DEF WorldMoves
<1>6. CASE ScopeMoves
  BY <1>6, ScopeKeeps DEF ScopeMoves
<1>7. CASE UNCHANGED allVars
  BY <1>3, <1>7 DEF allVars
<1> QED
  BY <1>2, <1>4, <1>5, <1>6, <1>7 DEF GatesNext

LEMMA NextGates == GatesInv /\ [GatesNext]_allVars => GatesInv'
<1> SUFFICES ASSUME GatesInv, [GatesNext]_allVars PROVE GatesInv'
  OBVIOUS
<1>1. [Next]_vars /\ GateTypeOK' /\ \A a \in Actions : GateOK(a)'
  BY GatesSteps
<1>2. TypeOK' /\ Hashed'
  BY <1>1, NextType, HashedSteps DEF GatesInv
<1> QED
  BY <1>1, <1>2 DEF GatesInv

(* At every step it may stop at, a call has the request it presents or withdraws,   *)
(* remembers what held during its pass, and what it was let through by still holds. *)
THEOREM GatesAreSound == GatesSpec => []GatesInv
  BY InitGates, NextGates, PTL DEF GatesSpec

(* The gates write nothing but by transactions of the store, so what holds of the   *)
(* store (single use, quorum, budgets, one attempt at a time) holds behind them.    *)
THEOREM GatesUseStore == GatesSpec => Spec
<1>1. GatesInit => Init
  BY DEF GatesInit
<1>2. GatesInv /\ [GatesNext]_allVars => [Next]_vars
  BY GatesSteps
<1> QED
  BY <1>1, <1>2, GatesAreSound, PTL DEF GatesSpec, Spec

(* Whatever was taken was in scope and, with a fingerprint on either side, met the  *)
(* world its human was asked about, in the very pass that took it (_secure).        *)
THEOREM AlwaysCheckedInThisPass == GatesSpec => []CheckedInThisPass
<1>1. GatesInv => CheckedInThisPass
  BY DEF GatesInv, GateOK, IsChecked, CheckedInThisPass, At
<1> QED
  BY <1>1, GatesAreSound, PTL

(* Nothing is taken on a yes that does not count, where the recheck could see the   *)
(* grant or had a precondition to compare (_check_approver).                        *)
THEOREM ApproversAlwaysChecked == GatesSpec => []ApproversWereChecked
<1>1. GatesInv => ApproversWereChecked
  BY DEF GatesInv, GateOK, IsFit, ApproversWereChecked, At, Looked
<1> QED
  BY <1>1, GatesAreSound, PTL

(* A request withdrawn for its lost fingerprint is left to nobody, although a grant *)
(* may land between any two steps of the withdrawal (_withdraw).                    *)
THEOREM NothingEverLeftToSpend == GatesSpec => []NothingLeftToSpend
<1>1. GatesInv => NothingLeftToSpend
  BY DEF GatesInv, GateOK, IsWithdrawn, NothingLeftToSpend, At, Final
<1> QED
  BY <1>1, GatesAreSound, PTL
=============================================================================
