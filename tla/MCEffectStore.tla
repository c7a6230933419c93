---------------------------- MODULE MCEffectStore ----------------------------
(* Instances of the store and its gates for TLC: one run explores three scenes   *)
(* side by side.                                                                 *)
EXTENDS Gates, TLC

CONSTANTS h1, h2, h3, h4, l1

VARIABLE scene

(* h1 costs more than half of the line, h2 one unit, h3 and h4 nothing. *)
UnitCost == [h \in Hashes |-> [l \in Lines |-> CASE h = h1 -> 2 [] h = h2 -> 1 [] OTHER -> 0]]

(* One line with a small budget over a short window and a larger one over a longer. *)
TwoWindows == {[line |-> l1, limit |-> 2, window |-> 1],
               [line |-> l1, limit |-> 3, window |-> 2]}

(* Holders and continuations of actions that cost nothing, once per key; answers  *)
(* while one key at most was taken.                                               *)
HoldersScene ==
    /\ ledger = {}
    /\ \A k \in Keys : effects[k].attempt <= 1
    /\ \A id \in Approvals : approvals[id].hash \in {h3, NoHash}
    /\ \/ \A id \in Approvals : approvals[id].status = "absent"
       \/ \E k \in Keys : effects[k].state = "new"

(* Retries and charges of one worker, none of them free, and what a human resolves *)
(* before the last tick.                                                          *)
BudgetScene ==
    /\ \A id \in Approvals : approvals[id].status = "absent"
    /\ \A k \in Keys : /\ continuations[k].token = NoToken /\ effects[k].resolvedBy # "hook"
                       /\ effects[k].lease <= now + Lease
                       /\ now > 2 => effects[k].resolvedBy = NoResolver
    /\ Cardinality({effects[k].action : k \in Keys} \ {NoAction}) <= 1
    /\ \A k \in Keys, n \in 1..MaxAttempt : n <= effects[k].attempt =>
          \E row \in ledger : row.key = k /\ row.attempt = n

NobodyAtGates == \A a \in Actions : At(a, "idle")

(* One call at the gate of one approval until it has taken or was refused, with a *)
(* rival for its key; the clock moves while nobody has taken the key.             *)
GateScene ==
    /\ ledger = {} /\ now <= 2
    /\ now > 1 => \A id \in Approvals : approvals[id].status # "pending"
    /\ \A k \in Keys : continuations[k].token = NoToken /\ effects[k].lease <= Lease
    /\ \E k \in Keys : effects[k].state = "new"
    /\ \A a \in Actions, k \in Keys : ~At(a, "idle") /\ k # gates[a].key => effects[k].state = "new"
    /\ \/ \E a \in Actions : At(a, "taken")
       \/ \A k \in Keys : effects[k].attempt <= (IF now = 0 THEN 1 ELSE 0)
    /\ \A id \in Approvals : approvals[id].hash \in {h3, NoHash} /\ approvals[id].needed = 1
    /\ \A a \in Actions : gates[a].hash \in {h3, NoHash}
    /\ Cardinality({a \in Actions : AtGate(a)}) <= 1
    /\ \A k \in Keys : effects[k].state # "executing" /\ effects[k].resolvedBy # "human"

GateOpen == \A a \in Actions : gates[a].pc \notin {"taken", "refused"}

InScene == CASE scene = "holders" -> HoldersScene /\ NobodyAtGates
             [] scene = "budget" -> BudgetScene /\ NobodyAtGates
             [] scene = "gates" -> GateScene

StillWorld == within /\ barred = {}

SceneInit ==
    /\ GatesInit
    /\ \/ scene \in {"holders", "budget"} /\ StillWorld
       \/ scene = "gates" /\ Cardinality(barred) = 1
SceneNext ==
    /\ (IF scene = "gates" THEN GateOpen /\ GatesNext ELSE Elsewhere)
    /\ UNCHANGED scene
    /\ InScene'
SceneSpec == SceneInit /\ [][SceneNext]_<<allVars, scene>>

Alike == Permutations(Keys) \cup Permutations(Actions)
             \cup Permutations(Principals) \cup Permutations(Worlds)
=============================================================================
