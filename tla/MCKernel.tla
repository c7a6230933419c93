------------------------------- MODULE MCKernel -------------------------------
(* Instances of the kernel for TLC. *)
EXTENDS Kernel, TLC

CONSTANTS h1, h2, k1, k2, l1, c1, c2, c3, c4, s1

(* Each call proposes an action of its own: the action ids are the calls. *)
OwnAction == [c \in Calls |-> c]
SameHash == [c \in Calls |-> h1]
SameKey == [c \in Calls |-> k1]

Allowed == [h \in Hashes |-> {"allow"}]

Keyless == Calls \ {c1, c2, c3}
OneKeyContended == [c \in Calls |-> IF c \in Keyless THEN NoKey ELSE k1]
DearIsAnother == [c \in Calls |-> IF c = c3 THEN h2 ELSE h1]
DearIsFree == [h \in Hashes |-> IF h = h2 THEN {"allow"} ELSE {"approve", "allow", "deny"}]
DearCosts == [h \in Hashes |-> [l \in Lines |-> IF h = h2 THEN 2 ELSE 0]]
LessThanThat == {[line |-> l1, limit |-> 1, window |-> 1]}

(* Three scenes: two calls of one effect that need no approval, and a resumption;  *)
(* one of them and a call of the same action without a key; and a call that costs   *)
(* more than its budget.  A step makes no call of another scene than the one begun; of   *)
(* those that contend or ask only the first may die.                                *)
Only(cs) == \A c \in Everyone \ cs : (At(c, "idle"))'
Unasked == \A c \in Calls : (calls[c].decision # "approve")'
OneScene ==
    \/ Only({c1, c2, s1}) /\ Unasked /\ \A c \in {c2, s1} : (~At(c, "crashed"))'
    \/ Only({c1} \cup Keyless) /\ \A c \in Keyless : (~At(c, "crashed"))'
    \/ Only({c3})

NoCost == [h \in Hashes |-> [l \in Lines |-> 0]]
NoBudgets == {}
=============================================================================
