---------------------------- MODULE LogicalEffect ----------------------------
(***************************************************************************)
(* What the kernel promises about one logical effect, whatever the number  *)
(* of agents, retries, crashes and clocks behind it:                       *)
(*                                                                         *)
(*   - at most one attempt is in flight, and each attempt has a number of  *)
(*     its own;                                                            *)
(*   - an effect that is done is done for ever;                            *)
(*   - an outcome nobody knows stays unknown until somebody adjudicates    *)
(*     it, and only then may the effect be attempted again;                *)
(*   - the budget is charged for the attempt that may have happened, and   *)
(*     for no other.                                                       *)
(***************************************************************************)
EXTENDS Integers

CONSTANTS Keys, Actions, NoAction

VARIABLES
    phase,    \* "open", "held", "unknown" or "done"
    attempt,  \* the number of the latest attempt, 0 before the first
    holder,   \* the action that made the latest attempt
    charged   \* the attempts whose charges are held

effectVars == <<phase, attempt, holder, charged>>

Init ==
    /\ phase = [k \in Keys |-> "open"]
    /\ attempt = [k \in Keys |-> 0]
    /\ holder = [k \in Keys |-> NoAction]
    /\ charged = [k \in Keys |-> {}]

(* A new attempt takes an open effect; a free one charges nothing. *)
Acquire(k, a) ==
    /\ phase[k] = "open"
    /\ phase' = [phase EXCEPT ![k] = "held"]
    /\ attempt' = [attempt EXCEPT ![k] = attempt[k] + 1]
    /\ holder' = [holder EXCEPT ![k] = a]
    /\ \E new \in {{}, {attempt[k] + 1}} : charged' = [charged EXCEPT ![k] = new]

(* The attempt ends: it happened, or it provably did not and is paid back. *)
Happened(k) ==
    /\ phase[k] = "held"
    /\ phase' = [phase EXCEPT ![k] = "done"]
    /\ UNCHANGED <<attempt, holder, charged>>

DidNotHappen(k) ==
    /\ phase[k] = "held"
    /\ phase' = [phase EXCEPT ![k] = "open"]
    /\ charged' = [charged EXCEPT ![k] = {}]
    /\ UNCHANGED <<attempt, holder>>

(* Nobody knows: the executor did not say, or its lease ran out. *)
BecomesUnknown(k) ==
    /\ phase[k] = "held"
    /\ phase' = [phase EXCEPT ![k] = "unknown"]
    /\ UNCHANGED <<attempt, holder, charged>>

(* A human, or a hook, answers in the executor's place. *)
Adjudicate(k) ==
    /\ phase[k] = "unknown"
    /\ \/ /\ phase' = [phase EXCEPT ![k] = "done"]
          /\ UNCHANGED charged
       \/ /\ phase' = [phase EXCEPT ![k] = "open"]
          /\ charged' = [charged EXCEPT ![k] = {}]
    /\ UNCHANGED <<attempt, holder>>

Next ==
    \E k \in Keys :
        \/ \E a \in Actions : Acquire(k, a)
        \/ Happened(k)
        \/ DidNotHappen(k)
        \/ BecomesUnknown(k)
        \/ Adjudicate(k)

Spec == Init /\ [][Next]_effectVars
=============================================================================
