--------------------------- MODULE MCReceiptChain ---------------------------
(* Definitions for the model-checking runs of ReceiptChain. *)
EXTENDS ReceiptChain, TLC

AlikePruners == Permutations(Pruners)

(* At most two processes are in the middle of something at once, and a prune asks *)
(* for the first receipt or the first two.                                        *)
Pairwise ==
    /\ Cardinality({p \in Procs : jobs[p].step # "idle"}) <= 2
    /\ \A p \in Procs : jobs[p].through <= 2

(* What spends meets a prune in one behaviour, a hold and a lost row in another; *)
(* the clock matters to what spends.                                             *)
Spent == \E k \in Keys : effects[k].attempt > 0
Held == \E h \in Holds : holds[h].status # "none"
Apart ==
    /\ Spent => ~Held /\ damaged = {}
    /\ now > 0 => Spent
=============================================================================
