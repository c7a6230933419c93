---------------------------- MODULE EvidenceLog ----------------------------
(***************************************************************************)
(* What the receipt store promises about evidence, whatever its rows look  *)
(* like: receipts are numbered in the order they were written, only the    *)
(* oldest may be erased and never the newest, and before anything is       *)
(* erased a witness outside the store has been shown how far.              *)
(***************************************************************************)
EXTENDS Integers

VARIABLES
    written,    \* how many receipts were ever written
    kept,       \* the numbers of those still there
    erased,     \* the erased prefix is 1..erased
    witnessed   \* the marks the witness has been shown

vars == <<written, kept, erased, witnessed>>

Init == written = 0 /\ kept = {} /\ erased = 0 /\ witnessed = {}

Write ==
    /\ written' = written + 1
    /\ kept' = kept \cup {written + 1}
    /\ UNCHANGED <<erased, witnessed>>

Witness ==
    /\ \E n \in 0..written : witnessed' = witnessed \cup {n}
    /\ UNCHANGED <<written, kept, erased>>

Erase ==
    /\ \E n \in witnessed :
           /\ erased < n /\ n < written
           /\ erased' = n
           /\ kept' = {m \in kept : m > n}
    /\ UNCHANGED <<written, witnessed>>

Next == Write \/ Witness \/ Erase

Spec == Init /\ [][Next]_vars
=============================================================================
