--------------------------- MODULE MCPostgresStore ---------------------------
(* Instances of the PostgreSQL store for TLC: who meets whom. *)
EXTENDS PostgresStore, TLC

CONSTANTS c1, c2, c3, k1, k2, a1, a2, h1, h2, p1, u1, u2

Job(does, key, action, hash, id, who) ==
    [does |-> does, key |-> key, action |-> action, hash |-> hash, request |-> id, who |-> who]
Run(k, a, h, id) == Job("run", k, a, h, id, Nobody)
Answer(does, u) == Job(does, NoKey, NoAction, NoHash, p1, u)
On(does, k) == Job(does, k, NoAction, NoHash, NoApproval, Nobody)
Cast(x, y, z) == (c1 :> x) @@ (c2 :> y) @@ (c3 :> z)
Absent == Job("nothing", NoKey, NoAction, NoHash, NoApproval, Nobody)

(* Two workers that share an action id on one key, and a human. *)
Sharing == Cast(Run(k1, a1, h2, NoApproval), Run(k1, a1, h2, NoApproval), On("resolve", k1))
(* The same two, one of which outlives its lease. *)
Lapsing == Cast(Run(k1, a1, h2, NoApproval), Run(k1, a1, h2, NoApproval), Absent)
(* Two workers spend from the same two lines. *)
Racing == Cast(Run(k1, a1, h1, NoApproval), Run(k2, a2, h1, NoApproval), Absent)
(* Two workers present one approval for two keys. *)
Presenting == Cast(Run(k1, a1, h2, p1), Run(k2, a2, h2, p1), Answer("grant", u1))
(* One of a quorum answers twice, another once. *)
Counting == Cast(Answer("grant", u1), Answer("grant", u1), Answer("grant", u2))
Refusing == Cast(Answer("grant", u1), Answer("deny", u2), Answer("grant", u2))
(* A suspended worker and two resumptions. *)
Resuming == Cast(Job("suspend", k1, a1, h2, NoApproval, Nobody), On("take", k1), On("take", k1))

AllCasts == {Sharing, Lapsing, Racing, Presenting, Counting, Refusing, Resuming}

(* What is asked for, and the moment at which the clock matters to each cast.  Only   *)
(* PutRequest and Tick, which are not fair, are held back.                            *)
Question ==
    approvals[p1].status = "absent" /\ approvals'[p1].status = "pending" =>
        IF jobs = Presenting THEN approvals'[p1].needed = 1 ELSE approvals'[p1].hash = h2
PresentedLate ==
    /\ At(c2, "idle")
    /\ \/ approvals[p1].status = "pending" /\ At(c3, "write")
       \/ approvals[p1].status = "granted" /\ At(c1, "plan")
AnsweredLate == approvals[p1].answers # {} \/ At(c3, "write")
Clock ==
    now' # now =>
        /\ jobs # Sharing
        /\ jobs \in {Lapsing, Racing} => At(c1, "run")
        /\ jobs = Presenting => PresentedLate
        /\ jobs \in {Counting, Refusing} => AnsweredLate

(* h1 is charged to both lines, h2 to none. *)
TwoCharges == [h \in Hashes |-> [l \in Lines |-> IF h = h1 THEN 1 ELSE 0]]
OneAtATime == {[line |-> l, limit |-> 1, window |-> 2] : l \in Lines}
=============================================================================
