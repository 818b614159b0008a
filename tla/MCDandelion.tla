---------------------------- MODULE MCDandelion ----------------------------
(* An instance of Dandelion for TLC. *)
EXTENDS Dandelion, TLC

CONSTANTS i1, o1, o2, t1, none

\* No transaction spends another.
Unrelated == {}

\* Two instances in one: stem transactions while o2 never connects and no
\* shuffle is due, or all the peers, shuffles and no stem transactions.
MCInit ==
    /\ StemInit /\ net = NoRoutes
    /\ \/ /\ inputs = 0 /\ shuffles = MaxShuffles
          /\ conn = [p \in Peers |-> IF p = o2 THEN "gone" ELSE "new"]
       \/ /\ inputs = MaxInputs /\ shuffles = 0
          /\ conn = [p \in Peers |-> "new"]
MCSpec == MCInit /\ [][Next]_vars /\ Fairness
============================================================================
