--------------------------- MODULE MCHeadersSync ---------------------------
(* An instance of HeadersSync for TLC. *)
EXTENDS HeadersSync

CONSTANT none

Initials == [a \in Algos |-> 500 + 100 * a]
Factors == [a \in Algos |-> a + 1]

\* Algorithm 1 was last used before the window of HeadersWorkState begins.
MCBase ==
    LET Add(c, a) ==
            Append(c, [height |-> Len(c), algo |-> a, bit |-> 0, time |-> 10 * Len(c), bits |-> 600,
                       chainwork |-> IF c = <<>> THEN 0
                                     ELSE Last(c).chainwork + Proof(600) * Factors[a]])
    IN  FoldLeft(Add, <<>>, <<1, 1, 0, 0, 0, 0, 0>>)

\* Either any chain of the peer's, which then stays as it is and is served in
\* time, or one chain, changes and delays.
MCInit ==
    /\ rules \in Rules
    /\ \E f \in [1..Ahead -> OldBlocks] :
         /\ \A i \in 1..Ahead : IsAlgoActive(Last(Base).height + i, f[i].algo)
         /\ Start(FoldLeft(Mined, Base, f))
         /\ \/ changes = MaxChanges /\ crossed = MaxCrossed
            \/ /\ f = [i \in 1..Ahead |-> [algo |-> 0, delay |-> 5, bit |-> 0]]
               /\ changes = 0 /\ crossed = 0
MCSpec == MCInit /\ [][Next]_vars /\ Fairness

MCOldBlocks == [algo : Algos, delay : {5, 25}, bit : {0}]
MCNewBlocks == [algo : {0, 2}, delay : {10}, bit : {1}]
=============================================================================
