--------------------------- MODULE ConsensusPrice ---------------------------
(***************************************************************************)
(* The price a set of oracle quotes stands for                             *)
(* (OracleBundleManager::CalculateConsensusPrice).  A bundle of quotes is  *)
(* a function from whoever quoted to a number; quotes outside the allowed  *)
(* price range never get this far.                                         *)
(***************************************************************************)
EXTENDS FiniteSets, Functions, Integers

\* The k-th smallest value of f, counted from 0, as in a sorted vector.
Nth(f, k) ==
    CHOOSE v \in Range(f) : /\ Cardinality({x \in DOMAIN f : f[x] < v}) <= k
                            /\ Cardinality({x \in DOMAIN f : f[x] <= v}) > k

\* Mutant: the even case counts from one.
Median_High(f) ==
    LET n == Cardinality(DOMAIN f)
    IN  IF n % 2 = 0 THEN (Nth(f, n \div 2) + Nth(f, IF n = 2 THEN 1 ELSE n \div 2 + 1)) \div 2
                     ELSE Nth(f, n \div 2)

\* The middle value, or the average of the two in the middle, rounded down.
Median(f) ==
    LET n == Cardinality(DOMAIN f)
    IN  IF n % 2 = 0 THEN (Nth(f, n \div 2 - 1) + Nth(f, n \div 2)) \div 2
                     ELSE Nth(f, n \div 2)

\* What lies within one and a half interquartile ranges of the quartiles.
NoOutliers(f) ==
    LET n == Cardinality(DOMAIN f)
        q1 == Nth(f, n \div 4)
        q3 == Nth(f, (n * 3) \div 4)
        reach == ((q3 - q1) * 3) \div 2
    IN  Restrict(f, {x \in DOMAIN f : q1 - reach <= f[x] /\ f[x] <= q3 + reach})

CalculateConsensusPrice(f) ==
    IF Cardinality(DOMAIN f) < 4 \/ DOMAIN NoOutliers(f) = {}
    THEN Median(f) ELSE Median(NoOutliers(f))

-----------------------------------------------------------------------------
\* A quarter of the quotes can say what they like: the consensus price stays
\* between the lowest and the highest of the others.  (Half of them cannot be
\* ignored, as with a plain median: a filtered quote on one side moves the
\* median towards the other.)
QuarterIgnored(f) ==
    LET c == CalculateConsensusPrice(f)
    IN  \A F \in SUBSET DOMAIN f :
            4 * Cardinality(F) <= Cardinality(DOMAIN f) =>
                /\ \E x \in DOMAIN f \ F : f[x] <= c
                /\ \E x \in DOMAIN f \ F : c <= f[x]
=============================================================================
