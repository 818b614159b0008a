-------------------------- MODULE MCCanonicalHealth --------------------------
(* Instances of CanonicalHealth for TLC. *)
EXTENDS CanonicalHealth, TLC

CONSTANTS v1, v2, v3, none

\* g - a1 - a2 - a3 - a4 and the forks b2 - b3 - b4 (from a1) and c1 - c2 (from
\* g).  b3 alone breaks the Thaw Day rules.  The mint of v3 is in two branches,
\* at different heights.
MCParent == [g |-> "g", a1 |-> "g", a2 |-> "a1", a3 |-> "a2", a4 |-> "a3",
             b2 |-> "a1", b3 |-> "b2", b4 |-> "b3", c1 |-> "g", c2 |-> "c1"]
MCBlocks == DOMAIN MCParent
MCHeight == [g |-> 0, a1 |-> 1, a2 |-> 2, a3 |-> 3, a4 |-> 4, b2 |-> 2, b3 |-> 3,
             b4 |-> 4, c1 |-> 1, c2 |-> 2]
Path[b \in MCBlocks] == IF b = "g" THEN {b} ELSE Path[MCParent[b]] \cup {b}
MCBranch == [b \in MCBlocks |-> Path[b]]

Mint(v) == [kind |-> "mint", vault |-> v]
Redeem(v) == [kind |-> "redeem", vault |-> v]
MCTxs == [g |-> <<>>, a1 |-> <<Mint(v1)>>, a2 |-> <<Mint(v2), Redeem(v1)>>,
          a3 |-> <<Redeem(v2), Mint(v3)>>, a4 |-> <<>>, b2 |-> <<Mint(v3)>>,
          b3 |-> <<Redeem(v1)>>, b4 |-> <<Mint(v2)>>, c1 |-> <<Mint(v2)>>,
          c2 |-> <<Redeem(v2)>>]
MCFollows == [b \in MCBlocks |-> b # "b3"]

MCPrincipal == v1 :> 1 @@ v2 :> 2 @@ v3 :> 4
MCCollateral == v1 :> 3 @@ v2 :> 5 @@ v3 :> 9
=============================================================================
