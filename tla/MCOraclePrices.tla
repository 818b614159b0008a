--------------------------- MODULE MCOraclePrices ---------------------------
(* Instances of OraclePrices for TLC. *)
EXTENDS OraclePrices

\* Moves of 19% and 10% freeze everything; a single move of 31% is refused.
MCOffers ==
    {[price |-> 0, kind |-> "plain"], [price |-> 119, kind |-> "redeem"]}
    \cup [price : {100, 119, 131}, kind : {"mint"}]
=============================================================================
