-------------------------- MODULE MCOracleMessages --------------------------
(* An instance of OracleMessages for TLC. *)
EXTENDS OracleMessages

CONSTANTS n1, n2, n3, none

\* Two oracles, and between them a node that has none.
Ends == 1 :> n1 @@ 2 :> n3
Line == {<<n1, n2>>, <<n2, n1>>, <<n2, n3>>, <<n3, n2>>}

\* Beside the network, which never has more than two quotes, every bundle of up
\* to MaxQuotes prices, listed from the lowest.
CONSTANTS Prices, MaxQuotes
VARIABLE bundle

AddQuote ==
    /\ Len(bundle) < MaxQuotes
    /\ \E p \in Prices : /\ \A i \in DOMAIN bundle : bundle[i] <= p
                         /\ bundle' = Append(bundle, p)
    /\ Init /\ UNCHANGED vars
StartOver ==
    /\ bundle # <<>> /\ bundle' = <<>>
    /\ UNCHANGED vars

MCInit == Init /\ bundle = <<>>
MCNext == \/ Next /\ bundle = <<>> /\ UNCHANGED bundle
          \/ AddQuote \/ StartOver
MCSpec == MCInit /\ [][MCNext]_<<vars, bundle>>

\* CalculateConsensusPrice lets a quarter of the quotes say what they like: it
\* stays between the lowest and the highest of the others, whether or not the
\* outlier filter removed some of them.
ConsensusPriceIsRobust == bundle # <<>> => QuarterIgnored(bundle)
=============================================================================
