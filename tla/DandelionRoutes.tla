-------------------------- MODULE DandelionRoutes --------------------------
(***************************************************************************)
(* Which peer a Dandelion++ stem transaction is handed to: the routing     *)
(* data of CConnman (src/src/dandelion.cpp) and the threads that change it *)
(* while peers come and go (src/src/net.cpp).                              *)
(*                                                                         *)
(* Everything in net is guarded by m_nodes_mutex and one acquisition of it *)
(* is one step.  A peer is a CNode object, connected once: a reconnection  *)
(* is another object.  The vectors hold no object twice; the order in      *)
(* which they are searched is left open.                                   *)
(***************************************************************************)
EXTENDS FiniteSets, Integers

CONSTANTS
    Peers,            \* CNode objects
    InboundPeers,     \* those whose connection the other side opened
    NoPeer,           \* nullptr
    MaxDestinations,  \* DANDELION_MAX_DESTINATIONS
    MaxShuffles       \* bound: runs of DandelionShuffle

ASSUME RoutesAssumption ==
    /\ IsFiniteSet(Peers)
    /\ InboundPeers \subseteq Peers
    /\ NoPeer \notin Peers
    /\ MaxDestinations \in Nat \ {0}
    /\ MaxShuffles \in Nat

VARIABLES
    net,      \* routing data: in, out, dest, routes, local
    conn,     \* the life of each CNode
    shuffles  \* runs of DandelionShuffle so far

routeVars == <<net, conn, shuffles>>

Routing == [in : SUBSET Peers,             \* vDandelionInbound
            out : SUBSET Peers,            \* vDandelionOutbound
            dest : SUBSET Peers,           \* vDandelionDestination
            routes : [Peers -> Peers \cup {NoPeer}],  \* mDandelionRoutes
            local : Peers \cup {NoPeer}]   \* localDandelionDestination

\* A peer is in m_nodes (open), in m_nodes_disconnected (closing), unlinked from
\* the routing data but still in m_peer_map (closed), or deleted (gone).
Life == {"new", "open", "closing", "closed", "gone"}

InPeerMap(p) == conn[p] \in {"open", "closing", "closed"}

NoRoutes == [in |-> {}, out |-> {}, dest |-> {},
             routes |-> [p \in Peers |-> NoPeer], local |-> NoPeer]

RoutesInit ==
    /\ net = NoRoutes
    /\ conn = [p \in Peers |-> "new"]
    /\ shuffles = 0

-----------------------------------------------------------------------------
(* Selection.                                                              *)

Load(n, d) == Cardinality({p \in Peers : n.routes[p] = d})

\* Candidates start from "no more routes than there are inbound peers" and are
\* the destinations with the fewest routes.
Candidates(n) ==
    {d \in n.dest : /\ Load(n, d) <= Cardinality(n.in)
                    /\ \A e \in n.dest : Load(n, d) <= Load(n, e)}

\* The peers SelectFromDandelionDestinations may return.
SelectFromDandelionDestinations(n) ==
    IF Candidates(n) = {} THEN {NoPeer} ELSE Candidates(n)

-----------------------------------------------------------------------------
(* The connection threads.                                                 *)

\* CreateNodeFromAcceptedSocket: a new inbound peer and its route.
Accept(p) ==
    /\ conn[p] = "new" /\ p \in InboundPeers
    /\ conn' = [conn EXCEPT ![p] = "open"]
    /\ LET n == [net EXCEPT !.in = @ \cup {p}]
       IN  \E d \in SelectFromDandelionDestinations(n) :
               net' = [n EXCEPT !.routes[p] = d]
    /\ UNCHANGED shuffles

\* OpenNetworkConnection: a new outbound peer; it becomes a destination only
\* once it has shown that it supports Dandelion, or in a shuffle.
OpenNetworkConnection(p) ==
    /\ conn[p] = "new" /\ p \notin InboundPeers
    /\ conn' = [conn EXCEPT ![p] = "open"]
    /\ net' = [net EXCEPT !.out = @ \cup {p}]
    /\ UNCHANGED shuffles

\* DisconnectNodes, first half: fDisconnect is set and the peer leaves m_nodes.
Disconnect(p) ==
    /\ conn[p] = "open"
    /\ conn' = [conn EXCEPT ![p] = "closing"]
    /\ UNCHANGED <<net, shuffles>>

\* The peers without p, and the replacements for a lost destination: an
\* outbound peer that is none yet, if there is one.
Without(n, p) == [n EXCEPT !.in = @ \ {p}, !.out = @ \ {p}, !.dest = @ \ {p}]
Replacements(n, p) ==
    LET spare == Without(n, p).out \ n.dest
    IN  IF p \in n.dest /\ spare # {} THEN {{q} : q \in spare} ELSE {{}}

\* Routes from p are erased, routes to p go to the new destination d, or are
\* erased if there is none; so does the local destination.
Rerouted(n, p, d) ==
    [n EXCEPT !.routes = [q \in Peers |-> IF q = p THEN NoPeer
                                          ELSE IF @[q] = p THEN d ELSE @[q]],
              !.local = IF @ = p THEN d ELSE @]

\* DisconnectNodes, second half, for a peer nobody refers to any more.  The new
\* destination is chosen while the routes to p still count.
CloseDandelionConnections(p) ==
    /\ conn[p] = "closing"
    /\ conn' = [conn EXCEPT ![p] = "closed"]
    /\ \E r \in Replacements(net, p) :
         LET n == [Without(net, p) EXCEPT !.dest = @ \cup r]
         IN  \E d \in SelectFromDandelionDestinations(n) : net' = Rerouted(n, p, d)
    /\ UNCHANGED shuffles

\* DeleteNode: FinalizeNode takes the peer out of m_peer_map, then the object
\* is deleted.
DeleteNode(p) ==
    /\ conn[p] = "closed"
    /\ conn' = [conn EXCEPT ![p] = "gone"]
    /\ UNCHANGED <<net, shuffles>>

-----------------------------------------------------------------------------
(* The message thread.  Its loop keeps a reference to the peers it works on,  *)
(* so that one that is closing may still be served.                            *)

Served(p) == conn[p] \in {"open", "closing"}

\* The peer requested DANDELION_DISCOVERYHASH.
AddDandelionDestination(p) ==
    /\ Served(p) /\ p \notin net.dest
    /\ LET listed == p \in net.in \cup net.out
           n == [net EXCEPT
                   !.in = IF ~ listed /\ p \in InboundPeers THEN @ \cup {p} ELSE @,
                   !.out = IF ~ listed /\ p \notin InboundPeers THEN @ \cup {p} ELSE @]
       IN  net' = IF Cardinality(net.dest) < MaxDestinations
                  THEN [n EXCEPT !.dest = @ \cup {p},
                                 !.local = IF @ = NoPeer THEN p ELSE @]
                  ELSE n
    /\ UNCHANGED <<conn, shuffles>>

\* The route of pfrom, made if there is none: the possible outcomes.
getDandelionDestination(n, pfrom) ==
    IF n.routes[pfrom] # NoPeer THEN {n}
    ELSE {[n EXCEPT !.routes[pfrom] = d] : d \in SelectFromDandelionDestinations(n)}

\* localDandelionDestinationPushInventory when the peers of A take the
\* inventory: the routing data afterwards and the peer that took it.  The local
\* destination comes first, then the others, of which one that takes it becomes
\* the local one; after that every destination has been tried.
PushOutcomes(n, A) ==
    IF n.local \in A THEN {[net |-> n, to |-> n.local]}
    ELSE IF n.dest \cap A # {}
         THEN {[net |-> [n EXCEPT !.local = d], to |-> d] : d \in n.dest \cap A}
         ELSE {[net |-> [n EXCEPT !.local = d], to |-> NoPeer] :
                  d \in SelectFromDandelionDestinations(n)}

-----------------------------------------------------------------------------
(* The shuffle thread.                                                     *)

\* New destinations are outbound peers, as many as there are up to the limit.
ShuffledDestinations ==
    LET k == IF Cardinality(net.out) < MaxDestinations
             THEN Cardinality(net.out) ELSE MaxDestinations
    IN  {D \in SUBSET net.out : Cardinality(D) = k}

\* Every inbound peer in turn is given a least loaded destination: the loads end
\* up equal or one apart.
Balanced(n) ==
    {r \in [Peers -> n.dest \cup {NoPeer}] :
        /\ \A p \in Peers : (r[p] # NoPeer) <=> (p \in n.in /\ n.dest # {})
        /\ LET m == [n EXCEPT !.routes = r]
           IN  \A d, e \in n.dest : Load(m, d) <= Load(m, e) + 1}

DandelionShuffle ==
    /\ shuffles < MaxShuffles
    /\ shuffles' = shuffles + 1
    /\ \E D \in ShuffledDestinations :
         LET m == [net EXCEPT !.dest = D, !.local = NoPeer]
         IN  \E r \in Balanced(m) :
                LET n == [m EXCEPT !.routes = r]
                IN  \E d \in SelectFromDandelionDestinations(n) :
                        net' = [n EXCEPT !.local = d]
    /\ UNCHANGED conn

-----------------------------------------------------------------------------
(* Properties.                                                             *)

RoutesTypeOK ==
    /\ net \in Routing
    /\ conn \in [Peers -> Life]
    /\ shuffles \in 0..MaxShuffles

\* No stem transaction can be handed to a peer that is no longer connected:
\* every pointer in the routing data is to a peer whose routes have not been
\* closed, routes start at inbound peers and end, like the local destination, at
\* current destinations, of which there are at most DANDELION_MAX_DESTINATIONS.
RoutesAreLive ==
    /\ \A p \in net.in \cup net.out \cup net.dest : conn[p] \in {"open", "closing"}
    /\ \A p \in Peers : net.routes[p] # NoPeer => p \in net.in /\ net.routes[p] \in net.dest
    /\ net.local \in net.dest \cup {NoPeer}
    /\ Cardinality(net.dest) <= MaxDestinations
=============================================================================
