-------------------------- MODULE DandelionProofs --------------------------
(***************************************************************************)
(* Proofs about Dandelion: routes lead to live peers, whatever peers,      *)
(* shuffles and transactions there are; and a stem transaction keeps its   *)
(* place in the stempool and its embargo, for transactions that do not     *)
(* spend one another.                                                      *)
(***************************************************************************)
EXTENDS Dandelion, FiniteSetTheorems, TLAPS

\* Most steps are first-order reasoning, which Zenon does; the others name SMT.
USE Zenon

\* RoutesAreLive as a predicate of routing data n and lives c.
Good(n, c) ==
    /\ n \in Routing
    /\ c \in [Peers -> Life]
    /\ \A p \in n.in \cup n.out \cup n.dest : c[p] \in {"open", "closing"}
    /\ \A p \in Peers : n.routes[p] # NoPeer => p \in n.in /\ n.routes[p] \in n.dest
    /\ n.local \in n.dest \cup {NoPeer}
    /\ Cardinality(n.dest) <= MaxDestinations

\* The inductive invariant: the peer whose transaction the message thread is
\* about to relay still has its place among the inbound peers, since a peer that
\* is being served is not closed.
RoutesInv ==
    /\ Good(net, conn)
    /\ msg.pc = "relay" => msg.from \in net.in

-----------------------------------------------------------------------------
(* Operators on the routing data.                                          *)

\* SelectFromDandelionDestinations returns a destination or nothing.
LEMMA SelectedIsDestination ==
    ASSUME NEW n, NEW d \in SelectFromDandelionDestinations(n)
    PROVE  d \in n.dest \cup {NoPeer}
BY DEF SelectFromDandelionDestinations, Candidates

\* Sets of peers are finite and their size is a number.
LEMMA PeersAreFinite ==
    ASSUME NEW S \in SUBSET Peers
    PROVE  IsFiniteSet(S) /\ Cardinality(S) \in Nat
BY RoutesAssumption, FS_Subset, FS_CardinalityType

\* A local destination may be replaced by another destination.
LEMMA LocalReplaced ==
    ASSUME NEW n, NEW c, Good(n, c), NEW d \in n.dest \cup {NoPeer}
    PROVE  /\ Good([n EXCEPT !.local = d], c)
           /\ [n EXCEPT !.local = d].in = n.in
BY DEF Good, Routing

\* So may the route of an inbound peer.
LEMMA RouteReplaced ==
    ASSUME NEW n, NEW c, Good(n, c), NEW d \in n.dest \cup {NoPeer}, NEW p \in n.in
    PROVE  /\ Good([n EXCEPT !.routes[p] = d], c)
           /\ [n EXCEPT !.routes[p] = d].in = n.in
<1>1. p \in Peers /\ d \in Peers \cup {NoPeer} BY DEF Good, Routing
<1>2. [n EXCEPT !.routes[p] = d] \in Routing BY <1>1 DEF Good, Routing
<1>3. \A q \in Peers : [n EXCEPT !.routes[p] = d].routes[q] = IF q = p THEN d ELSE n.routes[q]
  BY DEF Good, Routing
<1> QED BY <1>1, <1>2, <1>3, SMT DEF Good, Routing

\* getDandelionDestination and localDandelionDestinationPushInventory keep the
\* routing data good, whichever peers take the inventory.
LEMMA UseKeepsGood ==
    ASSUME Good(net, conn)
    PROVE  /\ \A p \in net.in : \A n \in getDandelionDestination(net, p) :
                 Good(n, conn) /\ n.in = net.in
           /\ \A A : \A o \in PushOutcomes(net, A) :
                 Good(o.net, conn) /\ o.net.in = net.in
<1>1. ASSUME NEW p \in net.in, NEW n \in getDandelionDestination(net, p)
      PROVE  Good(n, conn) /\ n.in = net.in
  <2>1. CASE n = net BY <2>1
  <2>2. CASE \E d \in SelectFromDandelionDestinations(net) : n = [net EXCEPT !.routes[p] = d]
    BY <2>2, SelectedIsDestination, RouteReplaced, SMT
  <2> QED BY <1>1, <2>1, <2>2 DEF getDandelionDestination
<1>2. ASSUME NEW A, NEW o \in PushOutcomes(net, A)
      PROVE  Good(o.net, conn) /\ o.net.in = net.in
  <2>1. CASE o.net = net BY <2>1
  <2>2. CASE \E d \in net.dest \cup {NoPeer} : o.net = [net EXCEPT !.local = d]
    BY <2>2, LocalReplaced, SMT
  <2>3. o.net = net \/ \E d \in net.dest \cup {NoPeer} : o.net = [net EXCEPT !.local = d]
    BY <1>2, SelectedIsDestination, SMT DEF PushOutcomes
  <2> QED BY <2>1, <2>2, <2>3
<1> QED BY <1>1, <1>2

-----------------------------------------------------------------------------
(* The steps of DandelionRoutes.                                           *)

\* A new inbound peer.
LEMMA AcceptKeepsGood ==
    ASSUME Good(net, conn), NEW p \in Peers, Accept(p)
    PROVE  Good(net', conn') /\ net.in \subseteq net'.in
<1> DEFINE n == [net EXCEPT !.in = @ \cup {p}]
<1>1. PICK d \in SelectFromDandelionDestinations(n) : net' = [n EXCEPT !.routes[p] = d]
  BY DEF Accept
<1>2. Good(n, conn') BY SMT DEF Good, Routing, Accept, Life
<1>3. p \in n.in /\ net.in \subseteq n.in BY DEF Good, Routing
<1> HIDE DEF n
<1> QED BY <1>1, <1>2, <1>3, SelectedIsDestination, RouteReplaced

LEMMA OpenKeepsGood ==
    ASSUME Good(net, conn), NEW p \in Peers, OpenNetworkConnection(p)
    PROVE  Good(net', conn') /\ net.in \subseteq net'.in
BY SMT DEF Good, Routing, OpenNetworkConnection, Life

LEMMA DisconnectKeepsGood ==
    ASSUME Good(net, conn), NEW p \in Peers, Disconnect(p)
    PROVE  Good(net', conn') /\ net.in \subseteq net'.in
BY DEF Good, Routing, Disconnect, Life

LEMMA DeleteKeepsGood ==
    ASSUME Good(net, conn), NEW p \in Peers, DeleteNode(p)
    PROVE  Good(net', conn') /\ net.in \subseteq net'.in
BY DEF Good, Routing, DeleteNode, Life

\* The peer leaves the routing data, another may become a destination in its
\* place, and the routes to it go to a destination.  No other inbound peer goes.
LEMMA CloseKeepsGood ==
    ASSUME Good(net, conn), NEW p \in Peers, CloseDandelionConnections(p)
    PROVE  Good(net', conn') /\ net.in \ {p} \subseteq net'.in
<1>1. PICK r \in Replacements(net, p) :
        \E d \in SelectFromDandelionDestinations([Without(net, p) EXCEPT !.dest = @ \cup r]) :
            net' = Rerouted([Without(net, p) EXCEPT !.dest = @ \cup r], p, d)
  BY DEF CloseDandelionConnections
<1> DEFINE n == [Without(net, p) EXCEPT !.dest = @ \cup r]
<1>2. PICK d \in SelectFromDandelionDestinations(n) : net' = Rerouted(n, p, d)
  BY <1>1
<1>3. r \subseteq net.out \ {p} BY SMT DEF Replacements, Without, Good, Routing
<1> DEFINE w == Without(net, p)
<1>4. /\ w \in Routing
      /\ w.in = net.in \ {p} /\ w.out = net.out \ {p} /\ w.dest = net.dest \ {p}
      /\ w.routes = net.routes /\ w.local = net.local
  BY DEF Without, Good, Routing
<1> HIDE DEF w
<1>5. /\ n \in Routing
      /\ n.in = net.in \ {p} /\ n.out = net.out \ {p} /\ n.dest = (net.dest \ {p}) \cup r
      /\ n.routes = net.routes /\ n.local = net.local
  <2>1. n = [w EXCEPT !.dest = @ \cup r] BY DEF w
  <2>2. r \subseteq Peers BY <1>3 DEF Good, Routing
  <2> HIDE DEF n
  <2> QED BY <1>4, <2>1, <2>2 DEF Routing
<1> HIDE DEF n
<1>6. d \in n.dest \cup {NoPeer} BY <1>2, SelectedIsDestination
<1>7. Cardinality(n.dest) <= MaxDestinations
  <2>1. /\ IsFiniteSet(net.dest) /\ Cardinality(net.dest) \in Nat
        /\ IsFiniteSet(net.dest \ {p}) /\ Cardinality(net.dest \ {p}) \in Nat
    BY PeersAreFinite DEF Good, Routing
  <2>2. Cardinality(net.dest) <= MaxDestinations /\ MaxDestinations \in Nat
    BY RoutesAssumption DEF Good
  <2>3. CASE r = {}
    <3>1. n.dest = net.dest \ {p} BY <1>5, <2>3
    <3> QED BY <3>1, <2>1, <2>2, FS_RemoveElement, SMT
  <2>4. CASE p \in net.dest /\ \E q : r = {q}
    <3>1. PICK q : r = {q} BY <2>4
    <3>2. Cardinality(net.dest \ {p}) = Cardinality(net.dest) - 1
      BY <2>1, <2>4, FS_RemoveElement
    <3>3. Cardinality((net.dest \ {p}) \cup {q}) <= Cardinality(net.dest \ {p}) + 1
      <4>1. Cardinality((net.dest \ {p}) \cup {q}) =
              IF q \in net.dest \ {p} THEN Cardinality(net.dest \ {p})
              ELSE Cardinality(net.dest \ {p}) + 1
        BY <2>1, FS_AddElement
      <4> QED BY <4>1, <2>1, SMT
    <3>4. n.dest = (net.dest \ {p}) \cup {q} BY <1>5, <3>1
    <3>5. Cardinality(n.dest) \in Nat BY PeersAreFinite, <1>5 DEF Routing
    <3> QED BY <3>2, <3>3, <3>4, <3>5, <2>1, <2>2, SMT
  <2> QED BY <2>3, <2>4 DEF Replacements
<1>8. /\ net' \in Routing
      /\ net'.in = n.in /\ net'.out = n.out /\ net'.dest = n.dest
      /\ net'.routes = [q \in Peers |-> IF q = p THEN NoPeer
                                        ELSE IF net.routes[q] = p THEN d ELSE net.routes[q]]
      /\ net'.local = IF net.local = p THEN d ELSE net.local
  BY <1>2, <1>5, <1>6 DEF Rerouted, Routing
<1>9. conn' \in [Peers -> Life] /\ \A q \in Peers \ {p} : conn'[q] = conn[q]
  BY DEF CloseDandelionConnections, Good, Life
<1>10. \A q \in net'.in \cup net'.out \cup net'.dest : conn'[q] \in {"open", "closing"}
  BY <1>3, <1>5, <1>8, <1>9 DEF Good, Routing
<1>11. \A q \in Peers : net'.routes[q] # NoPeer => q \in net'.in /\ net'.routes[q] \in net'.dest
  <2> TAKE q \in Peers
  <2>1. net'.routes[q] = IF q = p THEN NoPeer
                         ELSE IF net.routes[q] = p THEN d ELSE net.routes[q]
    BY <1>8
  <2>2. net.routes[q] # NoPeer => q \in net.in /\ net.routes[q] \in net.dest
    BY DEF Good
  <2>3. p # NoPeer BY RoutesAssumption
  <2> QED BY <1>5, <1>6, <1>8, <2>1, <2>2, <2>3
<1>12. net'.local \in net'.dest \cup {NoPeer} BY <1>5, <1>6, <1>8 DEF Good, Routing
<1> QED BY <1>5, <1>7, <1>8, <1>9, <1>10, <1>11, <1>12 DEF Good

\* A peer that is served becomes a destination, unless there are enough.
LEMMA AddDestinationKeepsGood ==
    ASSUME Good(net, conn), NEW p \in Peers, AddDandelionDestination(p)
    PROVE  Good(net', conn') /\ net.in \subseteq net'.in
<1> DEFINE listed == p \in net.in \cup net.out
           n == [net EXCEPT
                   !.in = IF ~ listed /\ p \in InboundPeers THEN @ \cup {p} ELSE @,
                   !.out = IF ~ listed /\ p \notin InboundPeers THEN @ \cup {p} ELSE @]
<1>1. /\ Good(n, conn)
      /\ net.in \subseteq n.in /\ n.dest = net.dest /\ n.local = net.local
  BY DEF Good, Routing, AddDandelionDestination, Served
<1>2. net' = IF Cardinality(net.dest) < MaxDestinations
             THEN [n EXCEPT !.dest = @ \cup {p}, !.local = IF @ = NoPeer THEN p ELSE @]
             ELSE n
  BY DEF AddDandelionDestination
<1>3. conn' = conn /\ conn[p] \in {"open", "closing"}
  BY DEF AddDandelionDestination, Served
<1> HIDE DEF n
<1>4. CASE net' = n BY <1>1, <1>3, <1>4
<1>5. CASE /\ Cardinality(net.dest) < MaxDestinations
           /\ net' = [n EXCEPT !.dest = @ \cup {p}, !.local = IF @ = NoPeer THEN p ELSE @]
  <2>1. Cardinality(net.dest \cup {p}) <= MaxDestinations
    <3>1. /\ IsFiniteSet(net.dest) /\ Cardinality(net.dest) \in Nat
          /\ Cardinality(net.dest \cup {p}) \in Nat
      BY PeersAreFinite, SMT DEF Good, Routing
    <3>2. Cardinality(net.dest \cup {p}) =
            IF p \in net.dest THEN Cardinality(net.dest) ELSE Cardinality(net.dest) + 1
      BY <3>1, FS_AddElement
    <3>3. MaxDestinations \in Nat BY RoutesAssumption
    <3> QED BY <3>1, <3>2, <3>3, <1>5, SMT
  <2>2. /\ net' \in Routing
        /\ net'.in = n.in /\ net'.out = n.out /\ net'.dest = n.dest \cup {p}
        /\ net'.routes = n.routes
        /\ net'.local = IF n.local = NoPeer THEN p ELSE n.local
    BY <1>1, <1>5 DEF Good, Routing
  <2> QED BY <1>1, <1>3, <2>1, <2>2 DEF Good
<1> QED BY <1>2, <1>4, <1>5

\* A shuffle takes its destinations from the outbound peers and routes all
\* inbound ones to them.
LEMMA ShuffleKeepsGood ==
    ASSUME Good(net, conn), DandelionShuffle
    PROVE  Good(net', conn') /\ net.in \subseteq net'.in
<1>1. PICK D \in ShuffledDestinations :
        \E r \in Balanced([net EXCEPT !.dest = D, !.local = NoPeer]) :
        \E d \in SelectFromDandelionDestinations(
                    [[net EXCEPT !.dest = D, !.local = NoPeer] EXCEPT !.routes = r]) :
            net' = [[[net EXCEPT !.dest = D, !.local = NoPeer] EXCEPT !.routes = r]
                       EXCEPT !.local = d]
  BY DEF DandelionShuffle
<1> DEFINE m == [net EXCEPT !.dest = D, !.local = NoPeer]
<1>2. PICK r \in Balanced(m) :
        \E d \in SelectFromDandelionDestinations([m EXCEPT !.routes = r]) :
            net' = [[m EXCEPT !.routes = r] EXCEPT !.local = d]
  BY <1>1
<1> DEFINE n == [m EXCEPT !.routes = r]
<1>3. PICK d \in SelectFromDandelionDestinations(n) : net' = [n EXCEPT !.local = d]
  BY <1>2
<1>4. /\ D \subseteq net.out
      /\ Cardinality(D) <= MaxDestinations
  <2>1. D \in SUBSET net.out BY DEF ShuffledDestinations
  <2>2. Cardinality(net.out) \in Nat /\ MaxDestinations \in Nat
    BY PeersAreFinite, RoutesAssumption DEF Good, Routing
  <2> QED BY <2>1, <2>2, SMT DEF ShuffledDestinations
<1>5. m.dest = D /\ m.in = net.in /\ m.out = net.out /\ m.local = NoPeer
  BY DEF Good, Routing
<1>6. /\ r \in [Peers -> D \cup {NoPeer}]
      /\ \A p \in Peers : r[p] # NoPeer => p \in net.in
  BY <1>2, <1>5 DEF Balanced
<1>7. /\ n \in Routing
      /\ n.in = net.in /\ n.out = net.out /\ n.dest = D /\ n.routes = r /\ n.local = NoPeer
  <2>1. m \in Routing BY <1>4 DEF Good, Routing
  <2>2. r \in [Peers -> Peers \cup {NoPeer}] BY <1>4, <1>6 DEF Good, Routing
  <2> HIDE DEF m
  <2> QED BY <1>5, <2>1, <2>2 DEF Routing
<1> HIDE DEF m, n
<1>8. Good(n, conn)
  BY <1>4, <1>6, <1>7 DEF Good, Routing
<1>9. d \in n.dest \cup {NoPeer} BY <1>3, SelectedIsDestination
<1>10. conn' = conn BY DEF DandelionShuffle
<1>11. n.in = net.in BY <1>7
<1> QED BY <1>3, <1>8, <1>9, <1>10, <1>11, LocalReplaced

-----------------------------------------------------------------------------
(* Routes are live.                                                        *)

\* Steps that leave routing data and connections alone.
LEMMA OtherStepsKeepRoutes ==
    ASSUME RoutesInv, UNCHANGED <<net, conn>>,
           msg' = msg \/ msg'.pc # "relay" \/ msg'.from \in net.in
    PROVE  RoutesInv'
BY DEF RoutesInv, Good

LEMMA CheckKeepsRoutes ==
    ASSUME RoutesInv, Check
    PROVE  RoutesInv'
<1>1. CASE CheckBegin BY <1>1, OtherStepsKeepRoutes DEF CheckBegin, routeVars
<1>2. CASE CheckCopy BY <1>2, OtherStepsKeepRoutes DEF CheckCopy, routeVars
<1>3. CASE \E t \in chk.todo : CheckLook(t)
  BY <1>3, OtherStepsKeepRoutes DEF CheckLook, routeVars
<1>4. CASE CheckAccept BY <1>4, OtherStepsKeepRoutes DEF CheckAccept, routeVars
<1>5. CASE CheckRemove BY <1>5, OtherStepsKeepRoutes DEF CheckRemove, routeVars
<1>6. CASE CheckErase BY <1>6, OtherStepsKeepRoutes DEF CheckErase, routeVars
<1>7. CASE \E t \in chk.route : CheckRoute(t)
  <2>1. PICK t \in chk.route : CheckRoute(t) BY <1>7
  <2>2. net' = net \/ \E o \in PushOutcomes(net, Takers(t)) : net' = o.net
    BY <2>1 DEF CheckRoute
  <2>3. conn' = conn /\ msg' = msg BY <2>1 DEF CheckRoute
  <2>4. Good(net', conn') /\ net'.in = net.in
    BY <2>2, <2>3, UseKeepsGood DEF RoutesInv
  <2> QED BY <2>3, <2>4 DEF RoutesInv
<1>8. CASE CheckMark BY <1>8, OtherStepsKeepRoutes DEF CheckMark, routeVars
<1> QED BY <1>1, <1>2, <1>3, <1>4, <1>5, <1>6, <1>7, <1>8 DEF Check

LEMMA CallsKeepRoutes ==
    ASSUME RoutesInv, Wallet \/ Relay \/ \E t \in Txs : BroadcastTransaction(t)
    PROVE  RoutesInv'
<1>1. CASE \E t \in Txs : BroadcastTransaction(t)
  BY <1>1, OtherStepsKeepRoutes DEF BroadcastTransaction, routeVars
<1>2. CASE WalletEmbargo BY <1>2, OtherStepsKeepRoutes DEF WalletEmbargo, routeVars
<1>3. CASE \E relay \in BOOLEAN : WalletPush(relay)
  <2>1. \E o \in PushOutcomes(net, Takers(wal.tx)) : net' = o.net
    BY <1>3 DEF WalletPush
  <2>2. conn' = conn /\ msg' = msg BY <1>3 DEF WalletPush
  <2>3. Good(net', conn') /\ net'.in = net.in
    BY <2>1, <2>2, UseKeepsGood DEF RoutesInv
  <2> QED BY <2>2, <2>3 DEF RoutesInv
<1>4. CASE WalletFallback BY <1>4, OtherStepsKeepRoutes DEF WalletFallback, routeVars
<1>5. CASE RelayFluff BY <1>5, OtherStepsKeepRoutes DEF RelayFluff, IdleMsg, routeVars
<1>6. CASE RelayFluffDies
  <2>1. net' = NoRoutes /\ msg'.pc = "idle" BY <1>6 DEF RelayFluffDies, IdleMsg
  <2>2. conn' \in [Peers -> Life] BY <1>6 DEF RelayFluffDies, Life
  <2>3. Cardinality({}) = 0 BY FS_EmptySet
  <2>4. MaxDestinations \in Nat BY RoutesAssumption
  <2> QED BY <2>1, <2>2, <2>3, <2>4, SMT DEF RoutesInv, Good, NoRoutes, Routing
<1>7. CASE RelayStem
  <2>1. net' \in getDandelionDestination(net, msg.from) /\ msg.from \in net.in
    BY <1>7 DEF RelayStem, RoutesInv
  <2>2. conn' = conn /\ msg'.pc # "relay"
    BY <1>7 DEF RelayStem, IdleMsg
  <2>3. Good(net', conn') /\ net'.in = net.in
    BY <2>1, <2>2, UseKeepsGood DEF RoutesInv
  <2> QED BY <2>1, <2>2, <2>3 DEF RoutesInv
<1>8. CASE RelayPush BY <1>8, OtherStepsKeepRoutes DEF RelayPush, IdleMsg, routeVars
<1> QED BY <1>1, <1>2, <1>3, <1>4, <1>5, <1>6, <1>7, <1>8 DEF Wallet, Relay

LEMMA PeersKeepRoutes ==
    ASSUME RoutesInv,
           \/ Connect \/ MessageLoop \/ Shuffle
           \/ \E p \in Peers : \/ Close(p) \/ Finalize(p) \/ SendMessages(p)
                               \/ \E t \in Txs : DandelionTx(p, t) \/ Inv(p, t)
    PROVE  RoutesInv'
<1>1. CASE Connect
  <2>1. PICK p \in Peers : Accept(p) \/ OpenNetworkConnection(p) \/ Disconnect(p)
    BY <1>1 DEF Connect
  <2>2. Good(net', conn') /\ net.in \subseteq net'.in
    BY <2>1, AcceptKeepsGood, OpenKeepsGood, DisconnectKeepsGood DEF RoutesInv
  <2>3. msg' = msg BY <1>1 DEF Connect, stemVars
  <2> QED BY <2>2, <2>3 DEF RoutesInv
<1>2. CASE MessageLoop
  <2>1. PICK p \in Peers : AddDandelionDestination(p) BY <1>2 DEF MessageLoop
  <2>2. Good(net', conn') /\ net.in \subseteq net'.in
    BY <2>1, AddDestinationKeepsGood DEF RoutesInv
  <2>3. msg' = msg BY <1>2 DEF MessageLoop, stemVars
  <2> QED BY <2>2, <2>3, SMT DEF RoutesInv
<1>3. CASE Shuffle BY <1>3, ShuffleKeepsGood DEF Shuffle, RoutesInv
<1>4. ASSUME NEW p \in Peers, Close(p) PROVE RoutesInv'
  <2>1. /\ Good(net', conn') /\ net.in \ {p} \subseteq net'.in
        /\ msg' = msg /\ p # msg.from
    BY <1>4, CloseKeepsGood DEF Close, RoutesInv
  <2> QED BY <2>1 DEF RoutesInv
<1>5. ASSUME NEW p \in Peers, Finalize(p) PROVE RoutesInv'
  BY <1>5, DeleteKeepsGood DEF Finalize, RoutesInv
<1>6. ASSUME NEW p \in Peers, SendMessages(p) PROVE RoutesInv'
  BY <1>6, OtherStepsKeepRoutes DEF SendMessages, routeVars
<1>7. ASSUME NEW p \in Peers, NEW t \in Txs, DandelionTx(p, t) PROVE RoutesInv'
  BY <1>7, OtherStepsKeepRoutes DEF DandelionTx, routeVars
<1>8. ASSUME NEW p \in Peers, NEW t \in Txs, Inv(p, t) PROVE RoutesInv'
  BY <1>8, OtherStepsKeepRoutes DEF Inv, routeVars
<1> QED BY <1>1, <1>2, <1>3, <1>4, <1>5, <1>6, <1>7, <1>8

\* No pointer in the routing data is to a closed peer, whatever the threads do:
\* CloseDandelionConnections takes a peer out of everything, and no thread puts
\* one back that it does not serve.
THEOREM RoutesStayLive == Spec => []RoutesAreLive
<1>1. Init => RoutesInv
  <2>1. Cardinality({}) = 0 BY FS_EmptySet
  <2>2. MaxDestinations \in Nat BY RoutesAssumption
  <2> QED BY <2>1, <2>2, SMT
          DEF Init, RoutesInit, StemInit, RoutesInv, Good, NoRoutes, Routing, Life, IdleMsg
<1>2. RoutesInv /\ [Next]_vars => RoutesInv'
  <2> SUFFICES ASSUME RoutesInv, [Next]_vars PROVE RoutesInv' OBVIOUS
  <2>1. CASE Next
    <3>1. CASE \E t \in Txs : Expire(t) \/ Arrive(t) \/ Evict(t) \/ ConnectTip(t)
      BY <3>1, OtherStepsKeepRoutes DEF Expire, Arrive, Evict, ConnectTip, routeVars
    <3> QED BY <2>1, <3>1, CheckKeepsRoutes, CallsKeepRoutes, PeersKeepRoutes DEF Next
  <2>2. CASE UNCHANGED vars
    BY <2>2, OtherStepsKeepRoutes DEF vars, routeVars, stemVars
  <2> QED BY <2>1, <2>2
<1>3. RoutesInv => RoutesAreLive BY DEF RoutesInv, Good, RoutesAreLive
<1> QED BY <1>1, <1>2, <1>3, PTL DEF Spec

-----------------------------------------------------------------------------
(* Stem transactions are kept.                                             *)

Places == [stem : SUBSET Txs, mem : SUBSET Txs, chain : SUBSET Txs]

\* The scheduler's state c has its fields and holds copies of embargoes.
IsCheck(c) ==
    /\ c = [pc |-> c.pc, has |-> c.has, todo |-> c.todo, done |-> c.done,
            route |-> c.route, tx |-> c.tx]
    /\ \A x \in c.todo : x.tx \in Txs

StemTypeOK ==
    /\ pools \in Places
    /\ embargo \in [Txs -> {"none", "running", "over"}]
    /\ fate \in [Txs -> {"none", "stem", "settled"}]
    /\ IsCheck(chk)
    /\ chk.pc \in {"accept", "remove"} => chk.tx \in Txs
    /\ chk.pc = "copy" => chk.done = {}
    /\ wal = [pc |-> wal.pc, tx |-> wal.tx, inMempool |-> wal.inMempool]
    /\ wal.pc # "idle" => wal.tx \in Txs
    /\ msg.pc # "idle" => msg.tx \in Txs

\* The broadcast of t has submitted it and is about to set its embargo.
AboutToEmbargo(t) == wal.pc = "embargo" /\ wal.tx = t

\* What the scheduler has finished with, and will erase the embargo of, is
\* settled, unless it is about to be offered to the mempool or was accepted
\* again: then its embargo was renewed or is about to be.
FinishedIsSettled ==
    \A t \in Txs :
        (chk.pc \in {"look", "accept", "remove"} /\ t \in chk.done /\ t \notin renewed)
            => \/ fate[t] # "stem"
               \/ chk.pc = "accept" /\ chk.tx = t
               \/ AboutToEmbargo(t)

MempoolIsSettled == \A t \in pools.mem : fate[t] # "stem"

StemInv ==
    /\ StemTypeOK /\ FinishedIsSettled /\ MempoolIsSettled
    /\ StemTransactionKept /\ OpenFateIsEmbargoed

\* Transactions that do not spend one another are removed alone.
LEMMA FamilyAlone ==
    ASSUME Spends = {}, NEW t
    PROVE  Family(t) = {t}
BY DEF Family

\* Steps that change nothing the invariant speaks of.
LEMMA OtherStepsKeepStem ==
    ASSUME StemInv, UNCHANGED <<pools, embargo, renewed, chk, wal, fate>>,
           msg' = msg \/ msg'.pc = "idle" \/ (msg'.tx = msg.tx /\ msg.pc # "idle")
    PROVE  StemInv'
BY DEF StemInv, StemTypeOK, FinishedIsSettled, MempoolIsSettled, StemTransactionKept,
       OpenFateIsEmbargoed, AboutToEmbargo

\* The scheduler works on a copy of the embargoes.
LEMMA CheckKeepsStem ==
    ASSUME Spends = {}, StemInv, Check
    PROVE  StemInv'
<1> USE DEF StemInv, StemTypeOK, FinishedIsSettled, MempoolIsSettled, StemTransactionKept,
        OpenFateIsEmbargoed, AboutToEmbargo
<1>1. CASE CheckBegin
  <2>1. IsCheck(chk') /\ chk'.pc = "copy" /\ chk'.done = {}
    BY <1>1 DEF CheckBegin, IdleCheck, IsCheck
  <2> QED BY <1>1, <2>1 DEF CheckBegin
<1>2. CASE CheckCopy
  <2>1. IsCheck(chk') /\ chk'.pc \in {"idle", "look"} /\ chk'.done = {}
    <3> DEFINE copies ==
            {[tx |-> t, expired |-> embargo[t] = "over", routed |-> t \in routed] :
                t \in {u \in Txs : embargo[u] # "none"}}
    <3>1. \A x \in copies : x.tx \in Txs BY SMT
    <3>2. /\ chk.pc = "copy"
          /\ chk' = IF copies = {} THEN IdleCheck
                    ELSE [chk EXCEPT !.pc = "look", !.todo = copies]
      BY <1>2 DEF CheckCopy
    <3> HIDE DEF copies
    <3>3. CASE copies = {} BY <3>2, <3>3 DEF IdleCheck, IsCheck
    <3>4. CASE copies # {} BY <3>1, <3>2, <3>4 DEF IsCheck
    <3> QED BY <3>3, <3>4
  <2> QED BY <1>2, <2>1 DEF CheckCopy
<1>3. CASE \E x \in chk.todo : CheckLook(x)
  <2>1. PICK x \in chk.todo : CheckLook(x) BY <1>3
  <2>2. x.tx \in Txs /\ chk.pc = "look" BY <2>1 DEF IsCheck, CheckLook
  <2>3. UNCHANGED <<pools, embargo, renewed, wal, msg, fate>> BY <2>1 DEF CheckLook
  <2>4. /\ IsCheck(chk')
        /\ \/ chk'.pc = "look" /\ chk'.done = chk.done
           \/ /\ chk'.pc = "look" /\ chk'.done = chk.done \cup {x.tx}
              /\ x.tx \in pools.mem \/ x.tx \notin pools.stem
           \/ chk'.pc = "accept" /\ chk'.done = chk.done \cup {x.tx} /\ chk'.tx = x.tx
    BY <2>1, <2>2 DEF CheckLook, IsCheck
  <2> QED BY <2>2, <2>3, <2>4
<1>4. CASE CheckAccept
  <2>1. PICK r \in AfterMempool(chk.tx) : pools' = r.pools /\ Settle(Decided(chk.tx, r.ok))
    BY <1>4 DEF CheckAccept
  <2>2. chk.tx \in Txs /\ chk.pc = "accept" BY <1>4 DEF CheckAccept
  <2>3. Decided(chk.tx, r.ok) = {chk.tx} BY FamilyAlone DEF Decided
  <2>4. /\ pools' \in Places /\ pools'.stem = pools.stem
        /\ pools'.mem \subseteq pools.mem \cup {chk.tx}
    BY <2>1, <2>2, SMT DEF AfterMempool, Places
  <2>5. fate' = [t \in Txs |-> IF t = chk.tx THEN "settled" ELSE fate[t]]
    BY <2>1, <2>3 DEF Settle
  <2>6. IsCheck(chk') /\ chk'.pc = "remove" /\ chk'.done = chk.done /\ chk'.tx = chk.tx
    BY <1>4 DEF CheckAccept, IsCheck
  <2>7. UNCHANGED <<embargo, renewed, wal, msg>> BY <1>4 DEF CheckAccept
  <2>8. StemTypeOK' BY <2>2, <2>4, <2>5, <2>6, <2>7
  <2>9. FinishedIsSettled' BY <2>2, <2>5, <2>6, <2>7
  <2>10. (MempoolIsSettled /\ StemTransactionKept /\ OpenFateIsEmbargoed)'
    BY <2>2, <2>4, <2>5, <2>7 DEF Places
  <2> QED BY <2>8, <2>9, <2>10
<1>5. CASE CheckRemove
  <2>1. chk.tx \in Txs /\ chk.pc = "remove" BY <1>5 DEF CheckRemove
  <2>2. pools' \in Places /\ pools'.stem = pools.stem \ {chk.tx} /\ pools'.mem = pools.mem
    BY <1>5, FamilyAlone DEF CheckRemove, Places
  <2>3. fate' = [t \in Txs |-> IF t = chk.tx THEN "settled" ELSE fate[t]]
    BY <1>5 DEF CheckRemove, Settle
  <2>4. IsCheck(chk') /\ chk'.pc = "look" /\ chk'.done = chk.done
    BY <1>5 DEF CheckRemove, IsCheck
  <2>5. UNCHANGED <<embargo, renewed, wal, msg>> BY <1>5 DEF CheckRemove
  <2>6. StemTypeOK' BY <2>1, <2>2, <2>3, <2>4, <2>5
  <2>7. FinishedIsSettled' BY <2>1, <2>3, <2>4, <2>5
  <2>8. (MempoolIsSettled /\ StemTransactionKept /\ OpenFateIsEmbargoed)'
    BY <2>1, <2>2, <2>3, <2>5 DEF Places
  <2> QED BY <2>6, <2>7, <2>8
<1>6. CASE CheckErase
  <2>1. IsCheck(chk') /\ chk'.pc \in {"idle", "route"}
    BY <1>6 DEF CheckErase, IdleCheck, IsCheck
  <2>2. embargo' = [t \in Txs |-> IF t \in chk.done \ renewed THEN "none" ELSE embargo[t]]
    BY <1>6 DEF CheckErase, Erased
  <2>3. UNCHANGED <<pools, wal, msg, fate>> /\ chk.pc = "look" BY <1>6 DEF CheckErase
  <2> QED BY <2>1, <2>2, <2>3
<1>7. CASE \E t \in chk.route : CheckRoute(t)
  <2>1. PICK t \in chk.route : CheckRoute(t) BY <1>7
  <2>2. UNCHANGED <<pools, embargo, renewed, wal, msg, fate>> BY <2>1 DEF CheckRoute
  <2> DEFINE rest == [chk EXCEPT !.route = @ \ {t}]
  <2>3. /\ chk.pc = "route"
        /\ chk' \in {IdleCheck, rest, [rest EXCEPT !.pc = "mark", !.tx = t]}
    BY <2>1 DEF CheckRoute
  <2>4. IsCheck(chk') /\ chk'.pc \in {"idle", "route", "mark"}
    <3>1. CASE chk' = IdleCheck BY <3>1 DEF IdleCheck, IsCheck
    <3>2. CASE chk' = rest BY <3>2, <2>3 DEF IsCheck
    <3>3. CASE chk' = [rest EXCEPT !.pc = "mark", !.tx = t] BY <3>3 DEF IsCheck
    <3> QED BY <2>3, <3>1, <3>2, <3>3
  <2> QED BY <2>2, <2>4
<1>8. CASE CheckMark
  <2>1. UNCHANGED <<pools, embargo, renewed, wal, msg, fate>> BY <1>8 DEF CheckMark
  <2>2. IsCheck(chk') /\ chk'.pc \in {"idle", "route"}
    BY <1>8 DEF CheckMark, IdleCheck, IsCheck
  <2> QED BY <2>1, <2>2
<1> QED BY <1>1, <1>2, <1>3, <1>4, <1>5, <1>6, <1>7, <1>8 DEF Check

\* BroadcastTransaction, from its submission on.
LEMMA WalletKeepsStem ==
    ASSUME Spends = {}, StemInv,
           Wallet \/ \E t \in Txs : BroadcastTransaction(t)
    PROVE  StemInv'
<1> USE DEF StemInv, StemTypeOK, FinishedIsSettled, MempoolIsSettled, StemTransactionKept,
        OpenFateIsEmbargoed, AboutToEmbargo
<1>1. CASE \E t \in Txs : BroadcastTransaction(t)
  <2>1. PICK t \in Txs : BroadcastTransaction(t) BY <1>1
  <2>2. wal.pc = "idle" /\ UNCHANGED <<embargo, renewed, chk, msg>>
    BY <2>1 DEF BroadcastTransaction
  <2>3. /\ wal' = [pc |-> wal'.pc, tx |-> wal'.tx, inMempool |-> wal'.inMempool]
        /\ wal'.pc = "embargo" /\ wal'.tx = t
    BY <2>1, SMT DEF BroadcastTransaction
  <2>4. \/ UNCHANGED <<pools, fate>>
        \/ t \notin pools.mem /\ Admit(t)
        \/ Settle({t}) /\ pools' = [pools EXCEPT !.mem = @ \cup {t}]
    BY <2>1 DEF BroadcastTransaction
  <2>5. CASE UNCHANGED <<pools, fate>> BY <2>2, <2>3, <2>5
  <2>6. CASE t \notin pools.mem /\ Admit(t)
    <3>1. /\ pools' \in Places /\ pools'.stem = pools.stem \cup {t} /\ pools'.mem = pools.mem
          /\ fate' = [fate EXCEPT ![t] = "stem"]
      BY <2>6 DEF Admit, Places
    <3>2. StemTypeOK' BY <2>2, <2>3, <3>1
    <3>3. (FinishedIsSettled /\ OpenFateIsEmbargoed)' BY <2>2, <2>3, <3>1
    <3>4. (MempoolIsSettled /\ StemTransactionKept)' BY <2>6, <3>1 DEF Places
    <3> QED BY <3>2, <3>3, <3>4
  <2>7. CASE Settle({t}) /\ pools' = [pools EXCEPT !.mem = @ \cup {t}]
    <3>1. /\ pools' \in Places /\ pools'.stem = pools.stem /\ pools'.mem = pools.mem \cup {t}
          /\ fate' = [u \in Txs |-> IF u = t THEN "settled" ELSE fate[u]]
      BY <2>7 DEF Settle, Places
    <3>2. StemTypeOK' BY <2>2, <2>3, <3>1
    <3>3. (FinishedIsSettled /\ OpenFateIsEmbargoed)' BY <2>2, <2>3, <3>1
    <3>4. (MempoolIsSettled /\ StemTransactionKept)' BY <3>1 DEF Places
    <3> QED BY <3>2, <3>3, <3>4, SMT
  <2> QED BY <2>4, <2>5, <2>6, <2>7
<1>2. CASE WalletEmbargo
  <2>1. UNCHANGED <<pools, chk, msg, fate>> /\ wal.tx \in Txs BY <1>2 DEF WalletEmbargo
  <2>2. /\ wal' = [pc |-> wal'.pc, tx |-> wal'.tx, inMempool |-> wal'.inMempool]
        /\ wal'.pc = "push" /\ wal'.tx = wal.tx
    BY <1>2 DEF WalletEmbargo
  <2>3. /\ embargo' = [embargo EXCEPT ![wal.tx] = "running"]
        /\ chk.pc \in {"look", "accept", "remove"} => renewed' = renewed \cup {wal.tx}
    BY <1>2 DEF WalletEmbargo, InsertEmbargo
  <2> QED BY <2>1, <2>2, <2>3
<1>3. CASE \E relay \in BOOLEAN : WalletPush(relay)
  <2>1. UNCHANGED <<pools, embargo, renewed, chk, msg, fate>> /\ wal.pc = "push"
    BY <1>3 DEF WalletPush
  <2>2. wal' \in {[wal EXCEPT !.pc = "fallback"], IdleWallet} BY <1>3 DEF WalletPush
  <2>3. /\ wal' = [pc |-> wal'.pc, tx |-> wal'.tx, inMempool |-> wal'.inMempool]
        /\ wal'.pc = "idle" \/ (wal'.pc = "fallback" /\ wal'.tx = wal.tx)
    <3>1. CASE wal' = IdleWallet BY <3>1 DEF IdleWallet
    <3>2. CASE wal' = [wal EXCEPT !.pc = "fallback"] BY <3>2
    <3> QED BY <2>2, <3>1, <3>2
  <2> QED BY <2>1, <2>3
<1>4. CASE WalletFallback
  <2>1. PICK r \in AfterMempool(wal.tx) :
            /\ pools' = [r.pools EXCEPT !.stem = @ \ Family(wal.tx)]
            /\ Settle(Decided(wal.tx, r.ok))
    BY <1>4 DEF WalletFallback
  <2>2. /\ wal.tx \in Txs /\ wal.pc = "fallback" /\ wal' = IdleWallet
        /\ UNCHANGED <<embargo, renewed, chk, msg>>
    BY <1>4 DEF WalletFallback
  <2>3. Decided(wal.tx, r.ok) = {wal.tx} BY FamilyAlone DEF Decided
  <2>4. /\ pools' \in Places /\ pools'.stem = pools.stem \ {wal.tx}
        /\ pools'.mem \subseteq pools.mem \cup {wal.tx}
    <3>1. /\ r.pools \in Places /\ r.pools.stem = pools.stem
          /\ r.pools.mem \subseteq pools.mem \cup {wal.tx}
      BY <2>1, <2>2, SMT DEF AfterMempool, Places
    <3>2. pools' = [r.pools EXCEPT !.stem = @ \ {wal.tx}] BY <2>1, FamilyAlone
    <3> QED BY <3>1, <3>2 DEF Places
  <2>5. fate' = [t \in Txs |-> IF t = wal.tx THEN "settled" ELSE fate[t]]
    BY <2>1, <2>3 DEF Settle
  <2>6. StemTypeOK' BY <2>2, <2>4, <2>5 DEF IdleWallet
  <2>7. (FinishedIsSettled /\ OpenFateIsEmbargoed)' BY <2>2, <2>5
  <2>8. (MempoolIsSettled /\ StemTransactionKept)' BY <2>2, <2>4, <2>5 DEF Places
  <2> QED BY <2>6, <2>7, <2>8
<1> QED BY <1>1, <1>2, <1>3, <1>4 DEF Wallet

\* The message thread.
LEMMA MessagesKeepStem ==
    ASSUME Spends = {}, StemInv,
           Relay \/ \E p \in Peers, t \in Txs : DandelionTx(p, t)
    PROVE  StemInv'
<1> USE DEF StemInv, StemTypeOK, FinishedIsSettled, MempoolIsSettled, StemTransactionKept,
        OpenFateIsEmbargoed, AboutToEmbargo
<1>1. CASE \E p \in Peers, t \in Txs : DandelionTx(p, t)
  <2>1. PICK p \in Peers, t \in Txs : DandelionTx(p, t) BY <1>1
  <2>2. UNCHANGED <<chk, wal>> /\ msg'.tx = t BY <2>1 DEF DandelionTx
  <2>3. \/ UNCHANGED <<pools, fate, embargo, renewed>>
        \/ Admit(t) /\ InsertEmbargo(t)
    BY <2>1 DEF DandelionTx
  <2>4. CASE UNCHANGED <<pools, fate, embargo, renewed>> BY <2>2, <2>4
  <2>5. CASE Admit(t) /\ InsertEmbargo(t)
    <3>1. /\ pools' \in Places /\ pools'.stem = pools.stem \cup {t} /\ pools'.mem = pools.mem
          /\ fate' = [fate EXCEPT ![t] = IF t \in pools.mem THEN "settled" ELSE "stem"]
      BY <2>5 DEF Admit, Places
    <3>2. /\ embargo' = [embargo EXCEPT ![t] = "running"]
          /\ chk.pc \in {"look", "accept", "remove"} => renewed' = renewed \cup {t}
      BY <2>5 DEF InsertEmbargo
    <3>3. StemTypeOK' BY <2>2, <3>1, <3>2
    <3>4. (FinishedIsSettled /\ OpenFateIsEmbargoed)' BY <2>2, <3>1, <3>2
    <3>5. (MempoolIsSettled /\ StemTransactionKept)' BY <3>1 DEF Places
    <3> QED BY <3>3, <3>4, <3>5
  <2> QED BY <2>3, <2>4, <2>5
<1>2. CASE RelayFluff
  <2>1. PICK r \in AfterMempool(msg.tx) :
            /\ pools' = r.pools
            /\ IF r.ok THEN Settle({msg.tx}) ELSE UNCHANGED fate
    BY <1>2 DEF RelayFluff
  <2>2. msg.tx \in Txs /\ msg'.pc = "idle" /\ UNCHANGED <<embargo, renewed, chk, wal>>
    BY <1>2 DEF RelayFluff, IdleMsg
  <2>3. \/ UNCHANGED <<pools, fate>>
        \/ /\ pools' = [pools EXCEPT !.mem = @ \cup {msg.tx}]
           /\ fate' = [t \in Txs |-> IF t = msg.tx THEN "settled" ELSE fate[t]]
    BY <2>1, SMT DEF AfterMempool, Settle
  <2>4. CASE UNCHANGED <<pools, fate>> BY <2>2, <2>4
  <2>5. CASE /\ pools' = [pools EXCEPT !.mem = @ \cup {msg.tx}]
             /\ fate' = [t \in Txs |-> IF t = msg.tx THEN "settled" ELSE fate[t]]
    <3>1. pools' \in Places /\ pools'.stem = pools.stem /\ pools'.mem = pools.mem \cup {msg.tx}
      BY <2>2, <2>5 DEF Places
    <3>2. StemTypeOK' BY <2>2, <2>5, <3>1
    <3>3. (FinishedIsSettled /\ OpenFateIsEmbargoed)' BY <2>2, <2>5
    <3>4. (MempoolIsSettled /\ StemTransactionKept)' BY <2>2, <2>5, <3>1 DEF Places
    <3> QED BY <3>2, <3>3, <3>4
  <2> QED BY <2>3, <2>4, <2>5
<1>3. CASE RelayFluffDies
  <2>1. /\ pools' \in Places /\ pools'.stem = {} /\ pools'.mem = {}
        /\ embargo' = [t \in Txs |-> "none"] /\ fate' = [t \in Txs |-> "none"]
        /\ chk' = IdleCheck /\ wal' = IdleWallet /\ msg' = IdleMsg
    BY <1>3 DEF RelayFluffDies, Places
  <2> QED BY <2>1 DEF IdleCheck, IsCheck, IdleWallet, IdleMsg
<1>4. CASE RelayStem \/ RelayPush
  BY <1>4, OtherStepsKeepStem, SMT DEF RelayStem, RelayPush, IdleMsg
<1> QED BY <1>1, <1>2, <1>3, <1>4 DEF Relay

\* The mempool, the chain and the clock.
LEMMA PoolsKeepStem ==
    ASSUME Spends = {}, StemInv, NEW t \in Txs,
           Expire(t) \/ Arrive(t) \/ Evict(t) \/ ConnectTip(t)
    PROVE  StemInv'
<1> USE DEF StemInv, StemTypeOK, FinishedIsSettled, MempoolIsSettled, StemTransactionKept,
        OpenFateIsEmbargoed, AboutToEmbargo
<1>1. CASE Expire(t) BY <1>1 DEF Expire
<1>2. CASE Evict(t)
  <2>1. pools' \in Places /\ pools'.stem = pools.stem /\ pools'.mem \subseteq pools.mem
    BY <1>2 DEF Evict, Places
  <2> QED BY <1>2, <2>1 DEF Evict
<1>3. CASE Arrive(t) \/ ConnectTip(t)
  <2>1. /\ pools' \in Places /\ pools.stem \ {t} \subseteq pools'.stem
        /\ pools'.mem \subseteq pools.mem \cup {t}
        /\ fate' = [u \in Txs |-> IF u = t THEN "settled" ELSE fate[u]]
    BY <1>3, SMT DEF Arrive, ConnectTip, Settle, Places
  <2>2. UNCHANGED <<embargo, renewed, chk, wal, msg>> BY <1>3 DEF Arrive, ConnectTip
  <2>3. StemTypeOK' BY <2>1, <2>2
  <2>4. (FinishedIsSettled /\ OpenFateIsEmbargoed)' BY <2>1, <2>2
  <2>5. (MempoolIsSettled /\ StemTransactionKept)' BY <2>1 DEF Places
  <2> QED BY <2>3, <2>4, <2>5
<1> QED BY <1>1, <1>2, <1>3

\* A stem transaction whose fate is open is in the stempool and embargoed
\* (StemTransactionKept, OpenFateIsEmbargoed), whatever the peers, destinations
\* and threads do, when no transaction spends another.
THEOREM StemTransactionsStay ==
    ASSUME Spends = {}
    PROVE  Spec => [](StemTransactionKept /\ OpenFateIsEmbargoed)
<1>1. Init => StemInv
  BY SMT DEF Init, StemInit, StemInv, StemTypeOK, FinishedIsSettled, MempoolIsSettled, Places,
         StemTransactionKept, OpenFateIsEmbargoed, IdleCheck, IsCheck, IdleWallet, IdleMsg
<1>2. StemInv /\ [Next]_vars => StemInv'
  <2> SUFFICES ASSUME StemInv, [Next]_vars PROVE StemInv' OBVIOUS
  <2>1. CASE Connect \/ MessageLoop \/ Shuffle
    <3>1. UNCHANGED <<pools, embargo, renewed, chk, wal, fate>> /\ msg' = msg
      BY <2>1 DEF Connect, MessageLoop, Shuffle, stemVars
    <3> QED BY <3>1, OtherStepsKeepStem
  <2>2. ASSUME NEW p \in Peers,
               Close(p) \/ Finalize(p) \/ SendMessages(p) \/ \E t \in Txs : Inv(p, t)
        PROVE  StemInv'
    <3>1. UNCHANGED <<pools, embargo, renewed, chk, wal, fate>> /\ msg' = msg
      BY <2>2 DEF Close, Finalize, SendMessages, Inv
    <3> QED BY <3>1, OtherStepsKeepStem
  <2>3. CASE UNCHANGED vars
    <3>1. UNCHANGED <<pools, embargo, renewed, chk, wal, fate>> /\ msg' = msg
      BY <2>3 DEF vars, stemVars
    <3> QED BY <3>1, OtherStepsKeepStem, SMT
  <2> QED BY <2>1, <2>2, <2>3, CheckKeepsStem, WalletKeepsStem, MessagesKeepStem, PoolsKeepStem
          DEF Next
<1>3. StemInv => StemTransactionKept /\ OpenFateIsEmbargoed BY DEF StemInv
<1> QED BY <1>1, <1>2, <1>3, PTL DEF Spec

\* So no step of a thread takes an open stem transaction out of the stempool
\* ("will remain embargoed and will be broadcast when embargo expires").
THEOREM StemTransactionsAreKept ==
    ASSUME Spends = {}
    PROVE  Spec => []StemTransactionKept
<1>1. Spec => [](StemTransactionKept /\ OpenFateIsEmbargoed) BY StemTransactionsStay
<1> QED BY <1>1, PTL
=============================================================================
