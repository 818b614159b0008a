----------------------------- MODULE Dandelion -----------------------------
(***************************************************************************)
(* Stem transactions of one node: the stempool, the embargoes that turn a  *)
(* stem transaction into an ordinary one, and the threads that work on     *)
(* them (src/src/net_processing.cpp, src/src/node/transaction.cpp), over   *)
(* the routing data of DandelionRoutes.                                    *)
(*                                                                         *)
(* Threads: the scheduler (CheckDandelionEmbargoes, chk), the wallet or an *)
(* RPC (BroadcastTransaction, wal), the message thread (DANDELIONTX, msg)  *)
(* and the connection and shuffle threads.  A step is what a thread does   *)
(* between two acquisitions of a lock; msg holds cs_main until its handler *)
(* returns.                                                                *)
(***************************************************************************)
EXTENDS DandelionRoutes

CONSTANTS
    Txs, NoTx,
    Spends,       \* <<c, p>>: transaction c spends an output of p
    Relaying,     \* peers with a TxRelay
    MaxInputs     \* bound: stem transactions from peers and broadcasts

ASSUME StemAssumption ==
    /\ NoTx \notin Txs
    /\ Spends \subseteq Txs \X Txs
    /\ Relaying \subseteq Peers
    /\ MaxInputs \in Nat

VARIABLES
    pools,    \* stem, mem, chain: where transactions are
    embargo,  \* mDandelionEmbargo: the expiry is in the future or in the past
    renewed,  \* embargoes whose expiry differs from the copy the scheduler holds
    routed,   \* m_dandelion_stem_routed
    queue,    \* vInventoryDandelionTxToSend of each peer
    known,    \* m_dandelion_inventory_known and m_tx_inventory_known_filter
    chk, wal, msg,  \* the threads
    inputs,
    fate      \* history: "stem" from the stempool's acceptance until the
              \* mempool, a block or the mempool's refusal settles it

stemVars == <<pools, embargo, renewed, routed, queue, known, chk, wal, msg, inputs, fate>>
vars == <<routeVars, stemVars>>

\* A copy of one embargo, with the stem-routed flag (EmbargoSnapshot).
Snapshot == [tx : Txs, expired : BOOLEAN, routed : BOOLEAN]

IdleCheck == [pc |-> "idle", has |-> FALSE, todo |-> {}, done |-> {},
              route |-> {}, tx |-> NoTx]
IdleWallet == [pc |-> "idle", tx |-> NoTx, inMempool |-> FALSE]
IdleMsg == [pc |-> "idle", tx |-> NoTx, from |-> NoPeer, to |-> NoPeer]

StemInit ==
    /\ pools = [stem |-> {}, mem |-> {}, chain |-> {}]
    /\ embargo = [t \in Txs |-> "none"]
    /\ renewed = {}
    /\ routed = {}
    /\ queue = [p \in Peers |-> {}]
    /\ known = [p \in Peers |-> {}]
    /\ chk = IdleCheck /\ wal = IdleWallet /\ msg = IdleMsg
    /\ fate = [t \in Txs |-> "none"]

Init == RoutesInit /\ StemInit /\ inputs = 0

-----------------------------------------------------------------------------
(* Pools.                                                                  *)

CsMainFree == msg.pc = "idle"

\* removeRecursive takes the transaction and everything that spends it.
Family(t) == {t} \cup {c \in Txs : <<c, t>> \in Spends}
Has(t, S) == \A p \in Txs : <<t, p>> \in Spends => p \in S

\* The pools after AcceptToMemoryPool: accepted or refused.
MempoolAccepts(t) == t \notin pools.mem \cup pools.chain /\ Has(t, pools.mem \cup pools.chain)
AfterMempool(t) ==
    {[pools |-> pools, ok |-> FALSE]} \cup
    (IF MempoolAccepts(t)
     THEN {[pools |-> [pools EXCEPT !.mem = @ \cup {t}], ok |-> TRUE]} ELSE {})

\* AcceptToMemoryPoolForStempool looks for the inputs among coins and stempool
\* when it validates, and does not ask whether the mempool has the transaction.
StempoolAccepts(t) ==
    t \notin pools.stem \cup pools.chain /\ Has(t, pools.stem \cup pools.chain)

Settle(S) == fate' = [t \in Txs |-> IF t \in S THEN "settled" ELSE fate[t]]

\* What the mempool's answer settles: a refusal is one for the descendants too.
Decided(t, ok) == IF ok THEN {t} ELSE Family(t)
Admit(t) ==
    /\ pools' = [pools EXCEPT !.stem = @ \cup {t}]
    /\ fate' = [fate EXCEPT ![t] = IF t \in pools.mem THEN "settled" ELSE "stem"]

\* insertDandelionEmbargo: a new embargo, or a new expiry for an old one.  The
\* expiry is a random number of microseconds: no two are equal.
InsertEmbargo(t) ==
    /\ embargo' = [embargo EXCEPT ![t] = "running"]
    /\ renewed' = IF chk.pc \in {"look", "accept", "remove"} THEN renewed \cup {t} ELSE {}

\* PushDandelionInventory: whether the peer takes the hash.
Takes(p, t) == InPeerMap(p) /\ p \in Relaying /\ t \notin known[p]
Takers(t) == {p \in Peers : Takes(p, t)}
Enqueue(q, p, t) == IF p = NoPeer THEN q ELSE [q EXCEPT ![p] = @ \cup {t}]

-----------------------------------------------------------------------------
(* The scheduler: CheckDandelionEmbargoes, once a second.                  *)

\* Phase 0: usingDandelion.
CheckBegin ==
    /\ chk.pc = "idle"
    /\ chk' = [IdleCheck EXCEPT !.pc = "copy", !.has = net.dest # {}]
    /\ UNCHANGED <<routeVars, pools, embargo, renewed, routed, queue, known, wal, msg, inputs, fate>>

\* Mutant: without destinations there is nothing to do.
CheckCopy_NoDestinations ==
    LET copies == {[tx |-> t, expired |-> embargo[t] = "over", routed |-> t \in routed] :
                      t \in {u \in Txs : embargo[u] # "none"}}
    IN  /\ chk.pc = "copy"
        /\ chk' = IF copies = {} \/ ~ chk.has THEN IdleCheck
                  ELSE [chk EXCEPT !.pc = "look", !.todo = copies]
        /\ UNCHANGED <<routeVars, pools, embargo, renewed, routed, queue, known, wal, msg, inputs,
                       fate>>

\* Phase 1: the map is copied under the embargo lock.
CheckCopy ==
    LET copies == {[tx |-> t, expired |-> embargo[t] = "over", routed |-> t \in routed] :
                      t \in {u \in Txs : embargo[u] # "none"}}
    IN  /\ chk.pc = "copy"
        /\ chk' = IF copies = {} THEN IdleCheck
                  ELSE [chk EXCEPT !.pc = "look", !.todo = copies]
        /\ UNCHANGED <<routeVars, pools, embargo, renewed, routed, queue, known, wal, msg, inputs,
                       fate>>

\* Phase 2, for each copy: in the mempool; not expired; expired.
CheckLook(s) ==
    LET rest == [chk EXCEPT !.todo = @ \ {s}]
        over == [rest EXCEPT !.done = @ \cup {s.tx}]
        needsRoute == chk.has /\ ~ s.routed /\ s.tx \in pools.stem
    IN  /\ chk.pc = "look" /\ s \in chk.todo
        /\ chk' = IF s.tx \in pools.mem THEN over
                  ELSE IF ~ s.expired
                  THEN [rest EXCEPT !.route = IF needsRoute THEN @ \cup {s.tx} ELSE @]
                  ELSE IF s.tx \notin pools.stem THEN over
                  ELSE [over EXCEPT !.pc = "accept", !.tx = s.tx]
        /\ UNCHANGED <<routeVars, pools, embargo, renewed, routed, queue, known, wal, msg, inputs,
                       fate>>

\* ... an expired one is offered to the mempool under cs_main ...
CheckAccept ==
    /\ chk.pc = "accept" /\ CsMainFree
    /\ \E r \in AfterMempool(chk.tx) : pools' = r.pools /\ Settle(Decided(chk.tx, r.ok))
    /\ chk' = [chk EXCEPT !.pc = "remove"]
    /\ UNCHANGED <<routeVars, embargo, renewed, routed, queue, known, wal, msg, inputs>>

\* ... and then removed from the stempool, without cs_main: even if it has been
\* submitted again since.
CheckRemove ==
    /\ chk.pc = "remove"
    /\ pools' = [pools EXCEPT !.stem = @ \ Family(chk.tx)]
    /\ Settle({chk.tx})
    /\ chk' = [chk EXCEPT !.pc = "look", !.tx = NoTx]
    /\ UNCHANGED <<routeVars, embargo, renewed, routed, queue, known, wal, msg, inputs>>

\* Mutant: the embargo is erased even if it was renewed meanwhile.
Erased_Renewed(done) == [t \in Txs |-> IF t \in done THEN "none" ELSE embargo[t]]

\* The embargo map without the finished entries, where the expiry is still the
\* one that was copied.
Erased(done) == [t \in Txs |-> IF t \in done \ renewed THEN "none" ELSE embargo[t]]

\* Phase 3, under the embargo lock.
CheckErase ==
    /\ chk.pc = "look" /\ chk.todo = {}
    /\ routed' = routed \ chk.done
    /\ embargo' = Erased(chk.done) /\ renewed' = {}
    /\ chk' = IF chk.route = {} THEN IdleCheck ELSE [chk EXCEPT !.pc = "route", !.done = {}]
    /\ UNCHANGED <<routeVars, pools, queue, known, wal, msg, inputs, fate>>

\* Phase 4, for each transaction that is still in the stempool: push it to the
\* local destination ...
CheckRoute(t) ==
    LET rest == [chk EXCEPT !.route = @ \ {t}]
        next == IF rest.route = {} THEN IdleCheck ELSE rest
    IN  /\ chk.pc = "route" /\ t \in chk.route
        /\ IF t \notin pools.stem
           THEN chk' = next /\ UNCHANGED <<net, queue>>
           ELSE \E o \in PushOutcomes(net, Takers(t)) :
                  /\ net' = o.net
                  /\ queue' = Enqueue(queue, o.to, t)
                  /\ chk' = IF o.to = NoPeer THEN next
                            ELSE [rest EXCEPT !.pc = "mark", !.tx = t]
        /\ UNCHANGED <<conn, shuffles, pools, embargo, renewed, routed, known, wal, msg,
                       inputs, fate>>

\* ... and mark it as routed, under the embargo lock again.
CheckMark ==
    /\ chk.pc = "mark"
    /\ routed' = routed \cup {chk.tx}
    /\ chk' = IF chk.route = {} THEN IdleCheck ELSE [chk EXCEPT !.pc = "route", !.tx = NoTx]
    /\ UNCHANGED <<routeVars, pools, embargo, renewed, queue, known, wal, msg, inputs, fate>>

-----------------------------------------------------------------------------
(* The wallet or an RPC: BroadcastTransaction.                             *)

Input == inputs < MaxInputs /\ inputs' = inputs + 1

\* Under cs_main: a transaction that neither pool has is submitted to the
\* stempool; if its inputs are only in the mempool, to the mempool.  A refusal
\* ends the call and changes nothing.
BroadcastTransaction(t) ==
    /\ wal.pc = "idle" /\ CsMainFree /\ Input /\ t \notin pools.chain
    /\ \/ /\ t \in pools.mem \cup pools.stem
          /\ wal' = [pc |-> "embargo", tx |-> t, inMempool |-> FALSE]
          /\ UNCHANGED <<pools, fate>>
       \/ /\ t \notin pools.mem \cup pools.stem
          /\ IF StempoolAccepts(t) THEN Admit(t)
             ELSE /\ MempoolAccepts(t) /\ Settle({t})
                  /\ pools' = [pools EXCEPT !.mem = @ \cup {t}]
          /\ wal' = [pc |-> "embargo", tx |-> t, inMempool |-> ~ StempoolAccepts(t)]
    /\ UNCHANGED <<routeVars, embargo, renewed, routed, queue, known, chk, msg>>

WalletEmbargo ==
    /\ wal.pc = "embargo"
    /\ InsertEmbargo(wal.tx)
    /\ wal' = [wal EXCEPT !.pc = "push"]
    /\ UNCHANGED <<routeVars, pools, routed, queue, known, chk, msg, inputs, fate>>

\* Without a destination the transaction is broadcast in the ordinary way, or
\* (relay = false) left to the scheduler.
WalletPush(relay) ==
    /\ wal.pc = "push"
    /\ \E o \in PushOutcomes(net, Takers(wal.tx)) :
         /\ net' = o.net
         /\ queue' = Enqueue(queue, o.to, wal.tx)
         /\ wal' = IF o.to = NoPeer /\ relay /\ ~ wal.inMempool
                   THEN [wal EXCEPT !.pc = "fallback"] ELSE IdleWallet
    /\ UNCHANGED <<conn, shuffles, pools, embargo, renewed, routed, known, chk, msg, inputs, fate>>

\* Under cs_main: from the stempool to the mempool.
WalletFallback ==
    /\ wal.pc = "fallback" /\ CsMainFree
    /\ \E r \in AfterMempool(wal.tx) :
         /\ pools' = [r.pools EXCEPT !.stem = @ \ Family(wal.tx)]
         /\ Settle(Decided(wal.tx, r.ok))
    /\ wal' = IdleWallet
    /\ UNCHANGED <<routeVars, embargo, renewed, routed, queue, known, chk, msg, inputs>>

-----------------------------------------------------------------------------
(* The message thread.                                                     *)

\* DANDELIONTX from an inbound peer, up to RelayDandelionTransaction.
DandelionTx(p, t) ==
    /\ msg.pc = "idle" /\ Served(p) /\ p \in net.in /\ Input
    /\ \/ t \in pools.stem /\ UNCHANGED <<pools, fate, embargo, renewed>>
       \/ StempoolAccepts(t) /\ Admit(t) /\ InsertEmbargo(t)
    /\ msg' = [pc |-> "relay", tx |-> t, from |-> p, to |-> NoPeer]
    /\ UNCHANGED <<routeVars, routed, queue, known, chk, wal>>

\* Mutant: what is fluffed leaves the stempool, even if the mempool refuses it.
RelayFluff_Removes ==
    /\ msg.pc = "relay" /\ msg.tx \in pools.stem
    /\ msg' = IdleMsg
    /\ \E r \in AfterMempool(msg.tx) :
         /\ pools' = [r.pools EXCEPT !.stem = @ \ {msg.tx}]
         /\ IF r.ok THEN Settle({msg.tx}) ELSE UNCHANGED fate
    /\ UNCHANGED <<routeVars, embargo, renewed, routed, queue, known, chk, wal, inputs>>

\* RelayDandelionTransaction, one time in ten: fluff.  The transaction is taken
\* from the stempool again and keeps its place there.
RelayFluff ==
    /\ msg.pc = "relay" /\ msg.tx \in pools.stem
    /\ msg' = IdleMsg
    /\ \E r \in AfterMempool(msg.tx) :
         /\ pools' = r.pools
         /\ IF r.ok THEN Settle({msg.tx}) ELSE UNCHANGED fate
    /\ UNCHANGED <<routeVars, embargo, renewed, routed, queue, known, chk, wal, inputs>>

\* If the scheduler has removed it since the handler found it there, the null
\* pointer is dereferenced: the process dies and starts again without stempool,
\* embargoes and connections.
RelayFluffDies ==
    /\ msg.pc = "relay" /\ msg.tx \notin pools.stem
    /\ pools' = [pools EXCEPT !.stem = {}, !.mem = {}]
    /\ embargo' = [t \in Txs |-> "none"] /\ renewed' = {} /\ routed' = {}
    /\ queue' = [p \in Peers |-> {}] /\ known' = [p \in Peers |-> {}]
    /\ chk' = IdleCheck /\ wal' = IdleWallet /\ msg' = IdleMsg
    /\ fate' = [t \in Txs |-> "none"]
    /\ conn' = [p \in Peers |-> IF conn[p] = "new" THEN "new" ELSE "gone"]
    /\ net' = NoRoutes
    /\ UNCHANGED <<shuffles, inputs>>

\* Otherwise stem: the destination is looked up under m_nodes_mutex ...
RelayStem ==
    /\ msg.pc = "relay"
    /\ net' \in getDandelionDestination(net, msg.from)
    /\ msg' = IF net'.routes[msg.from] = NoPeer THEN IdleMsg
              ELSE [pc |-> "push", tx |-> msg.tx, from |-> msg.from, to |-> net'.routes[msg.from]]
    /\ UNCHANGED <<conn, shuffles, pools, embargo, renewed, routed, queue, known, chk, wal,
                   inputs, fate>>

\* ... and used after it is released.
RelayPush ==
    /\ msg.pc = "push"
    /\ queue' = IF Takes(msg.to, msg.tx) THEN Enqueue(queue, msg.to, msg.tx) ELSE queue
    /\ msg' = IdleMsg
    /\ UNCHANGED <<routeVars, pools, embargo, renewed, routed, known, chk, wal, inputs, fate>>

\* INV: the peer has the transaction.
Inv(p, t) ==
    /\ msg.pc = "idle" /\ Served(p) /\ p \in Relaying /\ t \notin known[p]
    /\ known' = [known EXCEPT ![p] = @ \cup {t}]
    /\ UNCHANGED <<routeVars, pools, embargo, renewed, routed, queue, chk, wal, msg, inputs, fate>>

\* SendMessages empties the peer's queue; what it took from there is known.
SendMessages(p) ==
    /\ msg.pc = "idle" /\ Served(p) /\ queue[p] # {}
    /\ known' = [known EXCEPT ![p] = @ \cup queue[p]]
    /\ queue' = [queue EXCEPT ![p] = {}]
    /\ UNCHANGED <<routeVars, pools, embargo, renewed, routed, chk, wal, msg, inputs, fate>>

-----------------------------------------------------------------------------
(* Connections, as far as they touch stem transactions.                    *)

\* Mutant: a peer is closed while the message thread works on it.
Close_Referenced(p) ==
    /\ CloseDandelionConnections(p)
    /\ routed' = IF net.local = p THEN {} ELSE routed
    /\ UNCHANGED <<pools, embargo, renewed, queue, known, chk, wal, msg, inputs, fate>>

\* When the local destination goes, what was routed is routed again.
Close(p) ==
    /\ CloseDandelionConnections(p) /\ p # msg.from
    /\ routed' = IF net.local = p THEN {} ELSE routed
    /\ UNCHANGED <<pools, embargo, renewed, queue, known, chk, wal, msg, inputs, fate>>

\* FinalizeNode: what was queued for the peer is queued for the local
\* destination.
Finalize(p) ==
    /\ DeleteNode(p) /\ CsMainFree
    /\ LET to == net.local
           moved == IF to = NoPeer THEN {} ELSE {t \in queue[p] : Takes(to, t)}
       IN  queue' = [q \in Peers |-> IF q = p THEN {}
                                     ELSE IF q = to THEN queue[q] \cup moved ELSE queue[q]]
    /\ known' = [known EXCEPT ![p] = {}]
    /\ UNCHANGED <<pools, embargo, renewed, routed, chk, wal, msg, inputs, fate>>

Shuffle ==
    /\ DandelionShuffle
    /\ routed' = {}
    /\ UNCHANGED <<pools, embargo, renewed, queue, known, chk, wal, msg, inputs, fate>>

\* The other steps of DandelionRoutes; the message thread's are its own.
Connect ==
    /\ \E p \in Peers : Accept(p) \/ OpenNetworkConnection(p) \/ Disconnect(p)
    /\ UNCHANGED stemVars
MessageLoop ==
    /\ msg.pc = "idle"
    /\ \E p \in Peers : AddDandelionDestination(p)
    /\ UNCHANGED stemVars

-----------------------------------------------------------------------------
(* The rest of the node.                                                   *)

\* The transaction arrives by ordinary relay, or leaves the mempool again.
Arrive(t) ==
    /\ CsMainFree /\ MempoolAccepts(t)
    /\ pools' = [pools EXCEPT !.mem = @ \cup {t}]
    /\ Settle({t})
    /\ UNCHANGED <<routeVars, embargo, renewed, routed, queue, known, chk, wal, msg, inputs>>
Evict(t) ==
    /\ CsMainFree /\ t \in pools.mem
    /\ pools' = [pools EXCEPT !.mem = @ \ Family(t)]
    /\ UNCHANGED <<routeVars, embargo, renewed, routed, queue, known, chk, wal, msg, inputs, fate>>

\* A block confirms it: removeForBlock on both pools.
ConnectTip(t) ==
    /\ CsMainFree /\ t \notin pools.chain /\ Has(t, pools.chain)
    /\ pools' = [stem |-> pools.stem \ {t}, mem |-> pools.mem \ {t}, chain |-> pools.chain \cup {t}]
    /\ Settle({t})
    /\ UNCHANGED <<routeVars, embargo, renewed, routed, queue, known, chk, wal, msg, inputs>>

\* Time passes: an embargo runs out.
Expire(t) ==
    /\ embargo[t] = "running"
    /\ embargo' = [embargo EXCEPT ![t] = "over"]
    /\ UNCHANGED <<routeVars, pools, renewed, routed, queue, known, chk, wal, msg, inputs, fate>>

Check ==
    \/ CheckBegin \/ CheckCopy \/ (\E s \in chk.todo : CheckLook(s)) \/ CheckAccept
    \/ CheckRemove \/ CheckErase \/ (\E t \in chk.route : CheckRoute(t)) \/ CheckMark
Wallet == WalletEmbargo \/ (\E relay \in BOOLEAN : WalletPush(relay)) \/ WalletFallback
Relay == RelayFluff \/ RelayFluffDies \/ RelayStem \/ RelayPush

Next ==
    \/ Check \/ Wallet \/ Relay \/ Connect \/ MessageLoop \/ Shuffle
    \/ \E t \in Txs : \/ Expire(t) \/ Arrive(t) \/ Evict(t) \/ ConnectTip(t)
                      \/ BroadcastTransaction(t)
    \/ \E p \in Peers : \/ Close(p) \/ Finalize(p) \/ SendMessages(p)
                        \/ \E t \in Txs : DandelionTx(p, t) \/ Inv(p, t)

Spec == Init /\ [][Next]_vars

\* The clock advances, the scheduler runs its check every second, and a handler
\* or a call once begun goes on.
Fairness ==
    /\ WF_vars(\E t \in Txs : Expire(t)) /\ WF_vars(Check)
    /\ WF_vars(Relay) /\ WF_vars(Wallet)

FairSpec == Spec /\ Fairness

-----------------------------------------------------------------------------
(* Properties.                                                             *)

\* A stem transaction whose fate is open is in the stempool: it leaves it only
\* for the mempool, for a block or when the mempool has refused it ("The
\* transactions will remain embargoed and will be broadcast when embargo
\* expires", net_processing.cpp:2002).  A refusal also counts for a transaction
\* that is submitted again before the scheduler removes it (CheckRemove).
StemTransactionKept == \A t \in Txs : fate[t] = "stem" => t \in pools.stem

\* It also has an embargo, whose end turns it into an ordinary transaction, or
\* the broadcast that brought it is about to set one.  The scheduler works on a
\* copy of the embargoes, so a transaction that was accepted again meanwhile
\* must not lose its new one.
OpenFateIsEmbargoed ==
    \A t \in Txs : fate[t] = "stem" =>
        embargo[t] # "none" \/ (wal.pc = "embargo" /\ wal.tx = t)

\* No stem transaction stays one for ever: destinations that disappear, pushes
\* that nobody takes and races with the scheduler's copy only delay it.
StemPhaseEnds == \A t \in Txs : fate[t] = "stem" ~> fate[t] # "stem"
=============================================================================
