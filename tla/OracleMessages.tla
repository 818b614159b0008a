--------------------------- MODULE OracleMessages ---------------------------
(***************************************************************************)
(* How the price quotes of the oracles spread through the network and      *)
(* become the consensus values that the signing ceremony starts from: the  *)
(* price thread of every oracle (src/src/oracle/node.cpp), the store of    *)
(* quotes of every node (src/src/oracle/bundle_manager.cpp) and the        *)
(* handlers of ORACLEPRICE and GETORACLES (src/src/net_processing.cpp).    *)
(*                                                                         *)
(* The clock advances by a minute, the interval at which an oracle quotes, *)
(* and the market price rises by one with it.  Times and prices are kept   *)
(* relative to now: the present is 0, what is past is negative, and a      *)
(* price of -k is the market price of k minutes ago.  One acquisition of   *)
(* mtx_messages is one step.  A quote stands for its hash, which covers     *)
(* oracle, price and timestamp; signatures verify and prices are in range. *)
(***************************************************************************)
EXTENDS ConsensusPrice, SequencesExt

CONSTANTS
    Nodes,
    Oracles,    \* oracle ids
    Host,       \* the node each oracle runs on
    Peers,      \* the connections: a symmetric set of pairs of nodes
    NoQuote,
    MinOracles, \* min_oracle_count, above 1
    StaleAge,   \* minutes after which a consensus is refreshed (300 seconds)
    CleanAge,   \* minutes after which the hashes are cleared (300 seconds)
    MaxAge,     \* ORACLE_MAX_AGE_SECONDS, in minutes
    MaxSeen,    \* MAX_SEEN_HASHES
    MaxFaults   \* bound: disturbances (connections lost, restarts, blocks with a
                \* bundle, prices that cannot be read)

ASSUME MessagesAssumption ==
    /\ IsFiniteSet(Nodes)
    /\ IsFiniteSet(Oracles) /\ Oracles \subseteq Int
    /\ Host \in [Oracles -> Nodes]
    /\ Peers \subseteq Nodes \X Nodes
    /\ \A l \in Peers : <<l[2], l[1]>> \in Peers /\ l[1] # l[2]
    /\ MinOracles \in Nat \ {0, 1}
    /\ {StaleAge, CleanAge, MaxAge, MaxSeen} \subseteq Nat \ {0} /\ StaleAge < MaxAge
    /\ MaxFaults \in Nat

VARIABLES
    pending,  \* pending_messages of each node: the quote held from each oracle
    seen,     \* seen_message_hashes: the quotes whose hash it has
    cleaned,  \* minutes since the timer cleared the hashes
    known,    \* m_oracle_inventory_known_filter, per connection
    chan,     \* messages under way, per connection
    handler,  \* the ORACLEPRICE message between being stored and being relayed
    thread,   \* where each price thread is in BroadcastCurrentPrice
    price,    \* current_price of each oracle, as last read from the exchanges
    quoted,   \* oracles whose thread has run this minute
    faults,   \* disturbances so far
    silent    \* history: how many minutes in a row have ended without a quorum on
              \* each node since the last disturbance

stores == <<pending, seen, cleaned>>
wires == <<known, chan, handler>>
oracles == <<thread, price, quoted>>
bounds == <<faults, silent>>
vars == <<stores, wires, oracles, bounds>>

Quote(o, p, t) == [o |-> o, price |-> p, stamp |-> t]
Request == [get |-> TRUE]
Idle == [at |-> "idle"]
NoneHeld == [o \in Oracles |-> NoQuote]

Init ==
    /\ pending = [n \in Nodes |-> NoneHeld]
    /\ seen = [n \in Nodes |-> {}]
    /\ cleaned = [n \in Nodes |-> CleanAge + 1]
    /\ known = [l \in Peers |-> {}]
    /\ chan = [l \in Peers |-> <<>>]
    /\ handler = [n \in Nodes |-> Idle]
    /\ thread = [o \in Oracles |-> Idle]
    /\ price = [o \in Oracles |-> -MaxAge]
    /\ quoted = {}
    /\ faults = 0
    /\ silent = [n \in Nodes |-> 0]

Disturbance ==
    /\ faults < MaxFaults
    /\ faults' = faults + 1
    /\ silent' = [n \in Nodes |-> 0]

-----------------------------------------------------------------------------
(* The store of quotes.                                                    *)

\* Clocks agree, so no quote is from the future.
IsFreshLiveOracleTimestamp(stamp) == -stamp <= MaxAge

Live(n) == {o \in Oracles : /\ pending[n][o] # NoQuote
                            /\ IsFreshLiveOracleTimestamp(pending[n][o].stamp)}

HasQuorum(n) == Cardinality(Live(n)) >= MinOracles

\* The consensus price and the median of the timestamps.
ComputeConsensusValues(n) ==
    [price |-> CalculateConsensusPrice([o \in Live(n) |-> pending[n][o].price]),
     stamp |-> Median([o \in Live(n) |-> pending[n][o].stamp])]

\* What is left after purging stale quotes.
Purged(n) == [o \in Oracles |-> IF o \in Live(n) THEN pending[n][o] ELSE NoQuote]

\* A set over the limit loses arbitrary hashes.
Capped(S) == IF Cardinality(S) <= MaxSeen THEN {S}
             ELSE {T \in SUBSET S : Cardinality(T) = MaxSeen}

\* AddOracleMessage: purge, clear the hashes if the timer is up, turn away what
\* has been seen, remember the hash, and keep the quote if it is the first or
\* newer than the one held.  ok is the result.
AddOracleMessage(n, q, ok) ==
    LET due == cleaned[n] > CleanAge
        hashes == IF due THEN {} ELSE seen[n]
        held == Purged(n)
        newer == held[q.o] = NoQuote \/ q.stamp > held[q.o].stamp
    IN  /\ ok = (q \notin hashes /\ newer)
        /\ cleaned' = IF due THEN [cleaned EXCEPT ![n] = 0] ELSE cleaned
        /\ \E s \in Capped(hashes \cup {q}) : seen' = [seen EXCEPT ![n] = s]
        /\ pending' = [pending EXCEPT ![n] = IF ok THEN [held EXCEPT ![q.o] = q] ELSE held]

\* ClearPendingMessages: quotes and hashes go together.
ClearPendingMessages(n) ==
    /\ pending' = [pending EXCEPT ![n] = NoneHeld]
    /\ seen' = [seen EXCEPT ![n] = {}]
    /\ UNCHANGED cleaned

\* A message to every peer of n in P.
Push(c, n, P, m) ==
    [l \in Peers |-> IF l[1] = n /\ l[2] \in P THEN Append(c[l], m) ELSE c[l]]

-----------------------------------------------------------------------------
(* The price thread: BroadcastCurrentPrice, once a minute, with a price    *)
(* just read from the exchanges.                                           *)

\* Mutant: a consensus is attested however old it is.
Intent_NeverStale(o, own) ==
    LET c == ComputeConsensusValues(Host[o])
    IN  IF ~ HasQuorum(Host[o]) THEN [at |-> "send", quote |-> own]
        ELSE [at |-> "attest", quote |-> Quote(o, c.price, c.stamp)]

\* What to send: the own price, or the consensus unless it is stale.
Intent(o, own) ==
    LET c == ComputeConsensusValues(Host[o])
    IN  IF ~ HasQuorum(Host[o]) THEN [at |-> "send", quote |-> own]
        ELSE IF -c.stamp > StaleAge THEN [at |-> "clear"]
        ELSE [at |-> "attest", quote |-> Quote(o, c.price, c.stamp)]

\* FetchAndUpdatePrice, which may leave the price of an earlier minute, then the
\* question whether there is a consensus and how old it is.
LookForConsensus(o) ==
    /\ thread[o] = Idle /\ o \notin quoted
    /\ quoted' = quoted \cup {o}
    /\ \/ price' = [price EXCEPT ![o] = 0] /\ UNCHANGED bounds
       \/ Disturbance /\ UNCHANGED price
    /\ thread' = IF -price'[o] >= MaxAge THEN thread
                 ELSE [thread EXCEPT ![o] = Intent(o, Quote(o, price'[o], 0))]
    /\ UNCHANGED <<stores, wires>>

\* A stale consensus: everything is dropped, the oracle quotes its own price.
DropStaleConsensus(o) ==
    /\ thread[o].at = "clear"
    /\ ClearPendingMessages(Host[o])
    /\ thread' = [thread EXCEPT ![o] = [at |-> "send", quote |-> Quote(o, price[o], 0)]]
    /\ UNCHANGED <<wires, price, quoted, bounds>>

\* CreateConsensusAttestation: the values must still be the local consensus;
\* if not, the oracle quotes its own price.
CreateConsensusAttestation(o) ==
    /\ thread[o].at = "attest"
    /\ LET q == thread[o].quote
           c == ComputeConsensusValues(Host[o])
           valid == HasQuorum(Host[o]) /\ c.price = q.price /\ c.stamp = q.stamp
       IN  thread' = [thread EXCEPT ![o] =
             [at |-> "send", quote |-> IF valid THEN q ELSE Quote(o, price[o], 0)]]
    /\ UNCHANGED <<stores, wires, price, quoted, bounds>>

\* BroadcastMessage: only a quote that the node itself accepts is sent.
BroadcastMessage(o) ==
    /\ thread[o].at = "send"
    /\ thread' = [thread EXCEPT ![o] = Idle]
    /\ \E ok \in BOOLEAN :
          /\ AddOracleMessage(Host[o], thread[o].quote, ok)
          /\ chan' = IF ok THEN Push(chan, Host[o], Nodes, thread[o].quote) ELSE chan
    /\ UNCHANGED <<known, handler, price, quoted, bounds>>

-----------------------------------------------------------------------------
(* The message handlers.                                                   *)

\* An ORACLEPRICE message: nothing happens if its hash has been seen or the
\* quote is too old; otherwise it is offered to the store.
ReceivePrice(l) ==
    LET n == l[2]
        q == Head(chan[l])
    IN  /\ handler[n] = Idle
        /\ chan[l] # <<>> /\ q # Request
        /\ chan' = [chan EXCEPT ![l] = Tail(@)]
        /\ \/ /\ q \in seen[n] \/ ~ IsFreshLiveOracleTimestamp(q.stamp)
              /\ UNCHANGED <<stores, handler>>
           \/ /\ q \notin seen[n] /\ IsFreshLiveOracleTimestamp(q.stamp)
              /\ \E ok \in BOOLEAN :
                    /\ AddOracleMessage(n, q, ok)
                    /\ handler' = IF ok THEN [handler EXCEPT ![n] =
                                            [at |-> "relay", from |-> l[1], quote |-> q]]
                                  ELSE handler
        /\ UNCHANGED <<known, oracles, bounds>>

\* RegisterSeenHash, then the relay to every peer not known to have the quote.
RegisterAndRelay(n) ==
    LET from == handler[n].from
        q == handler[n].quote
        P == {m \in Nodes \ {from} : <<n, m>> \in Peers /\ q \notin known[<<n, m>>]}
    IN  /\ handler[n].at = "relay"
        /\ handler' = [handler EXCEPT ![n] = Idle]
        /\ \E s \in Capped(seen[n] \cup {q}) : seen' = [seen EXCEPT ![n] = s]
        /\ known' = [l \in Peers |-> IF l[1] = n /\ l[2] \in P \cup {from}
                                     THEN known[l] \cup {q} ELSE known[l]]
        /\ chan' = Push(chan, n, P, q)
        /\ UNCHANGED <<pending, cleaned, oracles, bounds>>

\* GETORACLES: the fresh quotes held go to the peer that asked, by oracle.
AnswerGetOracles(l) ==
    LET n == l[2]
        back == <<n, l[1]>>
        answer == SetToSortSeq(Live(n), <)
    IN  /\ handler[n] = Idle
        /\ chan[l] # <<>> /\ Head(chan[l]) = Request
        /\ chan' = [chan EXCEPT ![l] = Tail(@),
                                ![back] = @ \o [i \in DOMAIN answer |-> pending[n][answer[i]]]]
        /\ UNCHANGED <<stores, known, handler, oracles, bounds>>

-----------------------------------------------------------------------------
(* Blocks, faults and time.                                                *)

\* A block with a bundle is connected: its quotes have served their purpose.
ConnectBlock(n) ==
    /\ Disturbance
    /\ ClearPendingMessages(n)
    /\ UNCHANGED <<wires, oracles>>

\* The connections L are made anew: what was under way is lost, and both sides
\* ask for the quotes they may have missed.
Reconnected(L) ==
    /\ known' = [l \in Peers |-> IF l \in L THEN {} ELSE known[l]]
    /\ chan' = [l \in Peers |-> IF l \in L THEN <<Request>> ELSE chan[l]]

\* A message being handled came over a connection that is no more.
Orphaned(L) == {n \in Nodes : handler[n].at = "relay" /\ <<handler[n].from, n>> \in L}

LoseConnection(l) ==
    /\ Disturbance
    /\ LET L == {l, <<l[2], l[1]>>}
       IN  /\ Reconnected(L)
           /\ handler' = [n \in Nodes |-> IF n \in Orphaned(L)
                                          THEN [handler[n] EXCEPT !.from = NoQuote]
                                          ELSE handler[n]]
    /\ UNCHANGED <<stores, oracles>>

Restart(n) ==
    /\ Disturbance
    /\ LET L == {l \in Peers : n \in {l[1], l[2]}}
       IN  /\ Reconnected(L)
           /\ handler' = [m \in Nodes |-> IF m = n THEN Idle
                                          ELSE IF m \in Orphaned(L)
                                               THEN [handler[m] EXCEPT !.from = NoQuote]
                                               ELSE handler[m]]
    /\ pending' = [pending EXCEPT ![n] = NoneHeld]
    /\ seen' = [seen EXCEPT ![n] = {}]
    /\ cleaned' = [cleaned EXCEPT ![n] = CleanAge + 1]
    /\ thread' = [o \in Oracles |-> IF Host[o] = n THEN Idle ELSE thread[o]]
    /\ price' = [o \in Oracles |-> IF Host[o] = n THEN -MaxAge ELSE price[o]]
    /\ quoted' = {o \in quoted : Host[o] # n}

Held == {pending[n][o] : n \in Nodes, o \in Oracles} \ {NoQuote}

\* A minute passes, and the market moves.  A message takes less than that, and a
\* price thread does not lag behind.  Hashes that can make no difference any more
\* are forgotten: those of quotes that nobody holds, or that are too old, and in
\* seen those of quotes no newer than the one held, which are turned away anyway
\* until the quotes and the hashes are cleared together.
Older(q) == [q EXCEPT !.price = @ - 1, !.stamp = @ - 1]
Aged(S) == {Older(q) : q \in {r \in S : r \in Held /\ -r.stamp < MaxAge}}
Covered(n, q) == q.o \in Live(n) /\ pending[n][q.o].stamp >= q.stamp
Tick ==
    /\ quoted = Oracles
    /\ \A o \in Oracles : thread[o] = Idle
    /\ \A n \in Nodes : handler[n] = Idle
    /\ \A l \in Peers : chan[l] = <<>>
    /\ quoted' = {}
    /\ pending' = [n \in Nodes |-> [o \in Oracles |->
          IF o \in Live(n) THEN Older(pending[n][o]) ELSE NoQuote]]
    /\ seen' = [n \in Nodes |-> Aged({q \in seen[n] : ~ Covered(n, q)})]
    /\ known' = [l \in Peers |-> Aged(known[l])]
    /\ cleaned' = [n \in Nodes |-> IF cleaned[n] > CleanAge THEN cleaned[n] ELSE cleaned[n] + 1]
    /\ price' = [o \in Oracles |-> IF -price[o] < MaxAge THEN price[o] - 1 ELSE price[o]]
    /\ silent' = [n \in Nodes |-> IF HasQuorum(n) THEN 0 ELSE silent[n] + 1]
    /\ UNCHANGED <<chan, handler, thread, faults>>

Next ==
    \/ \E o \in Oracles : \/ LookForConsensus(o) \/ DropStaleConsensus(o)
                          \/ CreateConsensusAttestation(o) \/ BroadcastMessage(o)
    \/ \E n \in Nodes : RegisterAndRelay(n) \/ ConnectBlock(n) \/ Restart(n)
    \/ \E l \in Peers : ReceivePrice(l) \/ AnswerGetOracles(l) \/ LoseConnection(l)
    \/ Tick

Spec == Init /\ [][Next]_vars

-----------------------------------------------------------------------------
(* Properties.                                                             *)

\* No node is without a consensus for long: once nothing is lost or cleared any
\* more, every node, also one that only relays, holds fresh quotes of a quorum
\* again before a consensus formed now would be stale.  An oracle whose
\* attestation is not newer than its own quote stays silent in the meantime
\* (AddOracleMessage refuses it, so BroadcastMessage does not send it).
QuorumReturns == \A n \in Nodes : silent[n] <= StaleAge + 1

\* The consensus a node holds is about the present: its timestamp and its price
\* are from the last StaleAge + 1 minutes, and every disturbance costs at most
\* one more, although attestations feed a consensus into the next one, prices and
\* timestamps are averaged separately, and old quotes come back over new
\* connections (the "DEADLOCK PREVENTION" branch of BroadcastCurrentPrice).
ConsensusIsRecent ==
    \A n \in Nodes : HasQuorum(n) =>
        LET c == ComputeConsensusValues(n)
        IN  /\ -c.stamp <= StaleAge + 1 + faults
            /\ -c.price <= StaleAge + 1 + faults
=============================================================================
