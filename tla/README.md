# DigiByte Core: TLA+ models and proofs

DigiByte Core is a fork of Bitcoin Core with several proof-of-work algorithms, a
stablecoin (DigiDollar), a threshold of price oracles that sign the DGB price with
MuSig2, and Dandelion++ transaction relay. This directory models the parts that are its
own and hard to test: what several nodes, threads, crashes, lost messages and
reorganisations do to their state. Paths below are relative to `src/src/`.

## The system and its parts

| Part | Source | Model |
| --- | --- | --- |
| Oracle nodes, price messages, consensus price | `oracle/node.cpp`, `oracle/bundle_manager.cpp`, `net_processing.cpp` | `OracleMessages`, `ConsensusPrice` |
| MuSig2 signing session | `oracle/musig2_session.cpp` | `MuSig2Session` |
| Signing orchestrator (one ceremony per epoch of blocks) | `oracle/signing_orchestrator.cpp` | `SigningOrchestrator`, `ThresholdSignature` |
| Price cache, startup scan, volatility freeze | `oracle/bundle_manager.cpp`, `consensus/volatility.cpp` | `OraclePrices` |
| DigiDollar accounting in the chainstate | `validation.cpp`, `consensus/digidollar_state.h`, `digidollar/health.cpp`, `txdb.cpp` | `CanonicalHealth` |
| Difficulty and work of several algorithms | `pow.cpp`, `chain.cpp` | `HeadersWork` |
| Headers synchronisation | `headerssync.cpp`, `net_processing.cpp` | `HeadersSync` |
| Dandelion++ | `dandelion.cpp`, `net.cpp`, `net_processing.cpp`, `node/transaction.cpp` | `DandelionRoutes`, `Dandelion` |
| Chain management, coin database | `validation.cpp`, `txdb.cpp` | as far as they carry the state above |
| DigiDollar transaction rules, DCA, ERR | `digidollar/validation.cpp`, `consensus/dca.cpp`, `consensus/err.cpp` | freeze checks in `OraclePrices`; otherwise not modelled |
| Wallet, statistics index, mining, script, mempool, other P2P, RPC, GUI | | not modelled |

Most parts meet in the block. Oracles quote prices and every node keeps the newest quote
of each (`OracleMessages`); a node that runs oracles takes part in a ceremony for each
epoch that signs their consensus (`SigningOrchestrator`, whose sessions are
`MuSig2Session` records); a miner puts the completed aggregate and its price into the
coinbase. Every node that connects the block checks the aggregate (`IsValidAggregate`),
caches the price and, below a height called Thaw Day, records the price of blocks with
mints in the volatility monitor (`OraclePrices`). The DigiDollar transactions of the
block are counted, below Thaw Day in process-global totals and from Thaw Day on in a
record kept with the coins (`CanonicalHealth`). Which blocks a new node downloads is
decided from headers (`HeadersSync`), and how a transaction reaches the network by
Dandelion++ (`Dandelion`).

`PROJECT.json` lists every part with its status, the hazards of the code with the
properties that cover them, and for each definition the lines it translates.

## Modules

### MuSig2Session

A session is a record and each method of `MuSig2SigningSession` an operator on it;
every method holds the session's mutex, so it is one step. Nonces are numbers, a
signature remembers what went into it (key set, nonces, message), and a hash is the
tuple of what is hashed, so two are equal only when their inputs are. The module
also has the validator's side: `IsValidAggregate`.

### SigningOrchestrator and ThresholdSignature

`SigningOrchestrator` extends `MuSig2Session` to a set of nodes in one epoch.

| State | Code |
| --- | --- |
| `sess[n]` | entry of `m_signing_sessions` |
| `maps[n]` | the epoch's entries of the other maps (evidence, proposals, trackers, unsent, pending) |
| `tick[n]` | `TickEpochSession` in progress, with its local variables |
| `inbox[n]` | a partial signature between the two looks `IngestRemotePartialSig` takes at the session |
| `msgs`, `online`, `stale` | messages that reached a peer, nodes with peers, expired prices |
| `drawn`, `made`, `lost`, `crashes` | history and a bound |

A tick is cut where another thread can get in: at every acquisition of
`m_sessions_mutex` and between calls on the session, which has its own mutex.
`BlockConnected`, `Resend`, `Step...` are its stretches in the order of the code;
the handlers are `IngestRemoteNonce`, `IngestRemoteContext`,
`IngestRemotePartialSig` and `BufferOrDrop`. A message is never removed from
`msgs`, so it can arrive late, twice, in any order, or not at all. Messages are
authentic: signatures on P2P messages are assumed to do their job. `Crash` loses all
of a node's state, none of which is on disk.

`ThresholdSignature` is what the ceremony promises: oracles sign statements (a committee,
its nonces and a value), never twice with the same nonce, and a node comes to hold the
aggregate of a statement, once, only when its whole committee has signed it. The
refinement mapping is `Promise` in `SigningOrchestrator`: the signatures are those of
`made`, and a node holds the binding of its session once that is COMPLETE.

### OracleMessages and ConsensusPrice

`ConsensusPrice` is `CalculateConsensusPrice` as an operator: median, quartiles, outlier
filter. `OracleMessages` is the network around it: `pending[n]` and `seen[n]` are the
store of quotes and the duplicate filter of a node, each oracle has a price thread that
fetches, quotes, and when the consensus has become stale attests to it, and messages
queue on the connections. A tick of the clock is a minute and the market price rises by
one with it, so that the age of a price can be read off; everything is relative to now,
which keeps the state space finite over unbounded time. Connections are lost and made
again (with a `GETORACLES`), nodes restart, a block with a bundle clears the store, an
exchange fails.

### HeadersWork and HeadersSync

`HeadersWork` has the retargeting rule of today (MultiShield V4) with the
minimum-difficulty exception, the geometric-mean work of a block, and
`HeadersWorkState`, which computes both from a bounded window of headers. `HeadersSync`
is the two-phase download of `HeadersSyncState` with one peer and the handlers of
headers, getheaders and block announcements around it: `theirs` is the peer's chain,
`index` the headers validation has, `sync` the state object, `up` and `down` the messages
under way. The peer is honest, but its chain grows and is reorganised and its answers are
late.

### DandelionRoutes and Dandelion

`DandelionRoutes` is the routing data of `CConnman` (inbound and outbound peers,
destinations, routes, local destination) and the life of a peer object from connecting
to deletion. `Dandelion` adds stempool, mempool and embargoes, and the threads on them:
`CheckDandelionEmbargoes` in the scheduler, which works on a copy of the embargo map
(`Check...`), `BroadcastTransaction` (`Wallet...`), the handler of a stem transaction
(`Relay...`), and blocks. A step is what a thread does between two acquisitions of a
lock. `fate` is history: whether a transaction is still in its stem phase.

### CanonicalHealth

One node's chainstate: the coins view and its record (`coins`), the coin database
(`disk`), the phase of startup (`pc`, `goal`) and the legacy totals (`legacy`,
`restore`, `seeded`). Coins are reduced to open vaults. Blocks form a constant tree
with the vault transactions of each block, and `Follows` says which blocks pass the
Thaw Day rules. `ConnectTip`, `DisconnectTip`, `CheckBlock` and `FlushStateToDisk`
are the running node; `Start` to `ReplayDone` are `ReplayBlocks`, `LoadChainTip` and
`InitializeDigiDollarState`; `Crash`, `CrashInWrite` and `CrashInReplay` stop it, the
last two between database batches; `RunOtherRelease` is an older release, or one
built with another Thaw Day height, run on the same data directory.

### OraclePrices

One node's price cache (`cache`), price history and freeze state (`hist`, `freeze`)
over its active chain. `ConnectBlock` and `DisconnectTip` keep them up to date,
`LoadPricesFromChain` rebuilds them after a `Stop`, which may lose blocks. Volatility
is computed as the code does, in basis points with integer division, including the
integer square root.

### Modules for TLC

The `MC...` modules define the constants. `MCSigningOrchestrator` also has the coarser
specification `AtomicSpec`, in which a tick or a handler runs to its end before anything
else happens; its behaviours are among those of `Spec`. `MCSyncCeremony` adds the
schedule for the liveness properties. `MCOracleMessages` enumerates, beside the network,
all bundles of a few prices. `MCDandelion` and `MCHeadersSync` start from two kinds of
initial states, so that the large parts of the two state spaces are not multiplied.

## Runs

| Run | What it checks |
| --- | --- |
| `ceremony_threads` | All interleavings of the block and message threads of two nodes, with failing library calls and missing prices. |
| `ceremony_forks` | Competing blocks that give different selection seeds, reorganisations in mid ceremony, attempts that time out and restart at different heights, a node that loses and regains its peers, prices that expire. Completed bundles verify and agree; each own nonce, context and signature has reached a peer or is still held; the ceremony implements `ThresholdSignature`. |
| `ceremony_crash` | A process restarts at any point of a tick: no nonce signs twice. |
| `sync_ceremony` | Synchronous rounds with the code's block constants, four oracles of which the first proposer is absent, one passive node: all complete within three blocks of the epoch's first, and stay complete. |
| `oracle_messages` | Lost connections, restarts, cleared stores and failing exchanges, minute after minute: a quorum of quotes returns and the consensus price does not age. Beside it, every bundle of up to eight quotes: a quarter of them cannot move the consensus outside the others. |
| `record_crash` | Thaw Day at height 3: reorganisations across it, flushes, crashes in and between writes, cancelled recoveries, other releases. |
| `record_from_genesis` | Thaw Day at height 0, blocks arriving during startup, and progress of recovery. |
| `price_history` | Connects, reorganisations across Thaw Day, restarts that lose blocks: history, freeze state and cache. |
| `dandelion_stem` | The embargo check on its copy while peers close, destinations are shuffled and other threads broadcast and relay: routes lead to live peers, a stem transaction keeps its place and its embargo until it is settled, and no stem phase lasts for ever. |
| `headers_sync` | Both downloads across a change of algorithms, with a peer whose chain changes and whose answers are late: the bounded window counts the work validation will count, an absent algorithm's difficulty eases, headers are released on evidence only, and the peer is followed in the end. |

Two runs show a disagreement between a comment and the code; the comments are quoted
under `findings` in `PROJECT.json`:

| Run | What happens |
| --- | --- |
| `early_psig_lost` | A partial signature that arrives while the tick enters SIGNING is neither applied nor buffered, because the handler looks at the session twice and the tick changes it in between without `m_sessions_mutex`. |
| `window_drift` | The volatility history a restart rebuilds covers a window below the tip, the running one a window below the newest mint; after a month without mints they judge the next mint differently. |

### Observations without a run

Ceremony and prices:

- *Second nonce.* A restarted oracle that first receives its own earlier nonce generates
  a second one, since `GenerateNonce` (`oracle/musig2_session.cpp:213`) looks only at
  secret nonces, and signs with a nonce that is not in the aggregate.
  `oracle/signing_orchestrator.h:193-194` says: "The session refuses to generate a second nonce
  for an oracle it already holds one for". To see it, check in `ceremony_crash` that a
  session with both `sec[id]` and `pub[id]` nonzero has them equal.
- The ceremony cannot be COMPLETE before the epoch's first block, as the comment on
  `TickEpochSession` has it: the selection seed is the hash of the block before, and the
  proposal, the signatures and the aggregation take further blocks (`sync_ceremony`).
- A freeze below Thaw Day does not end after its cooldown: only an accepted mint updates
  the freeze state and a freeze accepts none (`FreezeLastsWithItsBlock`).
- An oracle sends an attestation only when it is newer than its own quote, so a node that
  has lost a quote waits up to `StaleAge` + 1 minutes. `RegisterSeenHash`
  (`net_processing.cpp:5720`) runs after the store's lock was released and can leave a
  hash without a quote; `QuorumReturns` holds all the same.
- With four quotes the upper quartile is the maximum, so that only low outliers are
  filtered. A quote may carry an exchange price up to 3600 s old under a current timestamp.

Accounting, below Thaw Day:

- *Burn drift.* A redemption may burn more than the principal of its vault; the running
  totals subtract what was burned (`validation.cpp:3600`), a restart adds up the principals
  still open. With `Burn` larger than `Principal`, `LegacyTotalsExact` is violated.
  `digidollar/health.cpp:827-830` says: "seed the cached system-health metrics from the
  on-chain UTXO set at startup so consensus DCA/ERR health is identical on every node
  regardless of restart history."
- With `ThawHeight` 2 and `ImportDuringInit` TRUE the same property fails once a
  reorganisation falls back below Thaw Day (`validation.cpp:4359`).

Dandelion:

- With `Spends = {<<t2, t1>>}` `StemTransactionKept` is violated: a child leaves the
  stempool with its parent. `net_processing.cpp:2002` says: "The transactions will remain
  embargoed and will be broadcast when embargo expires". A child whose embargo ends before
  its parent's is refused.
- The embargo check removes from the stempool without `cs_main`
  (`net_processing.cpp:1799`), where `node/transaction.cpp:227-228` speaks of "the same
  order every other stempool writer uses (cs_main, then mempool, then stempool)".
- The handler of a stem transaction asks whether it exists (5554) and gets it later
  (1635); it may have been removed in between. `getDandelionDestination` returns a pointer
  that is used after the lock is released.
- `doc/DANDELION_INFO.md:675` says "Transactions exist in either stempool OR mempool, never
  both"; a transaction found in the mempool loses its embargo and stays in the stempool.
- A wallet transaction already in the mempool with no destination left ends in the
  fallback's error, although the code says it will reannounce it.
- The replacement of a closed destination is chosen while the closed peer's routes still
  count, so it need not be the least loaded one.

Headers:

- A receipt of any headers clears `m_last_getheaders_timestamp` (`net_processing.cpp:5196`),
  so a late answer lets an announcement send a second request while the first is under
  way. The sync recovers from one such crossing; after two, the two requests can keep
  undoing each other's sync, hence the premise of `SyncCompletes`.
- The number of headers kept per sync (`headerssync.cpp:26`) is exactly what retargeting
  reads, without slack: with one less `WorkIsExact` fails.

### Bounds

- Ceremony: two nodes and two or three oracles with threshold 2 are the smallest
  instances in which a participant can be missing, a better ranked nonce can come
  late and two committees can differ. `MaxHeight` leaves room for one timeout and one
  restart of the attempt (`forks`), or a full ceremony (`threads`). Timeouts
  and grace periods are scaled down except in `sync_ceremony`, which uses the code's
  values.
- `ceremony_crash` adds the constraint `RestartBound`: each proposer proposes its own
  price and the node that does not restart stays at height 3 or below. The theorem
  `NeverSignsTwice` has no such bound.
- Oracle messages: a line of three nodes with the oracles at the ends, so that every quote
  is relayed; `MaxSeen` 3 makes the duplicate filter overflow; one disturbance
  (`MaxFaults`) at any time, in behaviours that go on for ever. Ages are scaled to minutes,
  and `ConsensusIsRecent` allows one more for each disturbance.
- Record: a tree of ten blocks with three branches, one block that breaks the rules
  and a mint that is in two branches; `MaxStops` 4 allows a crash in a write, one in
  its replay, a cancelled recovery and another release.
- Prices: five blocks, an hour or half an hour apart, two of which can move the price
  by less than the refused 20% each and by more than the freezing 30% together.
  Windows of a day and a week are scaled to two hours. `ScanDepth` exceeds the chain
  in `price_history`; `window_drift` makes it smaller.
- Dandelion: an inbound and two outbound peers, two shuffles, one transaction that may
  come from the wallet and from peers, twice in all. Stem transactions are explored without
  the second outbound peer and without shuffles, and the shuffles without stem transactions.
- Headers: three algorithms, one of which another replaces at height 10, messages of two
  headers, one change of the peer's chain, up to two crossing requests. Either the peer
  has any chain of `Ahead` more blocks, which stays as it is, or one chain with changes and
  delays.

Deadlock is not checked in the ceremony runs, where nodes stop at `MaxHeight`, nor in
`dandelion_stem` and `headers_sync`, where a settled transaction and a finished download
leave nothing to do; it is checked in the others.

### Fairness

- `FairSyncSpec`: weak fairness on the synchronous next-state relation: blocks keep
  coming, the two threads run and messages of connected peers arrive.
- `CanonicalHealth`: weak fairness on `StartupStep`; startup is a sequential function
  under `cs_main`, and a node that is off is started again. None for connecting blocks.
- `Dandelion`: weak fairness on time passing an embargo, on the scheduler, which runs its
  check every second, and on a handler or a broadcast going on once
  begun. None for blocks, peers or shuffles.
- `HeadersSync`: weak fairness on the peer answering, on the node processing what arrives
  and on the peer announcing its tip. None for changes of the peer's chain.

## What is proved

| Theorem | Module | Statement |
| --- | --- | --- |
| `TypeCorrect` | `SigningOrchestratorProofs` | `CrashSpec => []TypeOK` |
| `NeverSignsTwice` | `SigningOrchestratorProofs` | `CrashSpec => []NonceSignsOnce` |
| `CompleteIsValid` | `SigningOrchestratorProofs` | a completed session with `SessionInv` yields an aggregate the validator accepts |
| `BundleAlwaysVerifies` | `SigningOrchestratorProofs` | `Spec => []CompletedBundleVerifies` |
| `CeremonyImplements` | `RefinementProofs` | `Spec => ImplementsThresholdSignature` |
| `CompletedAttemptsAgree` | `RefinementProofs` | `Spec => []AttemptAgreement` |
| `AttemptsStayApart` | `HeldProofs` | `Spec => []AttemptCoherence` |
| `NoncesOutOrHeld` | `HeldProofs` | `Spec => []OwnNonceOutOrHeld` |
| `PsigsOutOrHeld` | `HeldProofs` | `Spec => []OwnPsigOutOrHeld` |
| `ContextsOutOrHeld` | `HeldProofs` | `Spec => []OwnContextOutOrHeld` |
| `OnlyValidationChecks` | `CanonicalHealthProofs` | `Spec => []CheckedHistoryIsClean` |
| `CoinsAreThoseOfTheBlock` | `CanonicalHealthProofs` | `Spec => []CoinsMatchBlock` |
| `RecordsMatchCoins` | `CanonicalHealthProofs` | `Spec => []RecordMatchesCoins` |
| `RunningNodesAreReady` | `CanonicalHealthProofs` | `Spec => []RunningIsReady` |
| `LegacyTotalsAreExact` | `CanonicalHealthProofs` | from `LegacySetting`: `Spec => []LegacyTotalsExact` |
| `FreezeIsOfTheHistory` | `OraclePricesProofs` | `Spec => []FreezeFollowsHistory` |
| `CachedPriceIsOfTheChain` | `OraclePricesProofs` | `Spec => []CachedPriceIsNewest` |
| `FreezesLast` | `OraclePricesProofs` | from `ScanReaches`: `Spec => FreezeLastsWithItsBlock` |
| `HistoryIsTheScan` | `OraclePricesProofs` | from `HistorySetting(gap)`: `Spec => []HistoryMatchesScan` |
| `RoutesStayLive` | `DandelionProofs` | `Spec => []RoutesAreLive` |
| `StemTransactionsStay` | `DandelionProofs` | from `Spends = {}`: `Spec => [](StemTransactionKept /\ OpenFateIsEmbargoed)` |
| `StemTransactionsAreKept` | `DandelionProofs` | from `Spends = {}`: `Spec => []StemTransactionKept` |

`FoldFacts` and `CoinsFacts` hold lemmas only. `RefinementProofs` and `HeldProofs` build on
`SigningOrchestratorProofs`, `CanonicalHealthProofs` on `CoinsFacts`, and that and
`OraclePricesProofs` on `FoldFacts`.

### Assumptions

The theorems hold for every value of the constants that satisfies the named assumptions of
the modules; TLC evaluates these in the runs.

| Assumption | Says |
| --- | --- |
| `SessionAssumption`, `OrchestratorAssumption` | sets are finite or of the right type, no two oracles have equal scores, an oracle is run by one node, the threshold is between 2 and the number of oracles, bounds are natural numbers |
| `TreeAssumption` | the block index is a tree |
| `CoinsAssumption` | on a branch a vault is minted once, and redeemed once after its mint: what the coin rules enforce, since a mint creates an output and a redemption spends it |
| `AmountsAssumption` | a vault holds a positive amount of each kind |
| `MoneyAssumption` | the collateral open at a block is at most `MAX_MONEY`, as it is made of coins |
| `RecordAssumption` | the value for "no record" is not a record |
| `LimitsAssumption` | the limits of history and cache are natural numbers, the last two positive |
| `RoutesAssumption`, `StemAssumption` | peers and transactions are finite sets and bounds natural numbers |

Four theorems have a premise of their own, each for behaviour listed under "Observations
without a run" or shown by `window_drift`:

- `LegacySetting`: a redemption burns the principal of its vault (otherwise *burn drift*), no
  block arrives before the startup scan, and no sum reaches the clamp of `OnMintConnected`,
  which no undo can take back.
- `ScanReaches`: the chain is within the depth of the startup scan (otherwise
  `window_drift`), and the scan comes before the first connect.
- `HistorySetting(gap)`: moreover the chain is within the age and the number of points that
  `CleanOldHistory` keeps, and `MIN_PRICE_INTERVAL` is the hour the scan samples with.
- `Spends = {}`: no transaction spends another's output; otherwise a child leaves the
  stempool with its parent.

The constants of the runs that check these properties satisfy them.

### Arguments

*No nonce signs twice.* `NonceInv` adds to the property that nonces are numbered as
they are drawn, that the secret nonces held anywhere are different, and that none of
them has signed. All steps but the draw and the signature only forget secret nonces.

*Bundles verify.* `NonceSignsOnce` says nothing about which nonce a session signs
with. `BundleInv` says that an oracle draws one nonce per attempt,
that every nonce in a session, a map or a message was drawn for that attempt and
oracle, that a tick between choosing and binding has frozen participants and their
keys, and `SessionInv` of every session. So stored signatures verify, and as many as
the threshold are one of each participant. There is one lemma
per group of actions. The theorem is about `Spec`, without restarts: after a
restart an oracle can draw a second nonce in the same attempt (see above).

*The ceremony implements the threshold signature.* To `BundleInv` and `NonceInv` the proof
adds `SigInv`: every signature in a session, a map, an inbox or a message was made by its
oracle, and for the context it is held for. Most steps are `Calm`: they make no signature
and complete no session, which is a stuttering step, because no session leaves COMPLETE. A
step that signs is `Sign`: the signer is in the committee of its binding, uses the nonce
listed for it there and, by `NonceInv`, uses it for the first time. A step that completes a
session is `Certify`: the stored signatures are one of each member of the committee, and by
`SigInv` all were made.

*Completed attempts agree.* Two committees of a majority share an oracle. It draws one
nonce per attempt and signs once with it, so both sessions hold the same signature of it,
and `SigInv` ties that to one context.

*What is ours is out or held.* `HeldInv` is about one node at a time, because messages on
the wire stay there. Its parts: everything of the epoch is of the current attempt
(`Coherent`), and a nonce, a signature and a proposal of ours is out or held (`NonceHeld`,
`PsigHeld`, `ContextHeld`), also in the middle of a tick. A nonce that a handler stores
over ours is the same one, since an oracle draws one per attempt; a context changes only
while nothing is signed.

*Only validation checks history.* The property speaks of records a view can see. The
inductive `HistoryInv` speaks of every record that is held, because an older release
can move the database back to the block of a record that was out of sight; and it
says that a recovery stays on the branch of its goal.

*Coins, record and readiness.* `HealthInv` adds to `HistoryInv` that every record held has
the totals of its own block, that a view in use has the coins of its block, and what a
database in the middle of a write still has right: the vaults that no block between the old
and the new tip touches (`Settled`). `CoinsFacts` shows that replaying the two branches then
settles the others, whatever mixture a crash has left, and that connecting or disconnecting
a block moves coins and totals between those of the block and of its parent.

*Legacy totals.* `LegacyInv` says which block the totals count (`LegacyBase`: the tip, or
above Thaw Day the last block below it), and that where there was no scan the restore flag
is set, so that a reorganisation below Thaw Day scans.

*Prices.* `PriceInv` has types, `FreezeFollowsHistory` and what a cache is: prices of the
chain, the latest at the highest height. For the freeze to be a function of the history,
`UpdateState` from an earlier freeze has to give what it gives from none, which holds
because a mint is only accepted when nothing is frozen. `OrderInv` adds that the points of
a history rise in height and time and where they are in the chain, so that the newest point
is of the freezing block as long as that is there. `HistoryInv` adds the pace of the blocks
and that the history is `ScanHistory`, of which a connected block adds, and a disconnected
one removes, the last point.

*Dandelion.* `RoutesInv` adds to `RoutesAreLive` the types and that the peer whose
transaction the message thread relays is still listed. `StemInv` adds to
`StemTransactionKept` and `OpenFateIsEmbargoed` that a thread done with a transaction and
a transaction in the mempool leave its stem phase settled.

### Induction over data

The induction theorems of the library take the hypothesis as an operator, which the
installed provers cannot instantiate. `FoldFacts` states induction over natural numbers
with a set instead, and from it that a fold over a sequence is the last value of a chain
of single steps (`SeqFoldExists`, `FoldChain`, `StepInduction`). What a block or a chain
does to coins, totals, history or cache is then shown step by step along such a chain.
`SequenceFolds` has the few operators of `SequencesExt` that these modules use, without
the theorems that module brings along.

The proof modules start with `USE Zenon`, which makes Zenon the prover of every step that
names no other. SMT, named where arithmetic or sequences need it, spends several seconds on
the translation of a step in a module of this size.

## What is only model-checked

- Liveness (`CeremonySucceeds`, `AlwaysRunsAgain`, `StemPhaseEnds`, `SyncCompletes`): TLAPS
  does not handle fairness.
- `CompleteByDeadline`: a statement about one schedule with the code's block constants.
- `WorkIsExact`, `AbsenceEases`, `ReleasedOnEvidence`: they compare recursive functions over
  the headers of several algorithms, with products and roots of targets, which is nonlinear
  arithmetic out of the reach of the installed provers.
- `ConsensusPriceIsRobust`: it is about medians and quartiles of a sorted bag of prices, and
  about a definition that only its run uses.
- `QuorumReturns` and `ConsensusIsRecent`: bounds on ages that count the faults of a run; they
  hold on the topology of the instance and are not stated for any other.

## What is not modelled

- Ceremony: several epochs at once and the cleanup of old sessions.
- Oracle messages: signatures (assumed to do their job), rate limits, the
  `pending_attestations` with `ORACLECONSENSUS` and `ORACLEATTESTATION`, heartbeats, clock
  differences, messages delayed by more than a minute, the clearing RPC
  (`rpc/digidollar.cpp:6624`).
- Headers: misbehaviour scores and peer timeouts, compact blocks, several peers and their
  presync statistics, blocks connecting during the sync, retargeting before V4, the
  rounding of compact targets, `PermittedDifficultyTransition` (always true in this code),
  locators across more than ten blocks.
- Accounting: the arithmetic of the DigiDollar rules behind `Follows`, cache flags of
  single coins, block files and pruning, mempool, wallet and index notifications.
- DCA and ERR: pure functions of one or two numbers, which the repository's unit tests go
  through tier by tier; a model would repeat them.
- Wallet, statistics index, mining, RPC: sequential code over state kept elsewhere, or
  inherited from Bitcoin Core. Hash functions, script evaluation and the GUI are outside
  what a model checker can say something about.

## Plan

1. Several epochs at once and `CleanupOldSessions`.
2. The composition of `OracleMessages` with `SigningOrchestrator`, where proposals are made
   from the quotes a node has.

## Checking

From this directory: `tlc -workers 2 -config <cfg> <module>` with the pairs in
`PROJECT.json`, and `tlapm <module>.tla` for the modules with theorems. A run takes up to
three and a half minutes, a module of proofs up to a quarter of an hour. Definitions whose
comment starts with "Mutant" are deliberate errors, used to see that a property fails
when the code is changed that way.
