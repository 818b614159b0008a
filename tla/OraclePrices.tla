---------------------------- MODULE OraclePrices ----------------------------
(***************************************************************************)
(* What a node remembers of the oracle prices in its active chain: the     *)
(* price cache of OracleBundleManager and the price history and freeze     *)
(* state of VolatilityMonitor.  Both are process globals that ConnectBlock *)
(* and DisconnectBlock keep up to date, and that LoadPricesFromChain       *)
(* rebuilds at startup.  Below Thaw Day the freeze state decides whether a *)
(* block is valid; from Thaw Day on a mint is compared with a reference    *)
(* computed from its ancestors.                                            *)
(*                                                                         *)
(* Abstractions.  A block is its height (its place in chain), the price in *)
(* its coinbase (0: no oracle bundle), the DigiDollar transaction it holds *)
(* and its time.  The oracle bundle is valid and DigiDollar is active from *)
(* block 1.  Each action holds cs_main.  A block that is rejected, or only *)
(* checked, changes nothing here, and is left out.                         *)
(***************************************************************************)
EXTENDS SequenceFolds, TLC

CONSTANTS
    Offers,           \* [price, kind] of the blocks that are offered
    Gaps,             \* seconds from a block to the next one
    MaxHeight,        \* bound: the height of the highest block
    MaxStops,         \* bound: how often the process ends
    ThawHeight,       \* nDDThawDayHeight
    ScanDepth,        \* VOLATILITY_HISTORY_BLOCKS
    ValidityBlocks,   \* ORACLE_VALIDITY_BLOCKS
    CacheSize,        \* entries UpdatePriceCache keeps
    MinInterval,      \* MIN_PRICE_INTERVAL
    Hour, Day, Week,  \* the windows of UpdateVolatilityState
    MaxAge,           \* MAX_HISTORY_DAYS, in seconds
    MaxPoints,        \* MAX_HISTORY_POINTS
    Cooldown,         \* COOLDOWN_BLOCKS
    MinDepth, MaxDepth, Samples,  \* the window of BuildMintReference
    ImportDuringInit  \* blocks arrive before LoadPricesFromChain has run

Kinds == {"plain", "mint", "redeem"}

ASSUME OffersAssumption ==
    \A o \in Offers : /\ o.price \in Nat /\ o.kind \in Kinds
                      /\ o.kind # "plain" => o.price > 0

ASSUME LimitsAssumption ==
    /\ Gaps \subseteq Nat
    /\ MaxHeight \in Nat /\ ThawHeight \in Nat
    /\ MaxAge \in Nat /\ Cooldown \in Nat
    /\ ScanDepth \in Nat /\ ValidityBlocks \in Nat
    /\ MaxPoints \in Nat \ {0} /\ CacheSize \in Nat \ {0}

VARIABLES
    chain,    \* the active chain above genesis
    hist,     \* priceHistory
    freeze,   \* currentState: mint, all, at (freezeHeight), until (cooldownEndHeight)
    cache,    \* at: height_to_price; latest: cached_price
    restore,  \* m_dd_legacy_restore_needed
    pc,       \* "off", "loading" (before LoadPricesFromChain) or "running"
    stops     \* how often the process ended

vars == <<chain, hist, freeze, cache, restore, pc, stops>>

WARNING_1H_BPS == 1000
FREEZE_MINT_1H_BPS == 2000
FREEZE_ALL_24H_BPS == 3000
EMERGENCY_7D_BPS == 5000
MINT_MAX_DEVIATION_BPS == 2000

Height == Len(chain)
IsThawDayActive(height) == height >= ThawHeight

-----------------------------------------------------------------------------
(* VolatilityMonitor.                                                      *)

NoFreeze == [mint |-> FALSE, all |-> FALSE, at |-> 0, until |-> 0]

\* |CalculatePercentageChangeBps|
ChangeBps(old, new) == ((IF new > old THEN new - old ELSE old - new) * 10000) \div old

\* GetPricesInWindow: from the newest price back to the first that is too old.
InWindow(h, seconds) ==
    LET young == {i \in 1..(Len(h) + 1) :
                      \A j \in i..Len(h) : h[j].time >= Last(h).time - seconds}
    IN  SubSeq(h, Min(young), Len(h))

\* IntegerSqrtFloor, bit by bit, for numbers below 2^30.
IntegerSqrtFloor(n) ==
    FoldLeft(LAMBDA r, bit : IF (r + bit) * (r + bit) <= n THEN r + bit ELSE r,
             0, [i \in 1..15 |-> 2 ^ (15 - i)])

\* CalculateStandardDeviationBps: sample variance, rounded down twice.
StandardDeviationBps(v) ==
    LET n == Len(v)
        sum == FoldFunction(LAMBDA x, y : x + y, 0, v)
        squares == FoldFunction(LAMBDA x, y : x * x + y, 0, v)
    IN  IF n < 2 THEN 0 ELSE IntegerSqrtFloor((n * squares - sum * sum) \div (n * (n - 1)))

\* The larger of the widest move from the first price of the window and twice
\* the standard deviation of the moves from price to price.
VolatilityBps(h, seconds) ==
    LET p == InWindow(h, seconds)
        steps == [i \in 1..(Len(p) - 1) |-> ChangeBps(p[i].price, p[i+1].price)]
    IN  IF Len(p) < 2 THEN 0
        ELSE Max({ChangeBps(p[1].price, p[i].price) : i \in 2..Len(p)}
                 \cup {2 * StandardDeviationBps(steps)})

\* The times in a history increase, so the old prices are those at its front.
CleanOldHistory(h) ==
    LET young == InWindow(h, MaxAge)
    IN  SubSeq(young, Max({1, Len(young) - MaxPoints + 1}), Len(young))

UpdateState(h, f, height) ==
    LET hourly == VolatilityBps(h, Hour)
        daily == VolatilityBps(h, Day)
        weekly == VolatilityBps(h, Week)
        frozen(all) == [mint |-> TRUE, all |-> all, at |-> height, until |-> height + Cooldown]
        g == IF (daily >= FREEZE_ALL_24H_BPS \/ weekly >= EMERGENCY_7D_BPS) /\ ~ f.all
             THEN frozen(TRUE)
             ELSE IF hourly >= FREEZE_MINT_1H_BPS /\ ~ f.mint THEN frozen(FALSE) ELSE f
    IN  IF /\ g.mint \/ g.all
           /\ height > g.until
           /\ hourly < WARNING_1H_BPS
           /\ daily < FREEZE_MINT_1H_BPS
           /\ weekly < FREEZE_ALL_24H_BPS
        THEN NoFreeze ELSE g

\* The same computation, at the height of the newest price.
UpdateVolatilityState(h, f) == UpdateState(h, f, Last(h).height)

\* The state a fresh monitor computes from a history.
FreezeOf(h) == IF h = <<>> THEN NoFreeze ELSE UpdateVolatilityState(h, NoFreeze)

\* Mutant: every accepted mint becomes a point of the history.
TooRecent_Never(h, time) == FALSE

TooRecent(h, time) == h # <<>> /\ time - Last(h).time < MinInterval

\* The history and the freeze state that RecordPrice leaves behind.
RecordPrice(h, f, p) ==
    LET longer == CleanOldHistory(Append(h, p))
    IN  IF TooRecent(h, p.time) THEN <<h, f>> ELSE <<longer, UpdateVolatilityState(longer, f)>>

RecordAcceptedMintVolatility(p) ==
    LET recorded == RecordPrice(hist, freeze, p)
    IN  /\ hist' = recorded[1]
        /\ freeze' = UpdateState(recorded[1], recorded[2], p.height)

\* remove_if
WithoutHeight(h, height) ==
    FoldLeft(LAMBDA kept, p : IF p.height = height THEN kept ELSE Append(kept, p), <<>>, h)

\* Mutant: the freeze state survives the price that caused it.
RemovePriceForHeight_KeepsFreeze(height) ==
    /\ hist' = WithoutHeight(hist, height)
    /\ UNCHANGED freeze

RemovePriceForHeight(height) ==
    LET h == WithoutHeight(hist, height)
    IN  IF h = hist THEN UNCHANGED <<hist, freeze>>
        ELSE /\ hist' = CleanOldHistory(h)
             /\ freeze' = FreezeOf(CleanOldHistory(h))

WouldCandidateFreezeMinting(h, price) ==
    h # <<>> /\ ChangeBps(Last(h).price, price) >= FREEZE_MINT_1H_BPS

-----------------------------------------------------------------------------
(* The mint reference of Thaw Day.                                         *)

\* The newest Samples prices in the window, newest first.
ReferencePrices(height) ==
    LET oldest == Max({1, height - MaxDepth})
        window == [i \in 1..(height - MinDepth - oldest + 1) |->
                      chain[height - MinDepth - i + 1].price]
        priced == SelectSeq(window, LAMBDA p : p > 0)
    IN  SubSeq(priced, 1, Min({Samples, Len(priced)}))

\* BuildMintReference and EvaluateMintPrice: the lower median, if there is one.
MintRestricted(height, price) ==
    LET prices == SortSeq(ReferencePrices(height), <)
        reference == prices[(Len(prices) + 1) \div 2]
    IN  /\ prices # <<>>
        /\ (IF price > reference THEN price - reference ELSE reference - price) * 10000
               >= reference * MINT_MAX_DEVIATION_BPS

-----------------------------------------------------------------------------
(* OracleBundleManager's price cache.                                      *)

EmptyCache == [at |-> <<>>, latest |-> 0]

UpdatePriceCache(c, height, price) ==
    LET d == [h \in DOMAIN c.at \cup {height} |-> IF h = height THEN price ELSE c.at[h]]
        kept == IF Cardinality(DOMAIN d) > CacheSize THEN DOMAIN d \ {Min(DOMAIN d)} ELSE DOMAIN d
    IN  [at |-> Restrict(d, kept), latest |-> price]

\* Mutant: the entry goes, the price GetLatestPrice returns stays.
RemovePriceCache_KeepsLatest(c, height) ==
    [c EXCEPT !.at = Restrict(c.at, DOMAIN c.at \ {height})]

RemovePriceCache(c, height) ==
    LET left == DOMAIN c.at \ {height}
    IN  IF height \notin DOMAIN c.at THEN c
        ELSE [at |-> Restrict(c.at, left), latest |-> IF left = {} THEN 0 ELSE c.at[Max(left)]]

-----------------------------------------------------------------------------
(* LoadPricesFromChain.                                                    *)

PointAt(c, height) == [price |-> c[height].price, time |-> c[height].time, height |-> height]

\* The heights of the last n blocks of c, lowest first.
LastHeights(c, n) ==
    LET first == Max({1, Len(c) - n + 1})
    IN  [i \in 1..(Len(c) - first + 1) |-> first + i - 1]

\* The mints of the scanned blocks, at least an hour apart.
ScanHistory(c) ==
    FoldLeft(LAMBDA h, height :
                 IF /\ c[height].kind = "mint"
                    /\ h = <<>> \/ c[height].time - Last(h).time >= 3600
                 THEN Append(h, PointAt(c, height)) ELSE h,
             <<>>, LastHeights(c, ScanDepth))

\* ReconstructFromBlockData
RebuiltHistory(c) == CleanOldHistory(ScanHistory(c))

\* The prices of the blocks whose price is still in use, in their order on top
\* of cache d.
LoadedCache(c, d) ==
    FoldLeft(LAMBDA e, h : IF c[h].price > 0 THEN UpdatePriceCache(e, h, c[h].price) ELSE e,
             d, LastHeights(c, ValidityBlocks))

\* Publishes a complete scan of c.
LoadPrices(c, d) ==
    /\ hist' = RebuiltHistory(c)
    /\ freeze' = FreezeOf(RebuiltHistory(c))
    /\ cache' = LoadedCache(c, d)

-----------------------------------------------------------------------------
Init ==
    /\ chain = <<>>
    /\ hist = <<>> /\ freeze = NoFreeze
    /\ cache = EmptyCache
    /\ restore = IsThawDayActive(0)
    /\ pc = "loading" /\ stops = 0

Connects == pc = "running" \/ (pc = "loading" /\ ImportDuringInit)

\* Mutant: a mint is not stopped by the freeze, only by its own price.
MintAllowed_Frozen(height, price, h, f) ==
    IF IsThawDayActive(height) THEN ~ MintRestricted(height, price)
    ELSE ~ WouldCandidateFreezeMinting(h, price)

MintAllowed(height, price, h, f) ==
    IF IsThawDayActive(height) THEN ~ MintRestricted(height, price)
    ELSE ~ f.mint /\ ~ f.all /\ ~ WouldCandidateFreezeMinting(h, price)

\* skip: the node is in initial block download.
RedeemAllowed(height, skip) == IsThawDayActive(height) \/ skip \/ ~ freeze.all

ConnectBlock(o, gap, skip) ==
    LET height == Height + 1
        block == [price |-> o.price, kind |-> o.kind,
                  time |-> gap + IF chain = <<>> THEN 0 ELSE Last(chain).time]
    IN  /\ Connects /\ Height < MaxHeight
        /\ o.kind = "mint" => MintAllowed(height, o.price, hist, freeze)
        /\ o.kind = "redeem" => RedeemAllowed(height, skip)
        /\ chain' = Append(chain, block)
        /\ IF o.kind = "mint" /\ ~ IsThawDayActive(height)
           THEN RecordAcceptedMintVolatility(PointAt(chain', height)) ELSE UNCHANGED <<hist, freeze>>
        /\ cache' = IF o.price > 0 THEN UpdatePriceCache(cache, height, o.price) ELSE cache
        /\ UNCHANGED <<restore, pc, stops>>

\* PublishDisconnectedOracleState
CacheWithoutTip == IF Last(chain).price > 0 THEN RemovePriceCache(cache, Height) ELSE cache

DisconnectBlock ==
    /\ IF Last(chain).kind = "mint" /\ ~ IsThawDayActive(Height)
       THEN RemovePriceForHeight(Height) ELSE UNCHANGED <<hist, freeze>>
    /\ cache' = CacheWithoutTip

\* A node that started at Thaw Day reloads when it falls below it.
DisconnectTip ==
    LET reload == restore /\ ~ IsThawDayActive(Height - 1)
    IN  /\ Connects /\ chain # <<>>
        /\ chain' = Front(chain)
        /\ IF reload THEN LoadPrices(chain', CacheWithoutTip) ELSE DisconnectBlock
        /\ restore' = (restore /\ ~ reload)
        /\ UNCHANGED <<pc, stops>>

\* A stop, a crash, or a scan that was cancelled or could not read a block.  The
\* coins database may be behind the chain the process had reached.
Stop ==
    /\ pc # "off" /\ stops < MaxStops
    /\ \E kept \in 0..Height : chain' = SubSeq(chain, 1, kept)
    /\ hist' = <<>> /\ freeze' = NoFreeze
    /\ cache' = EmptyCache
    /\ restore' = FALSE /\ pc' = "off" /\ stops' = stops + 1

Start ==
    /\ pc = "off"
    /\ restore' = IsThawDayActive(Height) /\ pc' = "loading"
    /\ UNCHANGED <<chain, hist, freeze, cache, stops>>

LoadPricesFromChain ==
    /\ pc = "loading"
    /\ LoadPrices(chain, cache)
    /\ pc' = "running"
    /\ UNCHANGED <<chain, restore, stops>>

Next ==
    \/ \E o \in Offers, gap \in Gaps, skip \in BOOLEAN : ConnectBlock(o, gap, skip)
    \/ DisconnectTip \/ Stop \/ Start \/ LoadPricesFromChain

Spec == Init /\ [][Next]_vars

-----------------------------------------------------------------------------
(* Properties.                                                             *)

LegacyChain == SubSeq(chain, 1, Min({Height, ThawHeight - 1}))

\* The history that ConnectBlock and DisconnectBlock keep is the one a restart
\* would scan from the chain, until a node has more blocks than it scans:
\* LoadPricesFromChain is to "deterministically rebuild volatility state".
HistoryMatchesScan ==
    pc = "running" /\ ~ restore => hist = RebuiltHistory(LegacyChain)

\* The freeze state is a function of the price history, whatever order of
\* connects, reorganisations and restarts led to it: RecordPrice builds on the
\* state before, ReconstructFromBlockData and RemovePriceForHeight start afresh.
FreezeFollowsHistory == freeze = FreezeOf(hist)

\* cached_price, which GetLatestPrice returns, is the newest price in the cache,
\* and the cache holds prices of the active chain only.
CachedPriceIsNewest ==
    LET heights == DOMAIN cache.at
    IN  /\ \A h \in heights : h <= Height /\ cache.at[h] = chain[h].price
        /\ cache.latest = IF heights = {} THEN 0 ELSE cache.at[Max(heights)]

\* UpdateState runs only for blocks with an accepted mint and a freeze accepts
\* none, so no cooldown ends a freeze: it lasts as long as its block is in the
\* chain.
FreezeLastsWithItsBlock ==
    [][pc = "running" /\ pc' = "running" /\ freeze.mint /\ Len(chain') >= freeze.at
          => freeze' = freeze]_vars

\* A restart changes no verdict on the next mint: the freeze state rebuilt by
\* LoadPricesFromChain "is enforced as a consensus rule".
RestartKeepsVerdicts ==
    pc = "running" /\ ~ IsThawDayActive(Height + 1) =>
        \A o \in Offers : o.kind = "mint" =>
            (MintAllowed(Height + 1, o.price, hist, freeze) <=>
             MintAllowed(Height + 1, o.price, RebuiltHistory(chain), FreezeOf(RebuiltHistory(chain))))
=============================================================================
