---------------------------- MODULE HeadersWork ----------------------------
(***************************************************************************)
(* The target each proof-of-work algorithm has to meet next (MultiShield   *)
(* V4, src/src/pow.cpp), the work a block counts for (src/src/chain.cpp),  *)
(* and HeadersWorkState (src/src/headerssync.cpp), which counts the work   *)
(* of a chain of headers while it keeps only the latest of them.           *)
(*                                                                         *)
(* A chain is the sequence of its blocks from genesis; it also stands for  *)
(* the hash of its last block.  nBits is the target itself, small enough   *)
(* for the compact form to be exact.  Chains here are past                 *)
(* alwaysUpdateDiffChangeTarget, where the older retargeting rules end.    *)
(***************************************************************************)
EXTENDS Integers, FiniteSetsExt, SequencesExt

CONSTANTS
    Algos,               \* 0..NUM_ALGOS_IMPL-1
    OldAlgo, NewAlgo,    \* Groestl, replaced by Odocrypt
    NumAlgos,            \* NUM_ALGOS: how many are active at any height
    SwapHeight,          \* the first block that Odocrypt may mine
    AlgoLock,            \* height from which inactive algorithms are refused
    WorkChange,          \* workComputationChangeTarget
    AveragingInterval,   \* nAveragingInterval
    MedianTimeSpan,      \* nMedianTimeSpan
    TargetSpacing,       \* nTargetSpacing
    TargetTimespan,      \* nAveragingTargetTimespanV4
    MinTimespan, MaxTimespan,  \* nMinActualTimespanV4, nMaxActualTimespanV4
    LocalAdjustment,     \* nLocalTargetAdjustment, in percent
    PowLimit,            \* powLimit
    InitialTarget,       \* initialTarget, per algorithm
    WorkFactor,          \* GetAlgoWorkFactor, per algorithm
    MaxHash,             \* ~0: the largest hash
    NoBlock              \* nullptr

\* fPowAllowMinDifficultyBlocks and fEasyPow of a network.
Rules == {[min |-> FALSE, easy |-> FALSE], [min |-> TRUE, easy |-> FALSE],
          [min |-> TRUE, easy |-> TRUE]}

-----------------------------------------------------------------------------
(* Targets.  c is the part of the chain that is at hand: all of it, or the *)
(* latest blocks.                                                          *)

IsAlgoActive(height, a) == a # (IF height < SwapHeight THEN NewAlgo ELSE OldAlgo)

GetMedianTimePast(c, i) ==
    SortSeq([j \in 1..Min({i, MedianTimeSpan}) |-> c[i - j + 1].time], <)
        [Min({i, MedianTimeSpan}) \div 2 + 1]

\* A block so late that it may have the lowest difficulty.
IsLate(time, previous) == time > previous.time + 2 * TargetSpacing

LatestOf(c, S) == IF S = {} THEN NoBlock ELSE c[Max(S)]

\* The latest block of an algorithm that was not mined under that exception.
GetLastBlockIndexForAlgo(rules, c, a) ==
    LatestOf(c, {i \in DOMAIN c : /\ c[i].algo = a
                                  /\ ~ (rules.min /\ i > 1 /\ IsLate(c[i].time, c[i - 1]))})

\* C++ division, which rounds towards zero.
Quotient(x, y) == IF x < 0 THEN -((-x) \div y) ELSE x \div y

Within(x, low, high) == Max({low, Min({x, high})})

\* Mutant: absence makes it harder.
PerAlgo_Reversed(target, adjustments) ==
    LET Step(t, i) == IF adjustments < 0 THEN (t * 100) \div (100 + LocalAdjustment)
                      ELSE Min({PowLimit, (t * (100 + LocalAdjustment)) \div 100})
    IN  FoldLeft(Step, target, [i \in 1..Max({adjustments, -adjustments}) |-> i])

\* Each block since the algorithm's last one beyond NUM_ALGOS - 1 makes it
\* easier, each one short of that makes it harder.
PerAlgo(target, adjustments) ==
    LET Step(t, i) == IF adjustments > 0 THEN (t * 100) \div (100 + LocalAdjustment)
                      ELSE Min({PowLimit, (t * (100 + LocalAdjustment)) \div 100})
    IN  FoldLeft(Step, target, [i \in 1..Max({adjustments, -adjustments}) |-> i])

GetNextWorkRequiredV4(c, a, previous) ==
    LET first == Len(c) - NumAlgos * AveragingInterval
        span == GetMedianTimePast(c, Len(c)) - GetMedianTimePast(c, first)
        timespan == Within(TargetTimespan + Quotient(span - TargetTimespan, 4),
                           MinTimespan, MaxTimespan)
        global == (previous.bits * timespan) \div TargetTimespan
        adjustments == previous.height + NumAlgos - 1 - Last(c).height
    IN  IF previous = NoBlock \/ first < 1
        THEN InitialTarget[a]
        ELSE Min({PowLimit, PerAlgo(global, adjustments)})

GetNextWorkRequired(rules, c, time, a, previous) ==
    IF rules.min /\ (rules.easy \/ IsLate(time, Last(c)))
    THEN PowLimit
    ELSE GetNextWorkRequiredV4(c, a, previous)

-----------------------------------------------------------------------------
(* Work.                                                                   *)

Root(t) == CHOOSE r \in 0..t : r ^ NumAlgos <= t /\ (r + 1) ^ NumAlgos > t
Proof(target) == (MaxHash - target) \div (target + 1) + 1

\* GetBlockProof of header h on top of c, where previous[a] is the latest block
\* of each algorithm: from WorkChange on the scaled geometric mean over the
\* algorithms that are active, whichever of them mined the block.
GetBlockProof(rules, c, h, previous) ==
    LET height == Last(c).height + 1
        active == {a \in Algos : IsAlgoActive(height, a)}
        required(a) == GetNextWorkRequired(rules, c, h.time, a, previous[a])
    IN  IF height < WorkChange THEN Proof(h.bits) * WorkFactor[h.algo]
        ELSE 2 ^ 7 * Proof(MapThenFoldSet(LAMBDA x, y : x * y, 1, LAMBDA a : Root(required(a)),
                                          LAMBDA S : CHOOSE a \in S : TRUE, active))

\* What validation makes of h on top of the whole chain c: whether its target is
\* the required one (ContextualCheckBlockHeader; the target that the older rules
\* require before WorkChange is taken as met) and the work it adds.
History(rules, c) == [a \in Algos |-> GetLastBlockIndexForAlgo(rules, c, a)]
IsRequired(rules, c, h) ==
    /\ h.bits \in 1..PowLimit
    /\ Last(c).height + 1 >= AlgoLock => IsAlgoActive(Last(c).height + 1, h.algo)
    /\ Last(c).height + 1 >= WorkChange =>
         h.bits = GetNextWorkRequired(rules, c, h.time, h.algo, History(rules, c)[h.algo])
WorkOf(rules, c, h) == GetBlockProof(rules, c, h, History(rules, c))

-----------------------------------------------------------------------------
(* HeadersWorkState: the latest HistoryLimit blocks, the latest block of   *)
(* each algorithm, and which of those have been looked up.                 *)

\* Mutant: one block too few.
HistoryLimit_Short == NumAlgos * AveragingInterval + MedianTimeSpan - 1

\* HISTORY: the averaging window and the medians at both its ends.
HistoryLimit == NumAlgos * AveragingInterval + MedianTimeSpan

Latest(c, n) == SubSeq(c, Max({1, Len(c) - n + 1}), Len(c))

NewHeadersWorkState(start) ==
    [recent |-> Latest(start, HistoryLimit),
     previous |-> [a \in Algos |-> NoBlock], initialized |-> {}]

\* The algorithms that h needs: looked up from the start of the sync when that
\* has not been done yet, which scans as far back as it takes.
Seeded(rules, w, start, h) ==
    LET height == Last(w.recent).height + 1
        easiest == rules.min /\ (rules.easy \/ IsLate(h.time, Last(w.recent)))
        needed == IF height < WorkChange \/ easiest THEN {}
                  ELSE {a \in Algos : IsAlgoActive(height, a) \/ a = h.algo}
    IN  [w EXCEPT !.initialized = @ \cup needed,
                  !.previous = [a \in Algos |-> IF a \in needed \ w.initialized
                                                THEN GetLastBlockIndexForAlgo(rules, start, a)
                                                ELSE @[a]]]

\* h becomes the latest block of its algorithm, unless it is a late one.
Recorded(rules, w, h) ==
    IF rules.min /\ IsLate(h.time, Last(w.recent)) THEN w
    ELSE [w EXCEPT !.previous[h.algo] = h, !.initialized = @ \cup {h.algo}]

Uncounted(w) == [ok |-> FALSE, work |-> 0, state |-> w]

\* h with the algorithms it needs looked up in s: its target must be the required
\* one before it counts.
Counted(rules, s, h) ==
    IF /\ Last(s.recent).height + 1 >= WorkChange
       /\ h.bits # GetNextWorkRequired(rules, s.recent, h.time, h.algo, s.previous[h.algo])
    THEN Uncounted(s)
    ELSE [ok |-> TRUE,
          work |-> GetBlockProof(rules, s.recent, h, s.previous),
          state |-> [Recorded(rules, s, h) EXCEPT
                       !.recent = Latest(Append(@, h), HistoryLimit)]]

\* AddHeader: whether h is counted, the work it counts for and the state after.
\* A header that is refused may still have looked up an algorithm.
AddHeader(rules, w, start, h) ==
    LET height == Last(w.recent).height + 1
    IN  IF \/ h.bits \notin 1..PowLimit
           \/ height >= AlgoLock /\ ~ IsAlgoActive(height, h.algo)
        THEN Uncounted(w)
        ELSE Counted(rules, Seeded(rules, w, start, h), h)
=============================================================================
