------------------------- MODULE OraclePricesProofs -------------------------
(***************************************************************************)
(* What a node remembers of the oracle prices, for every chain, every      *)
(* order of connects, reorganisations and restarts and every limit on the  *)
(* history and the cache.                                                  *)
(***************************************************************************)
EXTENDS OraclePrices, FoldFacts

\* Most steps are first-order reasoning, which Zenon does; the others name SMT.
USE Zenon

Block == [price : Nat, kind : Kinds, time : Nat]
Point == [price : Nat, time : Nat, height : Nat]

-----------------------------------------------------------------------------
(* The history.                                                            *)

\* A non-empty set of indices has a first one.
LEMMA MinIn ==
  ASSUME NEW n \in Nat, NEW s \in SUBSET (1..n), s # {}
  PROVE  Min(s) \in s /\ \A y \in s : Min(s) <= y
<1> DEFINE r == {n + 1 - x : x \in s}
<1>1. r \in SUBSET (1..n) /\ r # {}
  <2>1. \A x \in s : x \in Int /\ n + 1 - x \in 1..n
    BY SMT
  <2>2. QED  BY <2>1
<1>2. Max(r) \in r /\ \A y \in r : Max(r) >= y
  <2> HIDE DEF r
  <2>1. QED  BY <1>1, MaxIn
<1>3. PICK x \in s : Max(r) = n + 1 - x
  BY <1>2
<1>4. \A y \in s : x <= y
  <2>1. ASSUME NEW y \in s PROVE x <= y
    <3>1. n + 1 - y \in r
      OBVIOUS
    <3>2. n + 1 - x >= n + 1 - y
      BY <1>2, <1>3, <3>1
    <3>3. x \in Int /\ y \in Int
      BY SMT
    <3>4. QED  BY <3>2, <3>3, SMT
  <2>2. QED  BY <2>1
<1>5. QED  BY <1>4 DEF Min

\* The window of the newest price ends with it.
LEMMA WindowIs ==
  ASSUME NEW h \in Seq(Point), NEW seconds \in Nat
  PROVE  /\ InWindow(h, seconds) \in Seq(Point)
         /\ h # <<>> => InWindow(h, seconds) # <<>> /\ Last(InWindow(h, seconds)) = Last(h)
<1> DEFINE n == Len(h)
           young == {i \in 1..(n + 1) : \A j \in i..n : h[j].time >= h[n].time - seconds}
           w == SubSeq(h, Min(young), n)
<1>1. n \in Nat /\ \A i \in 1..n : h[i] \in Point
  BY SMT
<1>2. InWindow(h, seconds) = w
  BY DEF InWindow, Last
<1>3. young \in SUBSET (1..(n + 1)) /\ n + 1 \in young
  BY <1>1, SMT
<1>4. Min(young) \in young /\ \A y \in young : Min(young) <= y
  <2>1. young # {} /\ n + 1 \in Nat
    BY <1>1, <1>3, SMT
  <2> HIDE DEF young, n
  <2>2. QED  BY <1>3, <2>1, MinIn
<1>5. Min(young) \in 1..(n + 1)
  BY <1>3, <1>4
<1>6. w \in Seq(Point)
  <2> HIDE DEF young
  <2>1. QED  BY <1>1, <1>5, SMT
<1>7. ASSUME h # <<>> PROVE w # <<>> /\ Last(w) = h[n]
  <2>1. n \in 1..n
    BY <1>1, <1>7, SMT
  <2>2. h[n].time >= h[n].time - seconds
    BY <1>1, <2>1, SMT DEF Point
  <2>3. \A j \in n..n : j = n
    BY <1>1, SMT
  <2>4. n \in young
    BY <1>1, <2>1, <2>2, <2>3, SMT
  <2>5. Min(young) <= n
    BY <1>4, <2>4
  <2> HIDE DEF young
  <2>6. Len(w) = n - Min(young) + 1 /\ Len(w) >= 1 /\ w[Len(w)] = h[n]
    BY <1>1, <1>5, <2>1, <2>5, SMT
  <2>7. w # <<>>
    <3> HIDE DEF w
    <3>1. QED  BY <2>6, SMT
  <2>8. QED  BY <2>6, <2>7 DEF Last
<1>8. QED  BY <1>2, <1>6, <1>7 DEF Last

\* ... and so does what CleanOldHistory keeps.
LEMMA CleanIs ==
  ASSUME NEW h \in Seq(Point)
  PROVE  /\ CleanOldHistory(h) \in Seq(Point)
         /\ h # <<>> => CleanOldHistory(h) # <<>> /\ Last(CleanOldHistory(h)) = Last(h)
<1> DEFINE w == InWindow(h, MaxAge)
           n == Len(w)
           first == Max({1, n - MaxPoints + 1})
           k == SubSeq(w, first, n)
<1>1. w \in Seq(Point) /\ (h # <<>> => w # <<>> /\ Last(w) = Last(h))
  BY WindowIs, LimitsAssumption
<1>2. CleanOldHistory(h) = k
  BY DEF CleanOldHistory
<1> HIDE DEF w
<1>3. n \in Nat /\ MaxPoints \in Nat /\ MaxPoints >= 1
  BY <1>1, LimitsAssumption, SMT
<1>4. first = IF n - MaxPoints + 1 >= 1 THEN n - MaxPoints + 1 ELSE 1
  <2> HIDE DEF n
  <2>1. QED  BY <1>3, SMT DEF Max
<1>5. first \in Nat /\ first >= 1 /\ (n >= 1 => first <= n)
  BY <1>3, <1>4, SMT
<1> HIDE DEF first
<1>6. k \in Seq(Point)
  BY <1>1, <1>3, <1>5, SMT
<1>7. ASSUME h # <<>> PROVE k # <<>> /\ Last(k) = Last(w)
  <2>1. n >= 1
    BY <1>1, <1>7, SMT
  <2>2. Len(k) = n - first + 1 /\ Len(k) >= 1 /\ k[Len(k)] = w[n]
    BY <1>1, <1>3, <1>5, <2>1, SMT
  <2>3. k # <<>>
    <3> HIDE DEF k
    <3>1. QED  BY <2>2, SMT
  <2>4. QED  BY <2>2, <2>3 DEF Last
<1>8. QED  BY <1>1, <1>2, <1>6, <1>7

\* What is left of the first k points.
KeepStep(kept, p, height) == IF p.height = height THEN kept ELSE Append(kept, p)

KeepChain(g, h, height) ==
    /\ g \in [0..Len(h) -> Seq(Point)]
    /\ g[0] = <<>>
    /\ \A k \in 1..Len(h) : g[k] = KeepStep(g[k - 1], h[k], height)

LEMMA WithoutSteps ==
  ASSUME NEW h \in Seq(Point), NEW height
  PROVE  \E g : KeepChain(g, h, height) /\ WithoutHeight(h, height) = g[Len(h)]
<1> DEFINE n == Len(h)
           D == 1..n
           V == Seq(Point)
           G == [p \in D \X V |-> KeepStep(p[2], h[p[1]], height)]
           Rec(it) == it = [s \in SUBSET D |-> IF s = {} THEN <<>>
                                              ELSE KeepStep(it[s \ {Max(s)}], h[Max(s)], height)]
           it == CHOOSE it : Rec(it)
<1>1. n \in Nat /\ DOMAIN h = D /\ \A i \in D : h[i] \in Point
  BY SMT
<1>2. \A i \in D, q \in V : KeepStep(q, h[i], height) \in V
  BY <1>1, SMT DEF KeepStep
<1>3. PICK f : SeqFold(f, n, V, <<>>, G)
  <2>1. G \in [(1..n) \X V -> V] /\ <<>> \in V
    BY <1>2, SMT
  <2> HIDE DEF G, n, V
  <2>2. QED  BY <1>1, <2>1, SeqFoldExists
<1>4. Rec(f)
  BY <1>3 DEF SeqFold
<1>5. Rec(it)
  BY <1>4
<1>6. WithoutHeight(h, height) = it[D]
  BY <1>1 DEF WithoutHeight, FoldLeft, MapThenFoldSet, KeepStep
<1> HIDE DEF it
<1>7. it[{}] = <<>> /\ \A k \in D : it[1..k] = KeepStep(it[1..(k - 1)], h[k], height)
  <2>1. ASSUME NEW k \in D PROVE it[1..k] = KeepStep(it[1..(k - 1)], h[k], height)
    <3>1. Max(1..k) = k /\ (1..k) \ {k} = 1..(k - 1) /\ 1..k # {} /\ 1..k \in SUBSET D
      BY <1>1, Prefix
    <3>2. QED  BY <1>5, <3>1
  <2>2. QED  BY <1>5, <2>1
<1> HIDE DEF n
<1>8. it[{}] \in V /\ \A k \in D : it[1..(k - 1)] \in V => it[1..k] \in V
  BY <1>2, <1>7, SMT
<1> HIDE DEF V
<1>9. PICK g : Chain(g, n, V, it) /\ g[0] = it[{}]
  BY <1>1, <1>8, FoldChain
<1>10. g \in [0..n -> V] /\ g[0] = <<>> /\ WithoutHeight(h, height) = g[n]
  BY <1>1, <1>6, <1>7, <1>9, SMT DEF Chain
<1>11. \A k \in 1..n : g[k] = KeepStep(g[k - 1], h[k], height)
  <2>1. ASSUME NEW k \in 1..n PROVE g[k] = KeepStep(g[k - 1], h[k], height)
    <3>1. k \in 0..n /\ k - 1 \in 0..n
      BY <1>1, SMT
    <3>2. g[k] = it[1..k] /\ g[k - 1] = it[1..(k - 1)]
      BY <1>9, <3>1 DEF Chain
    <3>3. QED  BY <1>7, <3>2
  <2>2. QED  BY <2>1
<1>12. QED  BY <1>10, <1>11 DEF n, V, KeepChain

\* Removing a height leaves a history.
LEMMA WithoutType ==
  ASSUME NEW h \in Seq(Point), NEW height
  PROVE  WithoutHeight(h, height) \in Seq(Point)
<1>1. PICK g : KeepChain(g, h, height) /\ WithoutHeight(h, height) = g[Len(h)]
  BY WithoutSteps
<1>2. Len(h) \in 0..Len(h)
  BY SMT
<1>3. QED  BY <1>1, <1>2 DEF KeepChain

\* The heights of the last n blocks.
FirstOf(c, n) == IF Len(c) - n + 1 >= 1 THEN Len(c) - n + 1 ELSE 1

LEMMA HeightsAre ==
  ASSUME NEW c \in Seq(Block), NEW n \in Nat
  PROVE  /\ FirstOf(c, n) \in 1..(Len(c) + 1)
         /\ LastHeights(c, n) = [i \in 1..(Len(c) - FirstOf(c, n) + 1) |-> FirstOf(c, n) + i - 1]
<1>1. Len(c) \in Nat
  BY SMT
<1>2. Max({1, Len(c) - n + 1}) = FirstOf(c, n)
  BY <1>1, SMT DEF Max, FirstOf
<1>3. FirstOf(c, n) \in 1..(Len(c) + 1)
  BY <1>1, SMT DEF FirstOf
<1>4. QED  BY <1>2, <1>3 DEF LastHeights

\* One block of the scan.
ScanStep(h, c, height) ==
    IF /\ c[height].kind = "mint"
       /\ h = <<>> \/ c[height].time - Last(h).time >= 3600
    THEN Append(h, PointAt(c, height)) ELSE h

ScanChain(g, c) ==
    /\ g \in [0..(Len(c) - FirstOf(c, ScanDepth) + 1) -> Seq(Point)]
    /\ g[0] = <<>>
    /\ \A k \in 1..(Len(c) - FirstOf(c, ScanDepth) + 1) :
          g[k] = ScanStep(g[k - 1], c, FirstOf(c, ScanDepth) + k - 1)

LEMMA ScanSteps ==
  ASSUME NEW c \in Seq(Block)
  PROVE  \E g : ScanChain(g, c) /\ ScanHistory(c) = g[Len(c) - FirstOf(c, ScanDepth) + 1]
<1> DEFINE a == FirstOf(c, ScanDepth)
           n == Len(c) - a + 1
           D == 1..n
           V == Seq(Point)
           q == LastHeights(c, ScanDepth)
           G == [p \in D \X V |-> ScanStep(p[2], c, q[p[1]])]
           Rec(it) == it = [s \in SUBSET D |-> IF s = {} THEN <<>>
                                              ELSE ScanStep(it[s \ {Max(s)}], c, q[Max(s)])]
           it == CHOOSE it : Rec(it)
<1>1. Len(c) \in Nat /\ a \in 1..(Len(c) + 1) /\ q = [i \in 1..n |-> a + i - 1]
  <2>1. ScanDepth \in Nat
    BY LimitsAssumption
  <2>2. a \in 1..(Len(c) + 1) /\ q = [i \in 1..n |-> a + i - 1]
    BY <2>1, HeightsAre
  <2>3. QED  BY <2>2, SMT
<1> HIDE DEF a
<1>2. n \in Nat /\ DOMAIN q = D /\ \A i \in D : q[i] = a + i - 1 /\ q[i] \in 1..Len(c)
  BY <1>1, SMT
<1>3. \A i \in D, h \in V : ScanStep(h, c, q[i]) \in V
  <2>1. \A x \in 1..Len(c) : PointAt(c, x) \in Point
    <3>1. \A x \in 1..Len(c) : c[x] \in Block /\ x \in Nat
      BY <1>1, SMT
    <3>2. QED  BY <3>1 DEF PointAt, Point, Block
  <2> HIDE DEF q
  <2>2. QED  BY <1>2, <2>1, SMT DEF ScanStep
<1> HIDE DEF q
<1>4. PICK f : SeqFold(f, n, V, <<>>, G)
  <2>1. G \in [(1..n) \X V -> V] /\ <<>> \in V
    BY <1>3, SMT
  <2> HIDE DEF G, n, V
  <2>2. QED  BY <1>2, <2>1, SeqFoldExists
<1>5. Rec(f)
  BY <1>4 DEF SeqFold
<1>6. Rec(it)
  BY <1>5
<1>7. ScanHistory(c) = it[D]
  BY <1>2, SMT DEF ScanHistory, FoldLeft, MapThenFoldSet, ScanStep, q
<1> HIDE DEF it
<1>8. it[{}] = <<>> /\ \A k \in D : it[1..k] = ScanStep(it[1..(k - 1)], c, q[k])
  <2>1. ASSUME NEW k \in D PROVE it[1..k] = ScanStep(it[1..(k - 1)], c, q[k])
    <3>1. Max(1..k) = k /\ (1..k) \ {k} = 1..(k - 1) /\ 1..k # {} /\ 1..k \in SUBSET D
      BY <1>2, Prefix
    <3>2. QED  BY <1>6, <3>1
  <2>2. QED  BY <1>6, <2>1
<1> HIDE DEF n
<1>9. it[{}] \in V /\ \A k \in D : it[1..(k - 1)] \in V => it[1..k] \in V
  BY <1>3, <1>8, SMT
<1> HIDE DEF V
<1>10. PICK g : Chain(g, n, V, it) /\ g[0] = it[{}]
  BY <1>2, <1>9, FoldChain
<1>11. g \in [0..n -> V] /\ g[0] = <<>> /\ ScanHistory(c) = g[n]
  BY <1>2, <1>7, <1>8, <1>10, SMTT(30) DEF Chain
<1>12. \A k \in 1..n : g[k] = ScanStep(g[k - 1], c, a + k - 1)
  <2>1. ASSUME NEW k \in 1..n PROVE g[k] = ScanStep(g[k - 1], c, a + k - 1)
    <3>1. k \in 0..n /\ k - 1 \in 0..n /\ q[k] = a + k - 1
      BY <1>2, SMT
    <3>2. g[k] = it[1..k] /\ g[k - 1] = it[1..(k - 1)]
      BY <1>10, <3>1 DEF Chain
    <3>3. QED  BY <1>8, <3>1, <3>2
  <2>2. QED  BY <2>1
<1>13. QED  BY <1>11, <1>12 DEF n, a, V, ScanChain

\* A scan makes a history.
LEMMA RebuiltType ==
  ASSUME NEW c \in Seq(Block)
  PROVE  RebuiltHistory(c) \in Seq(Point)
<1> DEFINE n == Len(c) - FirstOf(c, ScanDepth) + 1
<1>1. PICK g : ScanChain(g, c) /\ ScanHistory(c) = g[n]
  BY ScanSteps
<1>2. Len(c) \in Nat /\ FirstOf(c, ScanDepth) \in 1..(Len(c) + 1)
  <2>1. ScanDepth \in Nat
    BY LimitsAssumption, SMT
  <2>2. FirstOf(c, ScanDepth) \in 1..(Len(c) + 1)
    BY <2>1, HeightsAre
  <2>3. QED  BY <2>2, SMT
<1>3. n \in 0..n
  BY <1>2, SMT
<1>4. ScanHistory(c) \in Seq(Point)
  BY <1>1, <1>3 DEF ScanChain
<1>5. QED  BY <1>4, CleanIs DEF RebuiltHistory

-----------------------------------------------------------------------------
(* The freeze state.                                                       *)

\* The prices of history h call for a freeze of everything, or of mints.
FreezesAll(h) ==
    VolatilityBps(h, Day) >= FREEZE_ALL_24H_BPS \/ VolatilityBps(h, Week) >= EMERGENCY_7D_BPS
FreezesMint(h) == VolatilityBps(h, Hour) >= FREEZE_MINT_1H_BPS
Calm(h) ==
    /\ VolatilityBps(h, Hour) < WARNING_1H_BPS
    /\ VolatilityBps(h, Day) < FREEZE_MINT_1H_BPS
    /\ VolatilityBps(h, Week) < FREEZE_ALL_24H_BPS

Frozen(all, height) == [mint |-> TRUE, all |-> all, at |-> height, until |-> height + Cooldown]

\* What a monitor without a freeze computes from history h.
Fresh(h, height) ==
    IF FreezesAll(h) THEN Frozen(TRUE, height)
    ELSE IF FreezesMint(h) THEN Frozen(FALSE, height) ELSE NoFreeze

LEMMA StateIs ==
  ASSUME NEW h, NEW f, NEW height
  PROVE  UpdateState(h, f, height) =
           LET g == IF FreezesAll(h) /\ ~ f.all THEN Frozen(TRUE, height)
                    ELSE IF FreezesMint(h) /\ ~ f.mint THEN Frozen(FALSE, height) ELSE f
           IN  IF (g.mint \/ g.all) /\ height > g.until /\ Calm(h) THEN NoFreeze ELSE g
  BY DEF UpdateState, FreezesAll, FreezesMint, Calm, Frozen

\* A freeze does not end at the height of its cause.
LEMMA FreshState ==
  ASSUME NEW h, NEW height \in Nat
  PROVE  /\ UpdateState(h, NoFreeze, height) = Fresh(h, height)
         /\ UpdateState(h, Fresh(h, height), height) = Fresh(h, height)
<1>1. ~ (height > height + Cooldown)
  BY LimitsAssumption, SMT
<1>2. /\ \A b \in BOOLEAN : /\ Frozen(b, height).mint = TRUE /\ Frozen(b, height).all = b
                             /\ Frozen(b, height).until = height + Cooldown
      /\ NoFreeze.mint = FALSE /\ NoFreeze.all = FALSE
  BY DEF Frozen, NoFreeze
<1>3. UpdateState(h, NoFreeze, height) = Fresh(h, height)
  BY <1>1, <1>2, StateIs DEF Fresh
<1>4. UpdateState(h, Fresh(h, height), height) = Fresh(h, height)
  BY <1>1, <1>2, StateIs DEF Fresh
<1>5. QED  BY <1>3, <1>4

LEMMA FreezeIs ==
  ASSUME NEW h \in Seq(Point)
  PROVE  /\ h # <<>> => Last(h).height \in Nat /\ FreezeOf(h) = Fresh(h, Last(h).height)
         /\ ~ FreezeOf(h).mint => FreezeOf(h) = NoFreeze
<1>1. ASSUME h # <<>>
      PROVE  /\ Last(h).height \in Nat /\ FreezeOf(h) = Fresh(h, Last(h).height)
             /\ ~ FreezeOf(h).mint => FreezeOf(h) = NoFreeze
  <2>1. Last(h) \in Point
    BY <1>1, SMT DEF Last
  <2>2. Last(h).height \in Nat
    BY <2>1 DEF Point
  <2>3. FreezeOf(h) = Fresh(h, Last(h).height)
    BY <1>1, <2>2, FreshState DEF FreezeOf, UpdateVolatilityState
  <2>4. QED  BY <2>2, <2>3, SMT DEF Fresh, Frozen
<1>2. h = <<>> => FreezeOf(h) = NoFreeze
  BY DEF FreezeOf
<1>3. QED  BY <1>1, <1>2

\* RecordAcceptedMintVolatility leaves the freeze state of the history it
\* leaves, when there was no freeze before.
LEMMA RecordIs ==
  ASSUME hist \in Seq(Point), freeze = NoFreeze, freeze = FreezeOf(hist),
         NEW p \in Point, RecordAcceptedMintVolatility(p)
  PROVE  hist' \in Seq(Point) /\ freeze' = FreezeOf(hist')
<1>1. CASE TooRecent(hist, p.time)
  <2>1. hist' = hist /\ freeze' = UpdateState(hist, NoFreeze, p.height)
    BY <1>1 DEF RecordAcceptedMintVolatility, RecordPrice
  <2>2. hist # <<>>
    BY <1>1 DEF TooRecent
  <2>3. Fresh(hist, Last(hist).height) = NoFreeze
    BY <2>2, FreezeIs
  <2>4. ~ FreezesAll(hist) /\ ~ FreezesMint(hist)
    BY <2>3 DEF Fresh, Frozen, NoFreeze
  <2>5. Fresh(hist, p.height) = NoFreeze
    BY <2>4 DEF Fresh
  <2>6. p.height \in Nat
    BY DEF Point
  <2>7. QED  BY <2>1, <2>5, <2>6, FreshState
<1>2. CASE ~ TooRecent(hist, p.time)
  <2> DEFINE l == CleanOldHistory(Append(hist, p))
  <2>1. Append(hist, p) \in Seq(Point) /\ Append(hist, p) # <<>> /\ Last(Append(hist, p)) = p
    BY SMT DEF Last
  <2>2. l \in Seq(Point) /\ l # <<>> /\ Last(l) = p
    BY <2>1, CleanIs
  <2>3. hist' = l /\ freeze' = UpdateState(l, UpdateVolatilityState(l, NoFreeze), p.height)
    BY <1>2 DEF RecordAcceptedMintVolatility, RecordPrice
  <2> HIDE DEF l
  <2>4. UpdateVolatilityState(l, NoFreeze) = UpdateState(l, NoFreeze, p.height)
    BY <2>2 DEF UpdateVolatilityState
  <2>5. p.height \in Nat
    BY SMT DEF Point
  <2>6. QED  BY <2>2, <2>3, <2>4, <2>5, FreshState, FreezeIs
<1>3. QED  BY <1>1, <1>2

-----------------------------------------------------------------------------
(* The price cache.                                                        *)

\* Caches of prices at heights up to n.
CacheSet(n) == UNION {[at : [S -> Nat], latest : Nat] : S \in SUBSET (1..n)}

\* All prices in e are prices of chain c ...
Sourced(c, e) ==
    /\ e \in CacheSet(Len(c))
    /\ \A h \in DOMAIN e.at : e.at[h] = c[h].price /\ c[h].price > 0

\* ... and the latest is that of the highest.
Newest(e) == e.latest = IF DOMAIN e.at = {} THEN 0 ELSE e.at[Max(DOMAIN e.at)]

LEMMA CacheShape ==
  ASSUME NEW n \in Nat, NEW e \in CacheSet(n)
  PROVE  /\ DOMAIN e.at \in SUBSET (1..n) /\ IsFiniteSet(DOMAIN e.at)
         /\ e.at \in [DOMAIN e.at -> Nat] /\ e.latest \in Nat
         /\ e = [at |-> e.at, latest |-> e.latest]
<1>1. PICK S \in SUBSET (1..n) : e \in [at : [S -> Nat], latest : Nat]
  BY DEF CacheSet
<1>2. IsFiniteSet(1..n)
  BY FS_Interval, SMT
<1>3. DOMAIN e.at = S
  BY <1>1
<1>4. IsFiniteSet(S)
  BY <1>2, FS_Subset
<1>5. QED  BY <1>1, <1>3, <1>4

LEMMA CacheMade ==
  ASSUME NEW n \in Nat, NEW S \in SUBSET (1..n), NEW a \in [S -> Nat], NEW l \in Nat
  PROVE  [at |-> a, latest |-> l] \in CacheSet(n)
<1>1. [at |-> a, latest |-> l] \in [at : [S -> Nat], latest : Nat]
  OBVIOUS
<1>2. QED  BY <1>1 DEF CacheSet

\* UpdatePriceCache keeps what it adds unless something higher is there.
LEMMA PutIs ==
  ASSUME NEW c \in Seq(Block), NEW e, Sourced(c, e), NEW h \in 1..Len(c), c[h].price > 0,
         NEW r, r = UpdatePriceCache(e, h, c[h].price)
  PROVE  /\ Sourced(c, r) /\ r.latest = c[h].price
         /\ (\A x \in DOMAIN e.at : x <= h) => h \in DOMAIN r.at
<1> DEFINE n == Len(c)
           D == DOMAIN e.at \cup {h}
           d == [x \in D |-> IF x = h THEN c[h].price ELSE e.at[x]]
           K == IF Cardinality(D) > CacheSize THEN D \ {Min(D)} ELSE D
<1>1. n \in Nat /\ c[h].price \in Nat
  <2>1. Len(c) \in Nat /\ c[h] \in Block
    BY SMT
  <2>2. QED  BY <2>1 DEF Block
<1>2. /\ DOMAIN e.at \in SUBSET (1..n) /\ e.at \in [DOMAIN e.at -> Nat]
      /\ \A x \in DOMAIN e.at : e.at[x] = c[x].price /\ c[x].price > 0
  BY <1>1, CacheShape DEF Sourced
<1>3. DOMAIN d = D
  OBVIOUS
<1>4. r = [at |-> [x \in K |-> d[x]], latest |-> c[h].price]
  BY <1>3 DEF UpdatePriceCache, Restrict
<1>5. K \in SUBSET D /\ D \in SUBSET (1..n)
  BY <1>2
<1>6. \A x \in D : d[x] = c[x].price /\ d[x] > 0 /\ d[x] \in Nat
  BY <1>1, <1>2
<1>7. ASSUME \A x \in DOMAIN e.at : x <= h PROVE h \in K
  <2>1. CASE Cardinality(D) > CacheSize
    <3>1. Min(D) \in D /\ \A y \in D : Min(D) <= y
      <4>1. D # {}
        OBVIOUS
      <4> HIDE DEF D
      <4>2. QED  BY <1>1, <1>5, <4>1, MinIn
    <3>2. ASSUME Min(D) = h PROVE FALSE
      <4>1. ASSUME NEW y \in D PROVE y = h
        <5>1. y \in 1..n /\ y <= h
          BY <1>2, <1>7, SMT
        <5>2. h <= y
          BY <3>1, <3>2
        <5>3. QED  BY <1>1, <5>1, <5>2, SMT
      <4>2. D = {h}
        BY <4>1
      <4>3. Cardinality(D) = 1
        BY <4>2, FS_Singleton
      <4>4. QED  BY <2>1, <4>3, LimitsAssumption, SMT
    <3>3. QED  BY <3>2
  <2>2. CASE ~ (Cardinality(D) > CacheSize)
    BY <2>2
  <2>3. QED  BY <2>1, <2>2
<1> HIDE DEF K, d, D
<1>8. [x \in K |-> d[x]] \in [K -> Nat]
  BY <1>5, <1>6
<1>9. r \in CacheSet(n)
  <2>1. K \in SUBSET (1..n)
    BY <1>5
  <2>2. QED  BY <1>1, <1>4, <1>8, <2>1, CacheMade
<1>10. DOMAIN r.at = K /\ r.latest = c[h].price /\ \A x \in K : r.at[x] = d[x]
  BY <1>4, SMT
<1>11. \A x \in K : r.at[x] = c[x].price /\ c[x].price > 0
  BY <1>5, <1>6, <1>10
<1>12. QED  BY <1>7, <1>9, <1>10, <1>11 DEF Sourced

\* The highest price is the latest.
LEMMA TopIsNewest ==
  ASSUME NEW c \in Seq(Block), NEW e, Sourced(c, e), NEW h \in DOMAIN e.at,
         \A x \in DOMAIN e.at : x <= h, e.latest = c[h].price
  PROVE  Newest(e)
<1>1. Len(c) \in Nat /\ DOMAIN e.at \in SUBSET (1..Len(c)) /\ DOMAIN e.at # {}
  BY CacheShape, SMT DEF Sourced
<1>2. Max(DOMAIN e.at) \in DOMAIN e.at /\ \A y \in DOMAIN e.at : Max(DOMAIN e.at) >= y
  BY <1>1, MaxIn
<1>3. Max(DOMAIN e.at) = h
  BY <1>1, <1>2, SMT
<1>4. QED  BY <1>1, <1>3 DEF Newest, Sourced

\* The chain grows.
LEMMA GrowIs ==
  ASSUME NEW c \in Seq(Block), NEW b \in Block, NEW e, Sourced(c, e)
  PROVE  Sourced(Append(c, b), e)
<1> DEFINE z == Append(c, b)
<1>1. Len(c) \in Nat /\ Len(z) = Len(c) + 1 /\ \A x \in 1..Len(c) : z[x] = c[x]
  BY SMT
<1>2. /\ DOMAIN e.at \in SUBSET (1..Len(c)) /\ e.at \in [DOMAIN e.at -> Nat] /\ e.latest \in Nat
      /\ e = [at |-> e.at, latest |-> e.latest]
  BY <1>1, CacheShape DEF Sourced
<1>3. DOMAIN e.at \in SUBSET (1..Len(z)) /\ Len(z) \in Nat
  BY <1>1, <1>2, SMT
<1> HIDE DEF z
<1>4. e \in CacheSet(Len(z))
  BY <1>2, <1>3, CacheMade
<1>5. \A x \in DOMAIN e.at : e.at[x] = z[x].price /\ z[x].price > 0
  BY <1>1, <1>2 DEF Sourced
<1>6. Sourced(z, e)
  BY <1>4, <1>5 DEF Sourced
<1>7. QED  BY <1>6 DEF z

\* The chain below the tip.
LEMMA FrontIs ==
  ASSUME NEW c \in Seq(Block), c # <<>>
  PROVE  /\ Len(c) \in Nat /\ Len(c) >= 1 /\ Front(c) = SubSeq(c, 1, Len(c) - 1)
         /\ Front(c) \in Seq(Block) /\ Len(Front(c)) = Len(c) - 1
         /\ \A x \in 1..(Len(c) - 1) : Front(c)[x] = c[x]
  BY SMT DEF Front

\* The tip goes, and its price with it.
LEMMA DropIs ==
  ASSUME NEW c \in Seq(Block), c # <<>>, NEW e, Sourced(c, e), Newest(e),
         NEW r, r = IF Last(c).price > 0 THEN RemovePriceCache(e, Len(c)) ELSE e
  PROVE  Front(c) \in Seq(Block) /\ Sourced(Front(c), r) /\ Newest(r)
<1> DEFINE n == Len(c)
           z == Front(c)
           left == DOMAIN e.at \ {n}
<1>1. n \in Nat /\ n >= 1 /\ z \in Seq(Block) /\ Len(z) = n - 1 /\ \A x \in 1..(n - 1) : z[x] = c[x]
  BY FrontIs
<1>2. /\ DOMAIN e.at \in SUBSET (1..n) /\ e.at \in [DOMAIN e.at -> Nat] /\ e.latest \in Nat
      /\ e = [at |-> e.at, latest |-> e.latest]
      /\ \A x \in DOMAIN e.at : e.at[x] = c[x].price /\ c[x].price > 0
  BY <1>1, CacheShape DEF Sourced
<1> HIDE DEF z
<1>3. left \in SUBSET (1..(n - 1)) /\ n - 1 \in Nat
  BY <1>1, <1>2, SMT
<1>4. CASE n \notin DOMAIN e.at
  <2>1. r = e
    BY <1>4 DEF RemovePriceCache
  <2>2. DOMAIN e.at \in SUBSET (1..(n - 1))
    BY <1>3, <1>4
  <2>3. e \in CacheSet(n - 1)
    BY <1>2, <1>3, <2>2, CacheMade
  <2>4. \A x \in DOMAIN e.at : e.at[x] = z[x].price /\ z[x].price > 0
    BY <1>1, <1>2, <2>2
  <2>5. QED  BY <1>1, <2>1, <2>3, <2>4 DEF Sourced, z
<1>5. CASE n \in DOMAIN e.at
  <2> DEFINE a == [x \in left |-> e.at[x]]
             l == IF left = {} THEN 0 ELSE e.at[Max(left)]
  <2>1. r = [at |-> a, latest |-> l]
    <3>1. Last(c).price > 0
      BY <1>2, <1>5 DEF Last
    <3>2. QED  BY <1>5, <3>1 DEF RemovePriceCache, Restrict
  <2>2. left # {} => Max(left) \in left
    <3> HIDE DEF left
    <3>1. QED  BY <1>3, MaxIn
  <2> HIDE DEF left
  <2>3. left \subseteq DOMAIN e.at
    BY DEF left
  <2>4. a \in [left -> Nat] /\ l \in Nat
    BY <1>2, <2>2, <2>3
  <2>5. DOMAIN r.at = left /\ r.latest = l /\ \A x \in left : r.at[x] = e.at[x]
    BY <2>1, SMT
  <2>6. r \in CacheSet(n - 1)
    <3> HIDE DEF a, l
    <3>1. QED  BY <1>3, <2>1, <2>4, CacheMade
  <2>7. \A x \in left : r.at[x] = z[x].price /\ z[x].price > 0
    BY <1>1, <1>2, <1>3, <2>3, <2>5
  <2>8. Newest(r)
    BY <2>2, <2>5 DEF Newest
  <2>9. QED  BY <1>1, <2>5, <2>6, <2>7, <2>8 DEF Sourced, z
<1>6. QED  BY <1>4, <1>5

\* One block of LoadPricesFromChain.
LoadStep(e, c, h) == IF c[h].price > 0 THEN UpdatePriceCache(e, h, c[h].price) ELSE e

LoadChain(g, c, d) ==
    /\ g[0] = d
    /\ \A k \in 0..(Len(c) - FirstOf(c, ValidityBlocks) + 1) : Sourced(c, g[k])
    /\ \A k \in 1..(Len(c) - FirstOf(c, ValidityBlocks) + 1) :
          g[k] = LoadStep(g[k - 1], c, FirstOf(c, ValidityBlocks) + k - 1)

LEMMA LoadSteps ==
  ASSUME NEW c \in Seq(Block), NEW d, Sourced(c, d)
  PROVE  \E g : LoadChain(g, c, d) /\ LoadedCache(c, d) = g[Len(c) - FirstOf(c, ValidityBlocks) + 1]
<1> DEFINE a == FirstOf(c, ValidityBlocks)
           n == Len(c) - a + 1
           D == 1..n
           V == {e \in CacheSet(Len(c)) : Sourced(c, e)}
           q == LastHeights(c, ValidityBlocks)
           G == [p \in D \X V |-> LoadStep(p[2], c, q[p[1]])]
           Rec(it) == it = [s \in SUBSET D |-> IF s = {} THEN d
                                              ELSE LoadStep(it[s \ {Max(s)}], c, q[Max(s)])]
           it == CHOOSE it : Rec(it)
<1>1. Len(c) \in Nat /\ a \in 1..(Len(c) + 1) /\ q = [i \in 1..n |-> a + i - 1]
  <2>1. ValidityBlocks \in Nat
    BY LimitsAssumption
  <2>2. a \in 1..(Len(c) + 1) /\ q = [i \in 1..n |-> a + i - 1]
    BY <2>1, HeightsAre
  <2>3. QED  BY <2>2, SMT
<1> HIDE DEF a
<1>2. n \in Nat /\ DOMAIN q = D /\ \A i \in D : q[i] = a + i - 1 /\ q[i] \in 1..Len(c)
  BY <1>1, SMT
<1>3. \A e : e \in V <=> Sourced(c, e)
  BY DEF Sourced
<1> HIDE DEF V
<1>4. \A i \in D, e \in V : LoadStep(e, c, q[i]) \in V
  <2>1. ASSUME NEW x \in 1..Len(c), NEW e \in V PROVE LoadStep(e, c, x) \in V
    <3>1. CASE c[x].price > 0
      <4>1. Sourced(c, UpdatePriceCache(e, x, c[x].price))
        BY <1>3, <3>1, PutIs
      <4>2. QED  BY <1>3, <3>1, <4>1 DEF LoadStep
    <3>2. CASE ~ (c[x].price > 0)
      BY <3>2 DEF LoadStep
    <3>3. QED  BY <3>1, <3>2
  <2> HIDE DEF q
  <2>2. QED  BY <1>2, <2>1
<1> HIDE DEF q
<1>5. PICK f : SeqFold(f, n, V, d, G)
  <2>1. G \in [(1..n) \X V -> V] /\ d \in V
    BY <1>3, <1>4
  <2> HIDE DEF G, n
  <2>2. QED  BY <1>2, <2>1, SeqFoldExists
<1>6. Rec(f)
  BY <1>5 DEF SeqFold
<1>7. Rec(it)
  BY <1>6
<1>8. LoadedCache(c, d) = it[D]
  BY <1>2 DEF LoadedCache, FoldLeft, MapThenFoldSet, LoadStep, q
<1> HIDE DEF it
<1>9. it[{}] = d /\ \A k \in D : it[1..k] = LoadStep(it[1..(k - 1)], c, q[k])
  <2>1. ASSUME NEW k \in D PROVE it[1..k] = LoadStep(it[1..(k - 1)], c, q[k])
    <3>1. Max(1..k) = k /\ (1..k) \ {k} = 1..(k - 1) /\ 1..k # {} /\ 1..k \in SUBSET D
      BY <1>2, Prefix
    <3>2. QED  BY <1>7, <3>1
  <2>2. QED  BY <1>7, <2>1
<1> HIDE DEF n
<1>10. it[{}] \in V /\ \A k \in D : it[1..(k - 1)] \in V => it[1..k] \in V
  BY <1>3, <1>4, <1>9
<1>11. PICK g : Chain(g, n, V, it) /\ g[0] = it[{}]
  BY <1>2, <1>10, FoldChain
<1>12. g \in [0..n -> V] /\ g[0] = d /\ LoadedCache(c, d) = g[n]
  BY <1>2, <1>8, <1>9, <1>11, SMT DEF Chain
<1>13. \A k \in 1..n : g[k] = LoadStep(g[k - 1], c, a + k - 1)
  <2>1. ASSUME NEW k \in 1..n PROVE g[k] = LoadStep(g[k - 1], c, a + k - 1)
    <3>1. k \in 0..n /\ k - 1 \in 0..n /\ q[k] = a + k - 1
      BY <1>2, SMT
    <3>2. g[k] = it[1..k] /\ g[k - 1] = it[1..(k - 1)]
      BY <1>11, <3>1 DEF Chain
    <3>3. QED  BY <1>9, <3>1, <3>2
  <2>2. QED  BY <2>1
<1>14. \A k \in 0..n : Sourced(c, g[k])
  BY <1>3, <1>12
<1>15. QED  BY <1>12, <1>13, <1>14 DEF n, a, LoadChain

\* Loading on top of a cache in order leaves one in order.
LEMMA LoadIs ==
  ASSUME NEW c \in Seq(Block), NEW d, Sourced(c, d), Newest(d)
  PROVE  Sourced(c, LoadedCache(c, d)) /\ Newest(LoadedCache(c, d))
<1> DEFINE a == FirstOf(c, ValidityBlocks)
           n == Len(c) - a + 1
           P == {x \in 1..Len(c) : x >= a /\ c[x].price > 0}
<1>1. PICK g : LoadChain(g, c, d) /\ LoadedCache(c, d) = g[n]
  BY LoadSteps
<1>2. Len(c) \in Nat /\ a \in 1..(Len(c) + 1)
  <2>1. ValidityBlocks \in Nat
    BY LimitsAssumption
  <2>2. a \in 1..(Len(c) + 1)
    BY <2>1, HeightsAre
  <2>3. QED  BY <2>2, SMT
<1>3. /\ g[0] = d
      /\ \A k \in 0..n : Sourced(c, g[k])
      /\ \A k \in 1..n : g[k] = LoadStep(g[k - 1], c, a + k - 1)
  BY <1>1 DEF LoadChain
<1> HIDE DEF a
<1>4. n \in Nat /\ \A k \in 1..n : a + k - 1 \in 1..Len(c) /\ k - 1 \in 0..n /\ k \in 0..n
  BY <1>2, SMT
<1>5. CASE P = {}
  <2> DEFINE T == {k \in 0..n : g[k] = d}
  <2>1. 0 \in T
    BY <1>3, <1>4, SMT
  <2>2. ASSUME NEW k \in 1..n, k - 1 \in T PROVE k \in T
    <3>1. a + k - 1 \in 1..Len(c) /\ a + k - 1 >= a /\ k \in 0..n
      BY <1>2, <1>4, SMT
    <3>2. ~ (c[a + k - 1].price > 0)
      BY <1>5, <3>1
    <3>3. g[k] = g[k - 1]
      BY <1>3, <3>2 DEF LoadStep
    <3>4. QED  BY <2>2, <3>1, <3>3
  <2>3. \A k \in 0..n : k \in T
    <3> HIDE DEF T, n
    <3>1. QED  BY <1>4, <2>1, <2>2, StepInduction
  <2>4. g[n] = d
    BY <1>4, <2>3, SMT
  <2>5. QED  BY <1>1, <2>4
<1>6. CASE P # {}
  <2> DEFINE M == Max(P)
             T == {k \in 0..n : a + k - 1 >= M => g[k].latest = c[M].price /\ M \in DOMAIN g[k].at}
  <2>1. P \in SUBSET (1..Len(c))
    OBVIOUS
  <2>2. M \in P /\ \A y \in P : M >= y
    <3> HIDE DEF P
    <3>1. QED  BY <1>2, <1>6, <2>1, MaxIn
  <2> HIDE DEF M
  <2>3. M \in 1..Len(c) /\ M >= a /\ c[M].price > 0
    BY <2>2
  <2>4. ASSUME NEW k \in 0..n, NEW y \in DOMAIN g[k].at PROVE y \in 1..Len(c) /\ y <= M
    <3>1. Sourced(c, g[k])
      BY <1>3
    <3>2. y \in 1..Len(c) /\ c[y].price > 0
      BY <1>2, <3>1, CacheShape DEF Sourced
    <3>3. CASE y >= a
      <4>1. y \in P
        BY <3>2, <3>3
      <4>2. QED  BY <2>2, <2>3, <3>2, <4>1
    <3>4. CASE ~ (y >= a)
      BY <1>2, <2>3, <3>2, <3>4, SMT
    <3>5. QED  BY <3>3, <3>4
  <2>5. 0 \in T
    BY <1>2, <1>4, <2>3, SMT
  <2>6. ASSUME NEW k \in 1..n, k - 1 \in T PROVE k \in T
    <3> DEFINE x == a + k - 1
    <3>1. x \in 1..Len(c) /\ k - 1 \in 0..n /\ k \in 0..n /\ x >= a /\ a + (k - 1) - 1 = x - 1
      BY <1>2, <1>4, SMT
    <3>2. g[k] = LoadStep(g[k - 1], c, x) /\ Sourced(c, g[k - 1])
      BY <1>3, <3>1
    <3>3. (x - 1 >= M) => g[k - 1].latest = c[M].price /\ M \in DOMAIN g[k - 1].at
      BY <2>6, <3>1
    <3> HIDE DEF x
    <3>4. CASE x < M
      <4>1. ~ (x >= M)
        BY <2>3, <3>1, <3>4, SMT
      <4>2. QED  BY <3>1, <4>1 DEF x
    <3>5. CASE x = M
      <4> DEFINE r == UpdatePriceCache(g[k - 1], M, c[M].price)
      <4>1. g[k] = r
        BY <2>3, <3>2, <3>5 DEF LoadStep
      <4>2. \A y \in DOMAIN g[k - 1].at : y <= M
        BY <2>4, <3>1
      <4>3. r.latest = c[M].price /\ M \in DOMAIN r.at
        BY <2>3, <3>2, <4>2, PutIs, SMT
      <4> HIDE DEF r
      <4>4. QED  BY <3>1, <4>1, <4>3
    <3>6. CASE x > M
      <4>1. x \notin P
        BY <2>2, <2>3, <3>1, <3>6, SMT
      <4>2. ~ (c[x].price > 0)
        BY <3>1, <4>1
      <4>3. g[k] = g[k - 1]
        BY <3>2, <4>2 DEF LoadStep
      <4>4. x - 1 >= M
        BY <2>3, <3>1, <3>6, SMT
      <4>5. QED  BY <3>1, <3>3, <4>3, <4>4
    <3>7. x < M \/ x = M \/ x > M
      BY <2>3, <3>1, SMT
    <3>8. QED  BY <3>4, <3>5, <3>6, <3>7
  <2>7. \A k \in 0..n : k \in T
    <3> HIDE DEF T, n
    <3>1. QED  BY <1>4, <2>5, <2>6, StepInduction, SMT
  <2>8. n \in 0..n /\ a + n - 1 >= M
    BY <1>2, <1>4, <2>3, SMT
  <2>9. g[n].latest = c[M].price /\ M \in DOMAIN g[n].at /\ Sourced(c, g[n])
    BY <1>3, <2>7, <2>8
  <2>10. \A y \in DOMAIN g[n].at : y <= M
    BY <2>4, <2>8
  <2> HIDE DEF n
  <2>11. Newest(g[n])
    BY <2>9, <2>10, TopIsNewest
  <2>12. QED  BY <1>1, <2>9, <2>11
<1>7. QED  BY <1>5, <1>6

-----------------------------------------------------------------------------
(* The invariant.                                                          *)

PriceInv ==
    /\ chain \in Seq(Block) /\ hist \in Seq(Point)
    /\ FreezeFollowsHistory
    /\ Sourced(chain, cache) /\ Newest(cache)

LEMMA EmptyIs ==
  ASSUME NEW c \in Seq(Block)
  PROVE  Sourced(c, EmptyCache) /\ Newest(EmptyCache)
<1>1. EmptyCache.at = <<>> /\ EmptyCache.latest = 0 /\ EmptyCache = [at |-> <<>>, latest |-> 0]
  BY DEF EmptyCache
<1>2. DOMAIN <<>> = {}
  BY SMT
<1>3. <<>> \in [{} -> Nat]
  BY SMT
<1>4. Len(c) \in Nat /\ {} \in SUBSET (1..Len(c)) /\ 0 \in Nat
  BY SMT
<1>5. EmptyCache \in CacheSet(Len(c))
  BY <1>1, <1>3, <1>4, CacheMade
<1>6. QED  BY <1>1, <1>2, <1>5 DEF Sourced, Newest

LEMMA ConnectKeeps ==
  ASSUME PriceInv, NEW o \in Offers, NEW gap \in Gaps, NEW skip \in BOOLEAN,
         ConnectBlock(o, gap, skip)
  PROVE  PriceInv'
<1> DEFINE n == Len(chain) + 1
           t == gap + IF chain = <<>> THEN 0 ELSE Last(chain).time
           b == [price |-> o.price, kind |-> o.kind, time |-> t]
           c == Append(chain, b)
<1>1. chain \in Seq(Block) /\ hist \in Seq(Point) /\ Len(chain) \in Nat
  BY SMT DEF PriceInv
<1>2. t \in Nat
  <2>1. gap \in Nat
    BY LimitsAssumption
  <2>2. chain # <<>> => Last(chain) \in Block
    BY <1>1, SMT DEF Last
  <2>3. chain # <<>> => Last(chain).time \in Nat
    BY <2>2 DEF Block
  <2>4. QED  BY <2>1, <2>3, SMT
<1> HIDE DEF t
<1>3. o.price \in Nat /\ b \in Block
  BY <1>2, OffersAssumption DEF Block
<1>4. c \in Seq(Block) /\ Len(c) = n /\ n \in 1..Len(c) /\ c[n] = b
  BY <1>1, <1>3, SMT
<1>5. /\ o.kind = "mint" => MintAllowed(n, o.price, hist, freeze)
      /\ chain' = c
      /\ IF o.kind = "mint" /\ ~ IsThawDayActive(n)
         THEN RecordAcceptedMintVolatility(PointAt(chain', n)) ELSE UNCHANGED <<hist, freeze>>
      /\ cache' = IF o.price > 0 THEN UpdatePriceCache(cache, n, o.price) ELSE cache
  BY DEF ConnectBlock, Height, t
<1>6. b.price = o.price
  OBVIOUS
<1> HIDE DEF c, b
<1>7. hist' \in Seq(Point) /\ freeze' = FreezeOf(hist')
  <2>1. CASE o.kind = "mint" /\ ~ IsThawDayActive(n)
    <3>1. ~ freeze.mint
      BY <1>5, <2>1 DEF MintAllowed
    <3>2. freeze = FreezeOf(hist) /\ freeze = NoFreeze
      BY <1>1, <3>1, FreezeIs DEF PriceInv, FreezeFollowsHistory
    <3>3. PointAt(c, n) \in Point
      BY <1>1, <1>3, <1>4, SMT DEF PointAt, Point, Block
    <3>4. RecordAcceptedMintVolatility(PointAt(c, n))
      BY <1>5, <2>1
    <3> DEFINE p == PointAt(c, n)
    <3> HIDE DEF p
    <3>5. p \in Point /\ RecordAcceptedMintVolatility(p)
      BY <3>3, <3>4 DEF p
    <3>6. QED  BY <1>1, <3>2, <3>5, RecordIs
  <2>2. CASE ~ (o.kind = "mint" /\ ~ IsThawDayActive(n))
    <3>1. hist' = hist /\ freeze' = freeze
      BY <1>5, <2>2
    <3>2. QED  BY <3>1 DEF PriceInv, FreezeFollowsHistory
  <2>3. QED  BY <2>1, <2>2
<1>8. Sourced(c, cache) /\ Newest(cache)
  BY <1>1, <1>3, GrowIs DEF PriceInv, c
<1>9. Sourced(c, cache') /\ Newest(cache')
  <2>1. CASE o.price > 0
    <3> DEFINE r == UpdatePriceCache(cache, n, c[n].price)
    <3>1. cache' = r
      BY <1>4, <1>5, <1>6, <2>1
    <3>2. \A x \in DOMAIN cache.at : x \in 1..Len(chain)
      BY <1>1, CacheShape DEF PriceInv, Sourced
    <3>3. \A x \in DOMAIN cache.at : x <= n
      BY <1>1, <3>2, SMT
    <3>4. c[n].price > 0
      BY <1>4, <1>6, <2>1
    <3> HIDE DEF n
    <3>5. Sourced(c, r) /\ r.latest = c[n].price /\ n \in DOMAIN r.at
      BY <1>4, <1>8, <3>3, <3>4, PutIs, SMT
    <3> HIDE DEF r
    <3>6. \A x \in DOMAIN r.at : x <= n
      <4>1. \A x \in DOMAIN r.at : x \in 1..Len(c)
        BY <1>4, <3>5, CacheShape, SMT DEF Sourced
      <4>2. QED  BY <1>4, <4>1, SMT
    <3>7. Newest(r)
      BY <1>4, <3>5, <3>6, TopIsNewest
    <3>8. QED  BY <3>1, <3>5, <3>7
  <2>2. CASE ~ (o.price > 0)
    BY <1>5, <1>8, <2>2
  <2>3. QED  BY <2>1, <2>2
<1>10. QED  BY <1>4, <1>5, <1>7, <1>9 DEF PriceInv, FreezeFollowsHistory

LEMMA DisconnectKeeps ==
  ASSUME PriceInv, DisconnectTip
  PROVE  PriceInv'
<1> DEFINE c == Front(chain)
<1>1. /\ chain \in Seq(Block) /\ hist \in Seq(Point) /\ freeze = FreezeOf(hist)
      /\ chain # <<>> /\ chain' = c
      /\ LoadPrices(chain', CacheWithoutTip) \/ DisconnectBlock
  BY DEF PriceInv, FreezeFollowsHistory, DisconnectTip
<1>2. c \in Seq(Block) /\ Sourced(c, CacheWithoutTip) /\ Newest(CacheWithoutTip)
  <2>1. CacheWithoutTip = IF Last(chain).price > 0 THEN RemovePriceCache(cache, Len(chain)) ELSE cache
    BY DEF CacheWithoutTip, Height
  <2>2. QED  BY <1>1, <2>1, DropIs DEF PriceInv
<1> HIDE DEF c
<1>3. CASE LoadPrices(chain', CacheWithoutTip)
  <2>1. /\ hist' = RebuiltHistory(c) /\ freeze' = FreezeOf(hist')
        /\ cache' = LoadedCache(c, CacheWithoutTip)
    BY <1>1, <1>3 DEF LoadPrices
  <2>2. QED  BY <1>1, <1>2, <2>1, RebuiltType, LoadIs DEF PriceInv, FreezeFollowsHistory
<1>4. CASE DisconnectBlock
  <2>1. cache' = CacheWithoutTip
    BY <1>4 DEF DisconnectBlock
  <2>2. hist' \in Seq(Point) /\ freeze' = FreezeOf(hist')
    <3>1. CASE UNCHANGED <<hist, freeze>>
      BY <1>1, <3>1
    <3>2. CASE RemovePriceForHeight(Height)
      <4> DEFINE h == WithoutHeight(hist, Height)
      <4>1. h \in Seq(Point)
        BY <1>1, WithoutType
      <4>2. \/ hist' = hist /\ freeze' = freeze
            \/ hist' = CleanOldHistory(h) /\ freeze' = FreezeOf(CleanOldHistory(h))
        BY <3>2 DEF RemovePriceForHeight
      <4> HIDE DEF h
      <4>3. QED  BY <1>1, <4>1, <4>2, CleanIs
    <3>3. QED  BY <1>4, <3>1, <3>2 DEF DisconnectBlock
  <2>3. QED  BY <1>1, <1>2, <2>1, <2>2 DEF PriceInv, FreezeFollowsHistory
<1>5. QED  BY <1>1, <1>3, <1>4

LEMMA OtherKeeps ==
  ASSUME PriceInv, Stop \/ Start \/ LoadPricesFromChain \/ UNCHANGED vars
  PROVE  PriceInv'
<1>1. chain \in Seq(Block)
  BY DEF PriceInv
<1>2. CASE Stop
  <2>1. PICK k \in 0..Len(chain) : chain' = SubSeq(chain, 1, k)
    BY <1>2 DEF Stop, Height
  <2>2. chain' \in Seq(Block)
    BY <1>1, <2>1, SMT
  <2>3. hist' = <<>> /\ freeze' = NoFreeze /\ cache' = EmptyCache
    BY <1>2 DEF Stop
  <2>4. hist' \in Seq(Point) /\ freeze' = FreezeOf(hist')
    BY <2>3, SMT DEF FreezeOf
  <2>5. QED  BY <2>2, <2>3, <2>4, EmptyIs DEF PriceInv, FreezeFollowsHistory
<1>3. CASE LoadPricesFromChain
  <2>1. /\ chain' = chain /\ hist' = RebuiltHistory(chain) /\ freeze' = FreezeOf(hist')
        /\ cache' = LoadedCache(chain, cache)
    BY <1>3 DEF LoadPricesFromChain, LoadPrices
  <2>2. QED  BY <1>1, <2>1, RebuiltType, LoadIs DEF PriceInv, FreezeFollowsHistory
<1>4. CASE UNCHANGED <<chain, hist, freeze, cache>>
  BY <1>4 DEF PriceInv, FreezeFollowsHistory
<1>5. QED  BY <1>2, <1>3, <1>4 DEF Start, vars

LEMMA PricesAlways == Spec => []PriceInv
<1>1. Init => PriceInv
  <2> SUFFICES ASSUME Init PROVE PriceInv
    OBVIOUS
  <2>1. chain = <<>> /\ hist = <<>> /\ freeze = NoFreeze /\ cache = EmptyCache
    BY DEF Init
  <2>2. chain \in Seq(Block) /\ hist \in Seq(Point) /\ freeze = FreezeOf(hist)
    BY <2>1, SMT DEF FreezeOf
  <2>3. QED  BY <2>1, <2>2, EmptyIs DEF PriceInv, FreezeFollowsHistory
<1>2. PriceInv /\ [Next]_vars => PriceInv'
  BY ConnectKeeps, DisconnectKeeps, OtherKeeps DEF Next
<1>3. QED  BY <1>1, <1>2, PTL DEF Spec

\* The freeze state a node enforces as a consensus rule is a function of its
\* price history, though RecordPrice builds on the state before and
\* RemovePriceForHeight and ReconstructFromBlockData start afresh: for every
\* order of blocks, reorganisations, restarts and imports.
THEOREM FreezeIsOfTheHistory == Spec => []FreezeFollowsHistory
<1>1. PriceInv => FreezeFollowsHistory
  BY DEF PriceInv
<1>2. QED  BY <1>1, PricesAlways, PTL

\* What GetLatestPrice returns is the price of the highest block in the cache,
\* and all prices there are of the active chain, through UpdatePriceCache with
\* its eviction, RemovePriceCache, and LoadPricesFromChain over a cache that
\* blocks have already filled.
THEOREM CachedPriceIsOfTheChain == Spec => []CachedPriceIsNewest
<1>1. PriceInv => CachedPriceIsNewest
  <2> SUFFICES ASSUME PriceInv PROVE CachedPriceIsNewest
    OBVIOUS
  <2>1. Len(chain) \in Nat /\ Sourced(chain, cache) /\ Newest(cache)
    BY SMT DEF PriceInv
  <2>2. \A h \in DOMAIN cache.at : h \in 1..Len(chain)
    BY <2>1, CacheShape DEF Sourced
  <2>3. \A h \in DOMAIN cache.at : h <= Len(chain) /\ cache.at[h] = chain[h].price
    BY <2>1, <2>2, SMT DEF Sourced
  <2>4. QED  BY <2>1, <2>3 DEF CachedPriceIsNewest, Newest, Height
<1>2. QED  BY <1>1, PricesAlways, PTL

-----------------------------------------------------------------------------
(* The order of the history.                                               *)

Rising(h) == \A i, j \in 1..Len(h) : i < j => h[i].height < h[j].height

\* The points of history h are those of mints among the first n blocks of c.
Placed(h, c, n) ==
    \A i \in 1..Len(h) : /\ h[i].height \in 1..n
                         /\ h[i] = PointAt(c, h[i].height)
                         /\ c[h[i].height].kind = "mint"

\* CleanOldHistory removes points from the front.
LEMMA CleanSuffix ==
  ASSUME NEW h \in Seq(Point)
  PROVE  \E j \in 1..(Len(h) + 1) : CleanOldHistory(h) = SubSeq(h, j, Len(h))
<1> DEFINE n == Len(h)
           young == {i \in 1..(n + 1) : \A j \in i..n : h[j].time >= Last(h).time - MaxAge}
           a == Min(young)
           w == SubSeq(h, a, n)
           m == Len(w)
           b == IF m - MaxPoints + 1 >= 1 THEN m - MaxPoints + 1 ELSE 1
<1>1. n \in Nat /\ MaxPoints \in Nat /\ MaxPoints >= 1
  BY LimitsAssumption, SMT
<1>2. InWindow(h, MaxAge) = w
  BY DEF InWindow
<1>3. a \in 1..(n + 1)
  <2>1. n + 1 \in young /\ young \in SUBSET (1..(n + 1)) /\ n + 1 \in Nat
    BY <1>1, SMT
  <2> HIDE DEF young, n
  <2>2. Min(young) \in young
    BY <2>1, MinIn
  <2>3. QED  BY <2>1, <2>2
<1> HIDE DEF a
<1>4. m = n - a + 1 /\ w \in Seq(Point) /\ \A i \in 1..m : w[i] = h[a + i - 1]
  BY <1>1, <1>3, SMT
<1>5. Max({1, m - MaxPoints + 1}) = b
  <2>1. m \in Nat
    BY <1>1, <1>3, <1>4, SMT
  <2> HIDE DEF m
  <2>2. QED  BY <1>1, <2>1, SMT DEF Max
<1>6. CleanOldHistory(h) = SubSeq(w, b, m)
  BY <1>2, <1>5 DEF CleanOldHistory
<1>7. b \in 1..(m + 1)
  BY <1>1, <1>3, <1>4, SMT
<1> HIDE DEF w, m, b
<1>8. a + b - 1 \in 1..(n + 1)
  BY <1>1, <1>3, <1>4, <1>7, SMT
<1>9. SubSeq(w, b, m) = SubSeq(h, a + b - 1, n)
  <2> DEFINE x == SubSeq(w, b, m)
             y == SubSeq(h, a + b - 1, n)
  <2>0. m = Len(w)
    BY DEF m
  <2>1. x \in Seq(Point) /\ Len(x) = m - b + 1 /\ \A i \in 1..(m - b + 1) : x[i] = w[b + i - 1]
    BY <1>1, <1>3, <1>4, <1>7, <2>0, SMT
  <2>2. y \in Seq(Point) /\ Len(y) = m - b + 1 /\ \A i \in 1..(m - b + 1) : y[i] = h[a + b - 1 + i - 1]
    <3> DEFINE c == a + b - 1
    <3>1. n - c + 1 = m - b + 1
      BY <1>1, <1>3, <1>4, <1>7, SMT
    <3>2. c \in 1..(n + 1) /\ n = Len(h) /\ h \in Seq(Point)
      BY <1>1, <1>8
    <3> HIDE DEF c, n
    <3>3. SubSeq(h, c, n) \in Seq(Point) /\ Len(SubSeq(h, c, n)) = n - c + 1
          /\ \A i \in 1..(n - c + 1) : SubSeq(h, c, n)[i] = h[c + i - 1]
      BY <3>2, SMT
    <3>4. QED  BY <3>1, <3>3 DEF c
  <2>3. ASSUME NEW i \in 1..(m - b + 1) PROVE x[i] = y[i]
    <3>1. b + i - 1 \in 1..m /\ a + (b + i - 1) - 1 = a + b - 1 + i - 1
      BY <1>1, <1>3, <1>4, <1>7, SMT
    <3>2. w[b + i - 1] = h[a + (b + i - 1) - 1]
      BY <1>4, <3>1
    <3>3. QED  BY <2>1, <2>2, <3>1, <3>2
  <2> HIDE DEF x, y
  <2>4. x = y
    BY <2>1, <2>2, <2>3, SMT
  <2>5. QED  BY <2>4 DEF x, y
<1>10. QED  BY <1>6, <1>8, <1>9

\* A suffix of a history in order is in order.
LEMMA CleanOrder ==
  ASSUME NEW h \in Seq(Point), Rising(h)
  PROVE  /\ Rising(CleanOldHistory(h))
         /\ \A i \in 1..Len(CleanOldHistory(h)) : \E j \in 1..Len(h) : CleanOldHistory(h)[i] = h[j]
<1>1. PICK a \in 1..(Len(h) + 1) : CleanOldHistory(h) = SubSeq(h, a, Len(h))
  BY CleanSuffix
<1> DEFINE k == CleanOldHistory(h)
<1>2. Len(h) \in Nat
  BY SMT
<1>3. Len(k) = Len(h) - a + 1 /\ \A i \in 1..(Len(h) - a + 1) : k[i] = h[a + i - 1]
  BY <1>1, <1>2, SMT
<1> HIDE DEF k
<1>4. \A i \in 1..Len(k) : a + i - 1 \in 1..Len(h) /\ k[i] = h[a + i - 1]
  BY <1>2, <1>3, SMT
<1>5. ASSUME NEW i \in 1..Len(k), NEW j \in 1..Len(k), i < j PROVE k[i].height < k[j].height
  <2>1. a + i - 1 < a + j - 1 /\ a + i - 1 \in 1..Len(h) /\ a + j - 1 \in 1..Len(h)
    BY <1>2, <1>4, <1>5, SMT
  <2>2. h[a + i - 1].height < h[a + j - 1].height
    BY <2>1 DEF Rising
  <2>3. QED  BY <1>4, <2>2
<1>6. Rising(k)
  BY <1>5 DEF Rising
<1>7. QED  BY <1>4, <1>6 DEF k

\* Only the newest point of a history in order can be the tip's.
LEMMA WithoutIs ==
  ASSUME NEW h \in Seq(Point), Rising(h), NEW x \in Nat, \A i \in 1..Len(h) : h[i].height <= x
  PROVE  WithoutHeight(h, x) = IF h # <<>> /\ Last(h).height = x THEN Front(h) ELSE h
<1>1. PICK g : KeepChain(g, h, x) /\ WithoutHeight(h, x) = g[Len(h)]
  BY WithoutSteps
<1> DEFINE n == Len(h)
           m == IF h # <<>> /\ Last(h).height = x THEN n - 1 ELSE n
           T == {k \in 0..n : g[k] = SubSeq(h, 1, IF k <= m THEN k ELSE m)}
<1>2. n \in Nat /\ (h # <<>> <=> n >= 1) /\ \A i \in 1..n : h[i] \in Point
  BY SMT
<1>3. m \in 0..n /\ n - 1 <= m /\ (m < n <=> n >= 1 /\ h[n].height = x)
  BY <1>2, SMT DEF Last
<1>4. ASSUME NEW i \in 1..n, i <= m PROVE h[i].height # x
  <2>1. CASE i = n
    BY <1>2, <1>3, <1>4, <2>1, SMT
  <2>2. CASE i < n
    <3>1. n \in 1..n
      BY <1>2, <2>2, SMT
    <3>2. h[i].height < h[n].height /\ h[n].height <= x
      BY <2>2, <3>1 DEF Rising
    <3>3. h[i].height \in Nat /\ h[n].height \in Nat
      BY <1>2, <3>1 DEF Point
    <3>4. QED  BY <3>2, <3>3, SMT
  <2>3. QED  BY <1>2, <2>1, <2>2, SMT
<1>5. 0 \in T
  <2>1. g[0] = <<>>
    BY <1>1 DEF KeepChain
  <2>2. SubSeq(h, 1, 0) = <<>>
    BY SMT
  <2>3. 0 \in 0..n /\ 0 <= m
    BY <1>2, <1>3, SMT
  <2> HIDE DEF m
  <2>4. QED  BY <2>1, <2>2, <2>3
<1>6. ASSUME NEW k \in 1..n, k - 1 \in T PROVE k \in T
  <2>1. g[k] = KeepStep(g[k - 1], h[k], x)
    BY <1>1 DEF KeepChain
  <2>2. CASE k <= m
    <3>1. g[k - 1] = SubSeq(h, 1, k - 1)
      BY <1>2, <1>3, <1>6, <2>2, SMT
    <3>2. h[k].height # x
      BY <1>4, <2>2
    <3>3. g[k] = Append(SubSeq(h, 1, k - 1), h[k])
      BY <2>1, <3>1, <3>2 DEF KeepStep
    <3>4. Append(SubSeq(h, 1, k - 1), h[k]) = SubSeq(h, 1, k)
      BY <1>2, SMT
    <3>5. QED  BY <2>2, <3>3, <3>4, SMT
  <2>3. CASE ~ (k <= m)
    <3>1. k = n /\ m = n - 1 /\ m < n
      BY <1>2, <1>3, <2>3, SMT
    <3>2. h[k].height = x
      BY <1>3, <3>1
    <3>3. g[k - 1] = SubSeq(h, 1, m)
      BY <1>6, <3>1
    <3>4. g[k] = SubSeq(h, 1, m)
      BY <2>1, <3>2, <3>3 DEF KeepStep
    <3>5. QED  BY <2>3, <3>4, SMT
  <2>4. QED  BY <2>2, <2>3
<1>7. \A k \in 0..n : k \in T
  <2> HIDE DEF T, n
  <2>1. QED  BY <1>2, <1>5, <1>6, StepInduction
<1>8. g[n] = SubSeq(h, 1, m)
  BY <1>2, <1>3, <1>7, SMT
<1>9. SubSeq(h, 1, n) = h
  BY <1>2, SMT
<1>10. QED  BY <1>1, <1>8, <1>9 DEF Front

\* What a scan finds.
LEMMA ScanFacts ==
  ASSUME NEW c \in Seq(Block)
  PROVE  /\ ScanHistory(c) \in Seq(Point) /\ Rising(ScanHistory(c))
         /\ Placed(ScanHistory(c), c, Len(c)) /\ Len(ScanHistory(c)) <= Len(c)
<1> DEFINE a == FirstOf(c, ScanDepth)
           n == Len(c) - a + 1
<1>1. PICK g : ScanChain(g, c) /\ ScanHistory(c) = g[n]
  BY ScanSteps
<1>2. Len(c) \in Nat /\ a \in 1..(Len(c) + 1)
  <2>1. ScanDepth \in Nat
    BY LimitsAssumption, SMT
  <2>2. a \in 1..(Len(c) + 1)
    BY <2>1, HeightsAre
  <2>3. QED  BY <2>2, SMT
<1>3. /\ g \in [0..n -> Seq(Point)] /\ g[0] = <<>>
      /\ \A k \in 1..n : g[k] = ScanStep(g[k - 1], c, a + k - 1)
  BY <1>1 DEF ScanChain
<1> HIDE DEF a
<1> DEFINE T == {k \in 0..n : Rising(g[k]) /\ Placed(g[k], c, a + k - 1) /\ Len(g[k]) <= k}
<1>4. n \in Nat
  BY <1>2, SMT
<1>5. 0 \in T
  <2>1. Len(g[0]) = 0
    BY <1>3, SMT
  <2>2. QED  BY <1>4, <2>1, SMT DEF Rising, Placed
<1>6. ASSUME NEW k \in 1..n, k - 1 \in T PROVE k \in T
  <2> DEFINE p == g[k - 1]
             x == a + k - 1
             q == PointAt(c, x)
  <2>1. k \in 0..n /\ k - 1 \in 0..n /\ x \in 1..Len(c) /\ a + (k - 1) - 1 = x - 1 /\ x - 1 \in Nat
    BY <1>2, <1>4, SMT
  <2>2. p \in Seq(Point) /\ Rising(p) /\ Placed(p, c, x - 1) /\ Len(p) <= k - 1
    BY <1>3, <1>6, <2>1
  <2>3. g[k] = ScanStep(p, c, x)
    BY <1>3
  <2> HIDE DEF p, x
  <2>4. \A i \in 1..Len(p) : p[i].height \in 1..(x - 1) /\ p[i].height \in 1..x
    BY <2>1, <2>2, SMT DEF Placed
  <2>5. CASE g[k] = p
    <3>1. Placed(p, c, x)
      BY <2>2, <2>4 DEF Placed
    <3>2. QED  BY <2>1, <2>2, <2>5, <3>1, SMT DEF x
  <2>6. CASE g[k] = Append(p, q) /\ c[x].kind = "mint"
    <3> DEFINE r == Append(p, q)
    <3>1. q.height = x
      BY DEF PointAt
    <3> HIDE DEF q
    <3>2. Len(p) \in Nat /\ Len(r) = Len(p) + 1 /\ r[Len(p) + 1] = q /\ \A i \in 1..Len(p) : r[i] = p[i]
      BY <2>2, SMT
    <3> HIDE DEF r
    <3>3. Rising(r)
      <4>1. ASSUME NEW i \in 1..Len(r), NEW j \in 1..Len(r), i < j PROVE r[i].height < r[j].height
        <5>1. i \in 1..Len(p)
          BY <3>2, <4>1, SMT
        <5>2. CASE j \in 1..Len(p)
          BY <2>2, <3>2, <4>1, <5>1, <5>2 DEF Rising
        <5>3. CASE j = Len(p) + 1
          BY <2>1, <2>4, <3>1, <3>2, <5>1, <5>3, SMT
        <5>4. QED  BY <3>2, <5>2, <5>3, SMT
      <4>2. QED  BY <4>1 DEF Rising
    <3>4. Placed(r, c, x)
      <4>1. ASSUME NEW i \in 1..Len(r)
            PROVE  /\ r[i].height \in 1..x
                   /\ r[i] = PointAt(c, r[i].height)
                   /\ c[r[i].height].kind = "mint"
        <5>1. CASE i \in 1..Len(p)
          BY <2>2, <2>4, <3>2, <5>1 DEF Placed
        <5>2. CASE i = Len(p) + 1
          BY <2>1, <2>6, <3>1, <3>2, <5>2, SMT DEF q
        <5>3. QED  BY <3>2, <5>1, <5>2, SMT
      <4>2. QED  BY <4>1 DEF Placed
    <3>5. Len(r) <= k
      BY <2>2, <3>2, SMT
    <3>6. g[k] = r
      BY <2>6 DEF r
    <3>7. QED  BY <2>1, <3>3, <3>4, <3>5, <3>6 DEF x
  <2>7. QED  BY <2>3, <2>5, <2>6 DEF ScanStep
<1>7. \A k \in 0..n : k \in T
  <2> HIDE DEF T, n
  <2>1. QED  BY <1>4, <1>5, <1>6, StepInduction
<1>8. n \in 0..n /\ a + n - 1 = Len(c) /\ n <= Len(c)
  BY <1>2, <1>4, SMT
<1>9. g[n] \in Seq(Point) /\ Rising(g[n]) /\ Placed(g[n], c, Len(c)) /\ Len(g[n]) <= Len(c)
  <2>1. g[n] \in Seq(Point) /\ Rising(g[n]) /\ Placed(g[n], c, a + n - 1) /\ Len(g[n]) <= n
    BY <1>3, <1>7, <1>8
  <2>2. Len(g[n]) \in Nat
    BY <2>1, SMT
  <2>3. QED  BY <1>2, <1>4, <1>8, <2>1, <2>2, SMT
<1>10. QED  BY <1>1, <1>9

\* A scan that reaches the first block passes through the scans of its prefixes.
LEMMA ScanPrefix ==
  ASSUME NEW c \in Seq(Block), Len(c) <= ScanDepth, NEW m \in 0..Len(c)
  PROVE  \E g : /\ g \in [0..Len(c) -> Seq(Point)]
                /\ \A k \in 1..Len(c) : g[k] = ScanStep(g[k - 1], c, k)
                /\ ScanHistory(c) = g[Len(c)] /\ ScanHistory(SubSeq(c, 1, m)) = g[m]
<1> DEFINE z == SubSeq(c, 1, m)
<1>1. Len(c) \in Nat /\ ScanDepth \in Nat
  BY LimitsAssumption, SMT
<1>2. z \in Seq(Block) /\ Len(z) = m /\ \A i \in 1..m : z[i] = c[i]
  BY <1>1, SMT
<1> HIDE DEF z
<1>3. FirstOf(c, ScanDepth) = 1 /\ FirstOf(z, ScanDepth) = 1
  BY <1>1, <1>2, SMT DEF FirstOf
<1>4. PICK g : ScanChain(g, c) /\ ScanHistory(c) = g[Len(c) - FirstOf(c, ScanDepth) + 1]
  BY ScanSteps
<1>5. PICK f : ScanChain(f, z) /\ ScanHistory(z) = f[Len(z) - FirstOf(z, ScanDepth) + 1]
  BY <1>2, ScanSteps
<1>6. Len(c) - 1 + 1 = Len(c) /\ Len(z) - 1 + 1 = m /\ \A k \in Nat : 1 + k - 1 = k
  BY <1>1, <1>2, SMT
<1>7. /\ g \in [0..Len(c) -> Seq(Point)] /\ g[0] = <<>>
      /\ \A k \in 1..Len(c) : g[k] = ScanStep(g[k - 1], c, k)
      /\ ScanHistory(c) = g[Len(c)]
  BY <1>3, <1>4, <1>6, SMT DEF ScanChain
<1>8. /\ f \in [0..m -> Seq(Point)] /\ f[0] = <<>>
      /\ \A k \in 1..m : f[k] = ScanStep(f[k - 1], z, k)
      /\ ScanHistory(z) = f[m]
  <2>1. Len(z) - FirstOf(z, ScanDepth) + 1 = m
    BY <1>3, <1>6
  <2>2. /\ f \in [0..m -> Seq(Point)] /\ f[0] = <<>>
        /\ \A k \in 1..m : f[k] = ScanStep(f[k - 1], z, FirstOf(z, ScanDepth) + k - 1)
        /\ ScanHistory(z) = f[m]
    BY <1>5, <2>1 DEF ScanChain
  <2>3. \A k \in 1..m : FirstOf(z, ScanDepth) + k - 1 = k
    BY <1>3, SMT
  <2>4. QED  BY <2>2, <2>3
<1> DEFINE T == {k \in 0..m : g[k] = f[k]}
<1>9. 0 \in T
  BY <1>1, <1>7, <1>8, SMT
<1>10. ASSUME NEW k \in 1..m, k - 1 \in T PROVE k \in T
  <2>1. k \in 0..m /\ k \in 1..Len(c) /\ z[k] = c[k] /\ g[k - 1] = f[k - 1]
    BY <1>1, <1>2, <1>10, SMT
  <2>2. ScanStep(f[k - 1], z, k) = ScanStep(f[k - 1], c, k)
    BY <2>1, SMT DEF ScanStep, PointAt
  <2>3. QED  BY <1>7, <1>8, <2>1, <2>2
<1>11. \A k \in 0..m : k \in T
  <2> HIDE DEF T
  <2>1. QED  BY <1>1, <1>9, <1>10, StepInduction, SMT
<1>12. ScanHistory(z) = g[m]
  BY <1>1, <1>8, <1>11, SMT
<1>13. QED  BY <1>7, <1>12 DEF z

\* A history whose newest point is among the first m blocks is their scan.
LEMMA RebuiltStable ==
  ASSUME NEW c \in Seq(Block), Len(c) <= ScanDepth, NEW m \in 0..Len(c),
         RebuiltHistory(c) # <<>>, Last(RebuiltHistory(c)).height <= m
  PROVE  RebuiltHistory(c) = RebuiltHistory(SubSeq(c, 1, m))
<1> DEFINE n == Len(c)
           s == ScanHistory(c)
<1>1. n \in Nat /\ s \in Seq(Point)
  BY ScanFacts, SMT
<1> HIDE DEF s
<1>2. RebuiltHistory(c) = CleanOldHistory(s)
  BY DEF RebuiltHistory, s
<1>3. s # <<>>
  <2>1. ASSUME s = <<>> PROVE FALSE
    <3>1. PICK j \in 1..(Len(s) + 1) : CleanOldHistory(s) = SubSeq(s, j, Len(s))
      BY <1>1, CleanSuffix
    <3>2. Len(s) = 0 /\ j = 1
      BY <2>1, <3>1, SMT
    <3>3. CleanOldHistory(s) = <<>>
      BY <2>1, <3>1, <3>2, SMT
    <3>4. QED  BY <1>2, <3>3
  <2>2. QED  BY <2>1
<1>4. Last(s).height <= m
  BY <1>1, <1>2, <1>3, CleanIs
<1>5. PICK g : /\ g \in [0..n -> Seq(Point)]
               /\ \A k \in 1..n : g[k] = ScanStep(g[k - 1], c, k)
               /\ s = g[n] /\ ScanHistory(SubSeq(c, 1, m)) = g[m]
  BY ScanPrefix DEF s
<1> DEFINE T == {k \in 0..(n - m) : g[m + k] = g[m] \/ Last(g[m + k]).height > m}
<1>6. 0 \in T /\ n - m \in Nat
  BY <1>1, SMT
<1>7. ASSUME NEW k \in 1..(n - m), k - 1 \in T PROVE k \in T
  <2> DEFINE x == m + k
  <2>1. x \in 1..n /\ x - 1 \in 0..n /\ m + (k - 1) = x - 1 /\ k \in 0..(n - m) /\ x > m
    BY <1>1, SMT
  <2>2. g[x] = ScanStep(g[x - 1], c, x)
    BY <1>5, <2>1
  <2>3. g[x - 1] = g[m] \/ Last(g[x - 1]).height > m
    BY <1>7, <2>1
  <2> HIDE DEF x
  <2>4. CASE g[x] = g[x - 1]
    BY <2>1, <2>3, <2>4 DEF x
  <2>5. CASE g[x] = Append(g[x - 1], PointAt(c, x))
    <3>1. g[x - 1] \in Seq(Point)
      BY <1>5, <2>1
    <3>2. Last(g[x]) = PointAt(c, x)
      BY <2>5, <3>1, SMT DEF Last
    <3>3. Last(g[x]).height = x
      BY <3>2, SMT DEF PointAt
    <3>4. QED  BY <2>1, <3>3 DEF x
  <2>6. QED  BY <2>2, <2>4, <2>5 DEF ScanStep
<1>8. \A k \in 0..(n - m) : k \in T
  <2> DEFINE w == n - m
  <2> HIDE DEF T, n
  <2>1. w \in Nat /\ 0 \in T /\ \A k \in 1..w : k - 1 \in T => k \in T
    BY <1>6, <1>7
  <2> HIDE DEF w
  <2>2. \A k \in 0..w : k \in T
    BY <2>1, StepInduction
  <2>3. QED  BY <2>2 DEF w
<1>9. n - m \in T
  BY <1>6, <1>8, SMT
<1>10. m + (n - m) = n
  BY <1>1, SMT
<1>11. g[n] = g[m]
  <2>1. g[n] = g[m] \/ Last(g[n]).height > m
    BY <1>9, <1>10
  <2>2. Last(s).height \in Nat
    <3>1. Last(s) \in Point
      BY <1>1, <1>3, SMT DEF Last
    <3>2. QED  BY <3>1 DEF Point
  <2>3. QED  BY <1>4, <1>5, <2>1, <2>2, SMT
<1>12. QED  BY <1>2, <1>5, <1>11 DEF RebuiltHistory

\* Where the points of a history are while the node runs: below Thaw Day, in
\* blocks of the active chain, or, until a reorganisation that crosses Thaw Day
\* reloads them, where the scan at startup found them.
OrderInv ==
    /\ Rising(hist) /\ Height <= MaxHeight
    /\ pc # "running" => hist = <<>>
    /\ pc = "loading" => (restore <=> IsThawDayActive(Height))
    /\ pc = "running" /\ ~ restore =>
          /\ Placed(hist, chain, Height)
          /\ \A i \in 1..Len(hist) : hist[i].height < ThawHeight
    /\ pc = "running" /\ restore =>
          /\ Height >= ThawHeight
          /\ hist # <<>> /\ Last(hist).height < ThawHeight
                => hist = RebuiltHistory(SubSeq(chain, 1, ThawHeight - 1))

\* A rebuilt history is in order.
LEMMA RebuiltOrder ==
  ASSUME NEW c \in Seq(Block)
  PROVE  /\ RebuiltHistory(c) \in Seq(Point)
         /\ Rising(RebuiltHistory(c)) /\ Placed(RebuiltHistory(c), c, Len(c))
<1> DEFINE s == ScanHistory(c)
           r == CleanOldHistory(s)
<1>1. s \in Seq(Point) /\ Rising(s) /\ Placed(s, c, Len(c))
  BY ScanFacts
<1> HIDE DEF s
<1>2. Rising(r) /\ \A i \in 1..Len(r) : \E j \in 1..Len(s) : r[i] = s[j]
  BY <1>1, CleanOrder
<1> HIDE DEF r
<1>3. Placed(r, c, Len(c))
  BY <1>1, <1>2 DEF Placed
<1>4. r = RebuiltHistory(c)
  BY DEF r, s, RebuiltHistory
<1>5. QED  BY <1>2, <1>3, <1>4, RebuiltType

\* What the two theorems below assume of the constants: the scan at startup
\* reaches the first block, and comes before the first connect.
ScanReaches == ~ ImportDuringInit /\ MaxHeight <= ScanDepth

\* The block that is connected.
LEMMA ConnectedBlock ==
  ASSUME PriceInv, NEW o \in Offers, NEW gap \in Gaps, NEW skip \in BOOLEAN,
         ConnectBlock(o, gap, skip)
  PROVE  \E b \in Block :
            /\ chain' = Append(chain, b) /\ b.kind = o.kind
            /\ b.time = gap + IF chain = <<>> THEN 0 ELSE Last(chain).time
<1> DEFINE t == gap + IF chain = <<>> THEN 0 ELSE Last(chain).time
           b == [price |-> o.price, kind |-> o.kind, time |-> t]
<1>1. t \in Nat
  <2>1. gap \in Nat
    BY LimitsAssumption, SMT
  <2>2. chain # <<>> => Last(chain) \in Block
    BY SMT DEF PriceInv, Last
  <2>3. chain # <<>> => Last(chain).time \in Nat
    BY <2>2, SMT DEF Block
  <2>4. QED  BY <2>1, <2>3, SMT
<1>2. chain' = Append(chain, b)
  BY DEF ConnectBlock
<1> HIDE DEF t
<1>3. b \in Block /\ b.kind = o.kind /\ b.time = t
  BY <1>1, OffersAssumption DEF Block
<1>4. QED  BY <1>2, <1>3 DEF t

\* The history of a connect that records a price, and of one that does not.
LEMMA ConnectedHistory ==
  ASSUME PriceInv, NEW o \in Offers, NEW gap \in Gaps, NEW skip \in BOOLEAN,
         ConnectBlock(o, gap, skip)
  PROVE  LET n == Len(chain) + 1
             p == PointAt(chain', n)
         IN  hist' = IF o.kind = "mint" /\ ~ IsThawDayActive(n) /\ ~ TooRecent(hist, p.time)
                     THEN CleanOldHistory(Append(hist, p)) ELSE hist
<1> DEFINE n == Len(chain) + 1
           p == PointAt(chain', n)
<1>1. IF o.kind = "mint" /\ ~ IsThawDayActive(n)
      THEN RecordAcceptedMintVolatility(p) ELSE UNCHANGED <<hist, freeze>>
  BY DEF ConnectBlock, Height
<1> HIDE DEF p, n
<1>2. CASE o.kind = "mint" /\ ~ IsThawDayActive(n)
  <2>1. hist' = RecordPrice(hist, freeze, p)[1]
    BY <1>1, <1>2 DEF RecordAcceptedMintVolatility
  <2>2. QED  BY <1>2, <2>1 DEF RecordPrice, p, n
<1>3. CASE ~ (o.kind = "mint" /\ ~ IsThawDayActive(n))
  BY <1>1, <1>3 DEF p, n
<1>4. QED  BY <1>2, <1>3

LEMMA OrderConnect ==
  ASSUME PriceInv, OrderInv, ScanReaches, NEW o \in Offers, NEW gap \in Gaps, NEW skip \in BOOLEAN,
         ConnectBlock(o, gap, skip)
  PROVE  OrderInv'
<1> DEFINE n == Len(chain) + 1
           p == PointAt(chain', n)
           h == Append(hist, p)
<1>1. /\ pc = "running" /\ pc' = pc /\ restore' = restore /\ Len(chain) < MaxHeight
      /\ chain \in Seq(Block) /\ hist \in Seq(Point) /\ Len(chain) \in Nat
  BY SMT DEF ConnectBlock, Connects, ScanReaches, Height, PriceInv
<1>2. PICK b \in Block : chain' = Append(chain, b) /\ b.kind = o.kind
  BY ConnectedBlock
<1>3. /\ chain' \in Seq(Block) /\ Len(chain') = n /\ chain'[n] = b
      /\ \A x \in 1..Len(chain) : chain'[x] = chain[x]
  BY <1>1, <1>2, SMT
<1>4. Height' = n /\ Height = Len(chain) /\ n <= MaxHeight /\ n \in Nat
  BY <1>1, <1>3, LimitsAssumption, SMT DEF Height
<1>5. ASSUME ~ restore PROVE Placed(hist, chain', n)
  <2>1. Placed(hist, chain, Len(chain))
    BY <1>1, <1>5 DEF OrderInv, Height
  <2>2. ASSUME NEW i \in 1..Len(hist)
        PROVE  /\ hist[i].height \in 1..n
               /\ hist[i] = PointAt(chain', hist[i].height)
               /\ chain'[hist[i].height].kind = "mint"
    <3>1. /\ hist[i].height \in 1..Len(chain)
          /\ hist[i] = PointAt(chain, hist[i].height)
          /\ chain[hist[i].height].kind = "mint"
      BY <2>1 DEF Placed
    <3>2. chain'[hist[i].height] = chain[hist[i].height]
      BY <1>3, <3>1
    <3>3. QED  BY <1>1, <3>1, <3>2, SMT DEF PointAt
  <2>3. QED  BY <2>2 DEF Placed
<1>6. CASE hist' = hist
  <2>1. ASSUME restore, hist # <<>>, Last(hist).height < ThawHeight
        PROVE  hist = RebuiltHistory(SubSeq(chain', 1, ThawHeight - 1))
    <3>1. Last(hist) \in Point
      BY <1>1, <2>1, SMT DEF Last
    <3>2. Last(hist).height \in Nat
      BY <3>1 DEF Point
    <3>3. ThawHeight - 1 \in 0..Len(chain)
      BY <1>1, <2>1, <3>2, LimitsAssumption, SMT DEF OrderInv, Height
    <3>4. SubSeq(chain', 1, ThawHeight - 1) = SubSeq(chain, 1, ThawHeight - 1)
      BY <1>1, <1>2, <3>3, SMT
    <3>5. hist = RebuiltHistory(SubSeq(chain, 1, ThawHeight - 1))
      BY <1>1, <2>1 DEF OrderInv
    <3>6. QED  BY <3>4, <3>5
  <2>2. restore => n >= ThawHeight
    BY <1>1, LimitsAssumption, SMT DEF OrderInv, Height
  <2>3. /\ Rising(hist')
        /\ restore' <=> restore
        /\ ~ restore => Placed(hist', chain', n) /\ \A i \in 1..Len(hist') : hist'[i].height < ThawHeight
        /\ restore /\ hist' # <<>> /\ Last(hist').height < ThawHeight
             => hist' = RebuiltHistory(SubSeq(chain', 1, ThawHeight - 1))
    BY <1>1, <1>5, <1>6, <2>1 DEF OrderInv
  <2>4. QED  BY <1>1, <1>4, <2>2, <2>3 DEF OrderInv
<1>7. CASE hist' # hist
  <2>1. hist' = CleanOldHistory(h) /\ o.kind = "mint" /\ ~ IsThawDayActive(n)
    BY <1>7, ConnectedHistory
  <2>2. n < ThawHeight
    BY <1>4, <2>1, LimitsAssumption, SMT DEF IsThawDayActive
  <2>3. ~ restore
    BY <1>1, <1>4, <2>2, LimitsAssumption, SMT DEF OrderInv
  <2>4. p \in Point /\ p.height = n
    BY <1>1, <1>3, SMT DEF PointAt, Point, Block
  <2>5. p = PointAt(chain', p.height) /\ chain'[p.height].kind = "mint"
    BY <1>2, <1>3, <2>1, <2>4
  <2> HIDE DEF p
  <2>6. /\ h \in Seq(Point) /\ Len(hist) \in Nat /\ Len(h) = Len(hist) + 1 /\ h[Len(hist) + 1] = p
        /\ \A i \in 1..Len(hist) : h[i] = hist[i]
    BY <1>1, <2>4, SMT
  <2> HIDE DEF h
  <2>7. \A i \in 1..Len(hist) : hist[i].height \in 1..Len(chain)
    BY <1>1, <2>3 DEF OrderInv, Placed, Height
  <2>8. Placed(h, chain', n)
    <3>1. ASSUME NEW i \in 1..Len(h)
          PROVE  /\ h[i].height \in 1..n
                 /\ h[i] = PointAt(chain', h[i].height)
                 /\ chain'[h[i].height].kind = "mint"
      <4>1. CASE i \in 1..Len(hist)
        BY <1>5, <2>3, <2>6, <4>1 DEF Placed
      <4>2. CASE i = Len(hist) + 1
        BY <1>1, <2>4, <2>5, <2>6, <4>2, SMT
      <4>3. QED  BY <2>6, <4>1, <4>2, SMT
    <3>2. QED  BY <3>1 DEF Placed
  <2>9. Rising(h)
    <3>1. ASSUME NEW i \in 1..Len(h), NEW j \in 1..Len(h), i < j PROVE h[i].height < h[j].height
      <4>1. i \in 1..Len(hist)
        BY <2>6, <3>1, SMT
      <4>2. CASE j \in 1..Len(hist)
        BY <2>6, <3>1, <4>1, <4>2 DEF OrderInv, Rising
      <4>3. CASE j = Len(hist) + 1
        BY <1>1, <2>4, <2>6, <2>7, <4>1, <4>3, SMT
      <4>4. QED  BY <2>6, <4>2, <4>3, SMT
    <3>2. QED  BY <3>1 DEF Rising
  <2>10. /\ Rising(hist')
         /\ \A i \in 1..Len(hist') : \E j \in 1..Len(h) : hist'[i] = h[j]
    BY <2>1, <2>6, <2>9, CleanOrder
  <2>11. Placed(hist', chain', n)
    BY <2>8, <2>10 DEF Placed
  <2>12. \A i \in 1..Len(hist') : hist'[i].height < ThawHeight
    BY <1>4, <2>2, <2>11, LimitsAssumption, SMT DEF Placed
  <2>13. QED  BY <1>1, <1>4, <2>3, <2>10, <2>11, <2>12 DEF OrderInv
<1>8. QED  BY <1>6, <1>7

\* What RemovePriceForHeight removes is the tip's point.
LEMMA RemovedHistory ==
  ASSUME PriceInv, OrderInv, pc = "running", ~ restore, RemovePriceForHeight(Len(chain))
  PROVE  LET h == IF hist # <<>> /\ Last(hist).height = Len(chain) THEN Front(hist) ELSE hist
         IN  /\ h \in Seq(Point) /\ Rising(h)
             /\ \A i \in 1..Len(h) : h[i] = hist[i] /\ i \in 1..Len(hist) /\ h[i].height # Len(chain)
             /\ IF h = hist THEN UNCHANGED <<hist, freeze>>
                ELSE hist' = CleanOldHistory(h) /\ freeze' = FreezeOf(CleanOldHistory(h))
<1> DEFINE n == Len(chain)
           h == IF hist # <<>> /\ Last(hist).height = n THEN Front(hist) ELSE hist
<1>1. /\ hist \in Seq(Point) /\ Rising(hist) /\ n \in Nat /\ Len(hist) \in Nat
      /\ hist # <<>> <=> Len(hist) >= 1
      /\ \A i \in 1..Len(hist) : hist[i].height \in 1..n
  BY SMT DEF PriceInv, OrderInv, Placed, Height
<1>2. WithoutHeight(hist, n) = h
  <2>1. \A i \in 1..Len(hist) : hist[i].height <= n
    BY <1>1, SMT
  <2>2. QED  BY <1>1, <2>1, WithoutIs
<1>3. /\ h \in Seq(Point) /\ Len(h) = IF hist # <<>> /\ Last(hist).height = n THEN Len(hist) - 1 ELSE Len(hist)
      /\ \A i \in 1..Len(h) : h[i] = hist[i] /\ i \in 1..Len(hist)
  <2>1. CASE hist # <<>> /\ Last(hist).height = n
    <3>1. h = SubSeq(hist, 1, Len(hist) - 1)
      BY <2>1 DEF Front
    <3>2. QED  BY <1>1, <2>1, <3>1, SMT
  <2>2. CASE ~ (hist # <<>> /\ Last(hist).height = n)
    BY <1>1, <2>2
  <2>3. QED  BY <2>1, <2>2
<1>4. \A i \in 1..Len(h) : h[i].height # n
  <2>1. ASSUME NEW i \in 1..Len(h), hist[i].height = n PROVE FALSE
    <3>1. i \in 1..Len(hist) /\ Len(hist) \in 1..Len(hist)
      BY <1>1, <1>3, SMT
    <3>2. CASE i < Len(hist)
      <4>1. hist[i].height < hist[Len(hist)].height
        BY <1>1, <3>1, <3>2 DEF Rising
      <4>2. QED  BY <1>1, <2>1, <3>1, <4>1, SMT
    <3>3. CASE i = Len(hist)
      <4>1. hist # <<>> /\ Last(hist).height = n
        BY <1>1, <2>1, <3>1, <3>3, SMT DEF Last
      <4>2. Len(h) = Len(hist) - 1
        BY <1>3, <4>1
      <4>3. QED  BY <1>1, <3>3, <4>2, SMT
    <3>4. QED  BY <3>1, <3>2, <3>3, SMT
  <2>2. QED  BY <1>3, <2>1
<1>5. IF h = hist THEN UNCHANGED <<hist, freeze>>
      ELSE hist' = CleanOldHistory(h) /\ freeze' = FreezeOf(CleanOldHistory(h))
  BY <1>2 DEF RemovePriceForHeight
<1>6. Rising(h)
  BY <1>1, <1>3 DEF Rising
<1> HIDE DEF h
<1>7. h \in Seq(Point) /\ Rising(h)
      /\ (\A i \in 1..Len(h) : h[i] = hist[i] /\ i \in 1..Len(hist) /\ h[i].height # n)
      /\ IF h = hist THEN UNCHANGED <<hist, freeze>>
         ELSE hist' = CleanOldHistory(h) /\ freeze' = FreezeOf(CleanOldHistory(h))
  BY <1>3, <1>4, <1>5, <1>6
<1>8. QED  BY <1>7 DEF h

LEMMA OrderDisconnect ==
  ASSUME PriceInv, OrderInv, ScanReaches, DisconnectTip
  PROVE  OrderInv'
<1> DEFINE n == Len(chain)
           c == Front(chain)
<1>1. /\ pc = "running" /\ pc' = pc /\ chain # <<>> /\ chain' = c
      /\ chain \in Seq(Block) /\ hist \in Seq(Point) /\ ThawHeight \in Nat
  BY LimitsAssumption DEF DisconnectTip, Connects, ScanReaches, PriceInv
<1>2. /\ n \in Nat /\ n >= 1 /\ c \in Seq(Block) /\ Len(c) = n - 1
      /\ \A x \in 1..(n - 1) : c[x] = chain[x]
  BY <1>1, FrontIs
<1>3. Height = n /\ Height' = n - 1 /\ n <= MaxHeight
  BY <1>1, <1>2 DEF OrderInv, Height
<1>4. n - 1 <= MaxHeight
  BY <1>2, <1>3, LimitsAssumption, SMT
<1>5. CASE restore /\ ~ IsThawDayActive(n - 1)
  <2>1. hist' = RebuiltHistory(c) /\ ~ restore'
    BY <1>1, <1>3, <1>5 DEF DisconnectTip, LoadPrices
  <2>2. Rising(hist') /\ Placed(hist', chain', n - 1)
    BY <1>1, <1>2, <2>1, RebuiltOrder
  <2>3. \A i \in 1..Len(hist') : hist'[i].height < ThawHeight
    BY <1>2, <1>5, <2>2, LimitsAssumption, SMT DEF Placed, IsThawDayActive
  <2>4. QED  BY <1>1, <1>3, <1>4, <2>1, <2>2, <2>3 DEF OrderInv
<1>6. CASE restore /\ IsThawDayActive(n - 1)
  <2>1. n - 1 >= ThawHeight /\ IsThawDayActive(n)
    BY <1>2, <1>6, LimitsAssumption, SMT DEF IsThawDayActive
  <2>2. DisconnectBlock /\ (restore' <=> restore)
    BY <1>3, <1>6 DEF DisconnectTip
  <2>3. hist' = hist
    BY <1>3, <2>1, <2>2 DEF DisconnectBlock
  <2>4. ASSUME hist # <<>>, Last(hist).height < ThawHeight
        PROVE  hist = RebuiltHistory(SubSeq(chain', 1, ThawHeight - 1))
    <3>1. Last(hist) \in Point
      BY <1>1, <2>4, SMT DEF Last
    <3>2. Last(hist).height \in Nat
      BY <3>1 DEF Point
    <3>3. ThawHeight - 1 \in 0..(n - 1)
      BY <1>2, <2>1, <2>4, <3>2, LimitsAssumption, SMT
    <3>4. SubSeq(c, 1, ThawHeight - 1) = SubSeq(chain, 1, ThawHeight - 1)
      BY <1>1, <1>2, <3>3, SMT
    <3>5. hist = RebuiltHistory(SubSeq(chain, 1, ThawHeight - 1))
      BY <1>1, <1>6, <2>4 DEF OrderInv
    <3>6. QED  BY <1>1, <3>4, <3>5
  <2>5. Rising(hist') /\ restore'
    BY <1>6, <2>2, <2>3 DEF OrderInv
  <2>6. QED  BY <1>1, <1>3, <1>4, <2>1, <2>3, <2>4, <2>5 DEF OrderInv
<1>7. CASE ~ restore
  <2>1. DisconnectBlock /\ ~ restore'
    BY <1>7 DEF DisconnectTip
  <2>2. /\ \A i \in 1..Len(hist) : /\ hist[i].height \in 1..n
                                   /\ hist[i] = PointAt(chain, hist[i].height)
                                   /\ chain[hist[i].height].kind = "mint"
                                   /\ hist[i].height < ThawHeight
        /\ Rising(hist)
    BY <1>1, <1>3, <1>7 DEF OrderInv, Placed
  <2>3. /\ hist' \in Seq(Point) /\ Rising(hist')
        /\ \A i \in 1..Len(hist') : \E j \in 1..Len(hist) : hist'[i] = hist[j] /\ hist[j].height # n
    <3>1. CASE Last(chain).kind = "mint" /\ ~ IsThawDayActive(n)
      <4> DEFINE h == IF hist # <<>> /\ Last(hist).height = Len(chain) THEN Front(hist) ELSE hist
      <4>1. RemovePriceForHeight(n)
        BY <1>3, <2>1, <3>1 DEF DisconnectBlock
      <4>2. /\ h \in Seq(Point) /\ Rising(h)
            /\ \A i \in 1..Len(h) : h[i] = hist[i] /\ i \in 1..Len(hist) /\ h[i].height # n
            /\ IF h = hist THEN UNCHANGED <<hist, freeze>>
               ELSE hist' = CleanOldHistory(h) /\ freeze' = FreezeOf(CleanOldHistory(h))
        BY <1>1, <1>7, <4>1, RemovedHistory
      <4> HIDE DEF h
      <4>3. CASE h = hist
        BY <1>1, <2>2, <4>2, <4>3
      <4>4. CASE h # hist
        <5>1. /\ hist' \in Seq(Point) /\ Rising(hist')
              /\ \A i \in 1..Len(hist') : \E j \in 1..Len(h) : hist'[i] = h[j]
          BY <4>2, <4>4, CleanOrder, CleanIs, SMT
        <5>2. QED  BY <4>2, <5>1
      <4>5. QED  BY <4>3, <4>4
    <3>2. CASE ~ (Last(chain).kind = "mint" /\ ~ IsThawDayActive(n))
      <4>1. hist' = hist
        BY <1>3, <2>1, <3>2 DEF DisconnectBlock
      <4>2. \A i \in 1..Len(hist) : hist[i].height # n
        BY <1>2, <2>2, <3>2, LimitsAssumption, SMT DEF Last, IsThawDayActive
      <4>3. QED  BY <1>1, <2>2, <4>1, <4>2
    <3>3. QED  BY <3>1, <3>2
  <2>4. ASSUME NEW i \in 1..Len(hist')
        PROVE  /\ hist'[i].height \in 1..(n - 1)
               /\ hist'[i] = PointAt(c, hist'[i].height)
               /\ c[hist'[i].height].kind = "mint"
               /\ hist'[i].height < ThawHeight
    <3>1. PICK j \in 1..Len(hist) : hist'[i] = hist[j] /\ hist[j].height # n
      BY <2>3
    <3>2. hist[j].height \in 1..(n - 1)
      BY <1>2, <2>2, <3>1, SMT
    <3>3. c[hist[j].height] = chain[hist[j].height]
      BY <1>2, <3>2
    <3>4. QED  BY <2>2, <3>1, <3>2, <3>3 DEF PointAt
  <2>5. Placed(hist', chain', n - 1) /\ \A i \in 1..Len(hist') : hist'[i].height < ThawHeight
    BY <1>1, <2>4 DEF Placed
  <2>6. QED  BY <1>1, <1>3, <1>4, <2>1, <2>3, <2>5 DEF OrderInv
<1>8. QED  BY <1>5, <1>6, <1>7

LEMMA OrderOther ==
  ASSUME PriceInv, OrderInv, ScanReaches, Stop \/ Start \/ LoadPricesFromChain \/ UNCHANGED vars
  PROVE  OrderInv'
<1>1. chain \in Seq(Block) /\ Len(chain) \in Nat /\ Len(chain) <= MaxHeight
  BY SMT DEF PriceInv, OrderInv, Height
<1>2. Rising(<<>>)
  BY SMT DEF Rising
<1>3. CASE Stop
  <2>1. PICK k \in 0..Len(chain) : chain' = SubSeq(chain, 1, k)
    BY <1>3 DEF Stop, Height
  <2>2. Len(chain') = k /\ k <= MaxHeight
    BY <1>1, <2>1, LimitsAssumption, SMT
  <2>3. hist' = <<>> /\ pc' = "off"
    BY <1>3 DEF Stop
  <2>4. QED  BY <1>2, <2>2, <2>3 DEF OrderInv, Height
<1>4. CASE Start
  <2>1. pc = "off" /\ pc' = "loading" /\ chain' = chain /\ hist' = hist
        /\ (restore' <=> IsThawDayActive(Len(chain)))
    BY <1>4 DEF Start, Height
  <2>2. hist = <<>> /\ Rising(hist)
    BY <2>1 DEF OrderInv
  <2>3. QED  BY <1>1, <2>1, <2>2 DEF OrderInv, Height
<1>5. CASE LoadPricesFromChain
  <2>1. /\ pc = "loading" /\ pc' = "running" /\ chain' = chain /\ restore' = restore
        /\ hist' = RebuiltHistory(chain)
    BY <1>5 DEF LoadPricesFromChain, LoadPrices
  <2>2. restore <=> IsThawDayActive(Len(chain))
    BY <2>1 DEF OrderInv, Height
  <2>3. hist' \in Seq(Point) /\ Rising(hist') /\ Placed(hist', chain', Len(chain))
    BY <1>1, <2>1, RebuiltOrder
  <2>4. ~ restore => \A i \in 1..Len(hist') : hist'[i].height < ThawHeight
    BY <1>1, <2>2, <2>3, LimitsAssumption, SMT DEF Placed, IsThawDayActive
  <2>5. ASSUME restore, hist' # <<>>, Last(hist').height < ThawHeight
        PROVE  hist' = RebuiltHistory(SubSeq(chain', 1, ThawHeight - 1))
    <3>1. Last(hist') \in Point
      BY <2>3, <2>5, SMT DEF Last
    <3>2. Last(hist').height \in Nat
      BY <3>1 DEF Point
    <3> DEFINE m == ThawHeight - 1
    <3>3. m \in 0..Len(chain) /\ Last(hist').height <= m
      BY <1>1, <2>2, <2>5, <3>2, LimitsAssumption, SMT DEF IsThawDayActive
    <3>4. Len(chain) <= ScanDepth
      BY <1>1, LimitsAssumption, SMT DEF ScanReaches
    <3> HIDE DEF m
    <3>5. RebuiltHistory(chain) = RebuiltHistory(SubSeq(chain, 1, m))
      BY <1>1, <2>1, <2>5, <3>3, <3>4, RebuiltStable
    <3>6. QED  BY <2>1, <3>5 DEF m
  <2>6. restore => Len(chain) >= ThawHeight
    BY <2>2 DEF IsThawDayActive
  <2>7. QED  BY <1>1, <2>1, <2>3, <2>4, <2>5, <2>6 DEF OrderInv, Height
<1>6. CASE UNCHANGED vars
  BY <1>6 DEF vars, OrderInv, Height
<1>7. QED  BY <1>3, <1>4, <1>5, <1>6

LEMMA OrderAlways == ASSUME ScanReaches PROVE Spec => []OrderInv
<1>1. Init => OrderInv
  <2> SUFFICES ASSUME Init PROVE OrderInv
    OBVIOUS
  <2>1. chain = <<>> /\ hist = <<>> /\ pc = "loading" /\ (restore <=> IsThawDayActive(0))
    BY DEF Init
  <2>2. Height = 0 /\ 0 <= MaxHeight /\ Rising(hist)
    BY <2>1, LimitsAssumption, SMT DEF Height, Rising
  <2>3. QED  BY <2>1, <2>2 DEF OrderInv
<1>2. PriceInv /\ OrderInv /\ [Next]_vars => OrderInv'
  BY ScanReaches, OrderConnect, OrderDisconnect, OrderOther DEF Next
<1>3. QED  BY <1>1, <1>2, PricesAlways, PTL DEF Spec

\* A freeze begins at the newest point of the history.
LEMMA FreezeAt ==
  ASSUME NEW h \in Seq(Point), FreezeOf(h).mint
  PROVE  h # <<>> /\ Last(h).height \in Nat /\ FreezeOf(h).at = Last(h).height
<1>1. h # <<>>
  BY DEF FreezeOf, NoFreeze
<1>2. Last(h).height \in Nat /\ FreezeOf(h) = Fresh(h, Last(h).height)
  BY <1>1, FreezeIs
<1>3. NoFreeze.mint = FALSE /\ \A b, x : Frozen(b, x).at = x
  BY DEF Frozen, NoFreeze
<1>4. QED  BY <1>1, <1>2, <1>3 DEF Fresh

\* One step of the node while a freeze is on and its block stays.
LEMMA FreezeStays ==
  ASSUME PriceInv, OrderInv, ScanReaches, [Next]_vars,
         pc = "running", pc' = "running", freeze.mint, Len(chain') >= freeze.at
  PROVE  freeze' = freeze
<1>1. /\ chain \in Seq(Block) /\ hist \in Seq(Point) /\ freeze = FreezeOf(hist)
      /\ Len(chain) \in Nat
  BY SMT DEF PriceInv, FreezeFollowsHistory
<1>2. hist # <<>> /\ Last(hist).height \in Nat /\ freeze.at = Last(hist).height
  BY <1>1, FreezeAt
<1>3. ASSUME NEW o \in Offers, NEW gap \in Gaps, NEW skip \in BOOLEAN, ConnectBlock(o, gap, skip)
      PROVE  freeze' = freeze
  BY <1>3 DEF ConnectBlock, MintAllowed
<1>4. CASE DisconnectTip
  <2> DEFINE n == Len(chain)
  <2>1. chain # <<>> /\ chain' = Front(chain) /\ Height = n
    BY <1>4 DEF DisconnectTip, Height
  <2>2. n >= 1 /\ Front(chain) = SubSeq(chain, 1, n - 1) /\ Len(chain') = n - 1
    BY <1>1, <2>1, FrontIs
  <2>3. Last(hist).height <= n - 1
    BY <1>1, <1>2, <2>2
  <2>4. CASE restore /\ ~ IsThawDayActive(n - 1)
    <3>1. n = ThawHeight
      BY <1>1, <2>1, <2>2, <2>4, LimitsAssumption, SMT DEF OrderInv, IsThawDayActive
    <3>2. Last(hist).height < ThawHeight
      BY <1>1, <1>2, <2>3, <3>1, SMT
    <3>3. hist = RebuiltHistory(SubSeq(chain, 1, ThawHeight - 1))
      BY <1>2, <2>4, <3>2 DEF OrderInv
    <3>4. hist = RebuiltHistory(chain')
      BY <2>1, <2>2, <3>1, <3>3
    <3>5. freeze' = FreezeOf(RebuiltHistory(chain'))
      BY <1>4, <2>1, <2>4 DEF DisconnectTip, LoadPrices
    <3>6. QED  BY <1>1, <3>4, <3>5
  <2>5. CASE ~ (restore /\ ~ IsThawDayActive(n - 1))
    <3>1. DisconnectBlock
      BY <1>4, <2>1, <2>5 DEF DisconnectTip
    <3>2. CASE Last(chain).kind = "mint" /\ ~ IsThawDayActive(n)
      <4>1. RemovePriceForHeight(n)
        BY <2>1, <3>1, <3>2 DEF DisconnectBlock
      <4>2. ~ restore
        BY <1>1, <2>1, <3>2, LimitsAssumption DEF OrderInv, IsThawDayActive
      <4>3. ~ (hist # <<>> /\ Last(hist).height = n)
        BY <1>1, <1>2, <2>3, SMT
      <4>4. UNCHANGED <<hist, freeze>>
        BY <4>1, <4>2, <4>3, RemovedHistory
      <4>5. QED  BY <4>4
    <3>3. CASE ~ (Last(chain).kind = "mint" /\ ~ IsThawDayActive(n))
      BY <2>1, <3>1, <3>3 DEF DisconnectBlock
    <3>4. QED  BY <3>2, <3>3
  <2>6. QED  BY <2>4, <2>5
<1>5. CASE Stop \/ Start \/ LoadPricesFromChain
  BY <1>5 DEF Stop, Start, LoadPricesFromChain
<1>6. CASE UNCHANGED vars
  BY <1>6 DEF vars
<1>7. QED  BY <1>3, <1>4, <1>5, <1>6 DEF Next

\* No cooldown ends a legacy freeze: UpdateState runs only for accepted mints,
\* a freeze accepts none, and neither RemovePriceForHeight nor the reload of
\* DisconnectTip across Thaw Day moves it while its block is in the chain.  For
\* chains the scan of LoadPricesFromChain covers.
THEOREM FreezesLast == ASSUME ScanReaches PROVE Spec => FreezeLastsWithItsBlock
<1>1. PriceInv /\ OrderInv /\ [Next]_vars
      => [pc = "running" /\ pc' = "running" /\ freeze.mint /\ Len(chain') >= freeze.at
             => freeze' = freeze]_vars
  BY ScanReaches, FreezeStays
<1>2. QED  BY <1>1, PricesAlways, OrderAlways, ScanReaches, PTL DEF Spec, FreezeLastsWithItsBlock
-----------------------------------------------------------------------------
(* The history is the scan of the chain.                                   *)

\* The chain is no longer and no older than the history may be, and
\* MIN_PRICE_INTERVAL is the hour LoadPricesFromChain samples with.
HistorySetting(gap) ==
    /\ ScanReaches /\ MinInterval = 3600
    /\ MaxHeight <= MaxPoints
    /\ gap \in Nat /\ MaxHeight * gap <= MaxAge
    /\ \A g \in Gaps : g <= gap

\* CleanOldHistory keeps a history that is young and short.
LEMMA CleanYoung ==
  ASSUME NEW h \in Seq(Point), Len(h) <= MaxPoints, \A i \in 1..Len(h) : h[i].time <= MaxAge
  PROVE  CleanOldHistory(h) = h
<1> DEFINE n == Len(h)
           young == {i \in 1..(n + 1) : \A j \in i..n : h[j].time >= Last(h).time - MaxAge}
<1>1. n \in Nat /\ MaxPoints \in Nat /\ MaxAge \in Nat /\ \A i \in 1..n : h[i].time \in Nat
  <2>1. \A i \in 1..n : h[i] \in Point
    BY SMT
  <2>2. QED  BY <2>1, LimitsAssumption, SMT DEF Point
<1>2. 1 \in young
  <2>1. ASSUME NEW j \in 1..n PROVE h[j].time >= Last(h).time - MaxAge
    <3>1. n \in 1..n
      BY <1>1, SMT
    <3>2. Last(h).time \in Nat /\ Last(h).time <= MaxAge /\ h[j].time \in Nat
      BY <1>1, <3>1 DEF Last
    <3> DEFINE x == Last(h).time
               y == h[j].time
    <3>3. x \in Nat /\ x <= MaxAge /\ y \in Nat
      BY <3>2
    <3> HIDE DEF x, y
    <3>4. y >= x - MaxAge
      BY <1>1, <3>3, SMT
    <3>5. QED  BY <3>4 DEF x, y
  <2>2. QED  BY <1>1, <2>1, SMT
<1>3. Min(young) = 1
  <2>1. young \in SUBSET (1..(n + 1)) /\ n + 1 \in Nat
    BY <1>1, SMT
  <2> HIDE DEF young, n
  <2>2. Min(young) \in young /\ Min(young) <= 1
    BY <1>2, <2>1, MinIn
  <2>3. Min(young) \in 1..(n + 1)
    BY <2>1, <2>2
  <2>4. QED  BY <2>2, <2>3, SMT
<1>4. SubSeq(h, 1, n) = h
  BY <1>1, SMT
<1>5. InWindow(h, MaxAge) = h
  BY <1>3, <1>4 DEF InWindow
<1>6. Max({1, n - MaxPoints + 1}) = 1
  <2> HIDE DEF n
  <2>1. n <= MaxPoints
    BY DEF n
  <2>2. QED  BY <1>1, <2>1, SMT DEF Max
<1>7. QED  BY <1>4, <1>5, <1>6 DEF CleanOldHistory

\* Block x is at most x gaps old.
Paced(c, gap) == \A x \in 1..Len(c) : c[x].time <= x * gap

LEMMA PacedIsYoung ==
  ASSUME NEW gap, HistorySetting(gap), NEW c \in Seq(Block), Len(c) <= MaxHeight, Paced(c, gap)
  PROVE  \A x \in 1..Len(c) : c[x].time <= MaxAge
<1>1. MaxHeight \in Nat /\ gap \in Nat /\ MaxAge \in Nat /\ MaxHeight * gap <= MaxAge /\ Len(c) \in Nat
  BY LimitsAssumption, SMT DEF HistorySetting
<1>2. ASSUME NEW x \in 1..Len(c) PROVE c[x].time <= MaxAge
  <2>1. c[x].time \in Nat /\ c[x].time <= x * gap
    <3>1. c[x] \in Block
      BY SMT
    <3>2. QED  BY <3>1 DEF Paced, Block
  <2>2. x \in Nat /\ x <= MaxHeight
    BY <1>1, SMT
  <2>3. x * gap <= MaxHeight * gap
    BY <1>1, <2>2, SMT
  <2>4. x * gap \in Nat /\ MaxHeight * gap \in Nat
    BY <1>1, <2>2, SMT
  <2> HIDE DEF HistorySetting
  <2> DEFINE u == x * gap
             v == MaxHeight * gap
             t == c[x].time
  <2>5. u \in Nat /\ v \in Nat /\ t \in Nat /\ t <= u /\ u <= v /\ v <= MaxAge
    BY <1>1, <2>1, <2>3, <2>4
  <2> HIDE DEF u, v, t
  <2>6. t <= MaxAge
    BY <1>1, <2>5, SMT
  <2>7. QED  BY <2>6 DEF t
<1>3. QED  BY <1>2

\* What the scan finds is not cleaned.
LEMMA RebuiltIsScan ==
  ASSUME NEW gap, HistorySetting(gap), NEW c \in Seq(Block), Len(c) <= MaxHeight, Paced(c, gap)
  PROVE  RebuiltHistory(c) = ScanHistory(c)
<1> DEFINE s == ScanHistory(c)
<1>1. s \in Seq(Point) /\ Placed(s, c, Len(c)) /\ Len(s) <= Len(c)
  BY ScanFacts
<1> HIDE DEF s
<1>2. Len(s) <= MaxPoints
  <2>1. MaxHeight \in Nat /\ MaxPoints \in Nat /\ MaxHeight <= MaxPoints
    BY LimitsAssumption DEF HistorySetting
  <2>2. QED  BY <1>1, <2>1, SMT
<1>3. ASSUME NEW i \in 1..Len(s) PROVE s[i].time <= MaxAge
  <2>1. s[i].height \in 1..Len(c) /\ s[i] = PointAt(c, s[i].height)
    BY <1>1 DEF Placed
  <2>2. s[i].time = c[s[i].height].time
    BY <2>1, SMT DEF PointAt
  <2>3. QED  BY <2>1, <2>2, PacedIsYoung
<1>4. CleanOldHistory(s) = s
  BY <1>1, <1>2, <1>3, CleanYoung
<1>5. QED  BY <1>4 DEF RebuiltHistory, s

\* The scan of a chain goes one block beyond that of the chain below its tip.
LEMMA ScanTip ==
  ASSUME NEW c \in Seq(Block), Len(c) <= ScanDepth, c # <<>>
  PROVE  ScanHistory(c) = ScanStep(ScanHistory(SubSeq(c, 1, Len(c) - 1)), c, Len(c))
<1>1. Len(c) \in Nat /\ Len(c) >= 1 /\ Len(c) - 1 \in 0..Len(c) /\ Len(c) \in 1..Len(c)
  BY SMT
<1>2. PICK g : /\ g \in [0..Len(c) -> Seq(Point)]
               /\ \A k \in 1..Len(c) : g[k] = ScanStep(g[k - 1], c, k)
               /\ ScanHistory(c) = g[Len(c)] /\ ScanHistory(SubSeq(c, 1, Len(c) - 1)) = g[Len(c) - 1]
  BY <1>1, ScanPrefix
<1>3. QED  BY <1>1, <1>2

\* The blocks below Thaw Day.
LEMMA BelowThaw ==
  ASSUME NEW c \in Seq(Block)
  PROVE  SubSeq(c, 1, Min({Len(c), ThawHeight - 1})) =
           IF Len(c) < ThawHeight THEN c ELSE SubSeq(c, 1, ThawHeight - 1)
<1> DEFINE n == Len(c)
           t == ThawHeight - 1
<1>1. n \in Nat /\ t \in Int /\ ThawHeight \in Nat /\ SubSeq(c, 1, n) = c
  BY LimitsAssumption, SMT
<1>2. (n < ThawHeight => n <= t) /\ (~ (n < ThawHeight) => t <= n) /\ (n <= t => n < ThawHeight)
  BY <1>1, SMT
<1> HIDE DEF n, t
<1>3. Min({n, t}) = IF n <= t THEN n ELSE t
  BY <1>1, SMT DEF Min
<1>4. QED  BY <1>1, <1>2, <1>3 DEF n, t

LEMMA LegacyIs ==
  /\ chain \in Seq(Block) =>
        LegacyChain = IF Len(chain) < ThawHeight THEN chain ELSE SubSeq(chain, 1, ThawHeight - 1)
  /\ chain' \in Seq(Block) =>
        LegacyChain' = IF Len(chain') < ThawHeight THEN chain' ELSE SubSeq(chain', 1, ThawHeight - 1)
  BY BelowThaw DEF LegacyChain, Height

\* Blocks are paced, and the history is the scan of the chain below Thaw Day.
HistoryInv(gap) ==
    /\ Paced(chain, gap)
    /\ pc = "running" /\ ~ restore => hist = ScanHistory(LegacyChain)

LEMMA HistoryConnect ==
  ASSUME NEW gap, HistorySetting(gap), PriceInv, OrderInv, HistoryInv(gap),
         NEW o \in Offers, NEW step \in Gaps, NEW skip \in BOOLEAN, ConnectBlock(o, step, skip)
  PROVE  HistoryInv(gap)'
<1> DEFINE n == Len(chain) + 1
           p == PointAt(chain', n)
           s == ScanHistory(chain)
<1>1. /\ pc = "running" /\ pc' = pc /\ restore' = restore /\ Len(chain) < MaxHeight
      /\ chain \in Seq(Block) /\ hist \in Seq(Point) /\ Len(chain) \in Nat
  BY SMT DEF ConnectBlock, Connects, HistorySetting, ScanReaches, Height, PriceInv
<1>2. PICK b \in Block : /\ chain' = Append(chain, b) /\ b.kind = o.kind
                         /\ b.time = step + IF chain = <<>> THEN 0 ELSE Last(chain).time
  BY ConnectedBlock
<1>3. /\ chain' \in Seq(Block) /\ Len(chain') = n /\ chain'[n] = b /\ chain' # <<>>
      /\ \A x \in 1..Len(chain) : chain'[x] = chain[x]
      /\ SubSeq(chain', 1, n - 1) = chain
  BY <1>1, <1>2, SMT
<1>4. /\ gap \in Nat /\ step \in Nat /\ step <= gap /\ n \in Nat /\ n <= MaxHeight
      /\ MaxHeight <= ScanDepth /\ ScanDepth \in Nat /\ MaxHeight \in Nat /\ ThawHeight \in Nat
  BY <1>1, LimitsAssumption, SMT DEF HistorySetting, ScanReaches
<1>5. b.time <= n * gap
  <2>1. CASE chain = <<>>
    <3>1. n = 1 /\ b.time = step
      BY <1>2, <1>4, <2>1, SMT
    <3>2. QED  BY <1>4, <3>1, SMT
  <2>2. CASE chain # <<>>
    <3> DEFINE m == Len(chain)
               t == Last(chain).time
    <3>1. m \in 1..m /\ m \in Nat /\ chain[m] \in Block /\ t = chain[m].time
      BY <1>1, <2>2, SMT DEF Last
    <3>2. t \in Nat /\ t <= m * gap
      BY <3>1 DEF HistoryInv, Paced, Block
    <3>3. b.time = step + t
      BY <1>2, <2>2
    <3>4. n * gap = m * gap + gap /\ m * gap \in Nat
      BY <1>4, <3>1, SMT
    <3> DEFINE u == m * gap
    <3> HIDE DEF m, t, u
    <3>5. t \in Nat /\ u \in Nat /\ t <= u /\ n * gap = u + gap
      BY <3>2, <3>4 DEF u
    <3>6. step + t <= u + gap
      BY <1>4, <3>5, SMT
    <3>7. QED  BY <3>3, <3>5, <3>6
  <2>3. QED  BY <2>1, <2>2
<1>6. Paced(chain', gap)
  <2>1. ASSUME NEW x \in 1..Len(chain') PROVE chain'[x].time <= x * gap
    <3>1. CASE x \in 1..Len(chain)
      BY <1>3, <3>1 DEF HistoryInv, Paced
    <3>2. CASE x = n
      BY <1>3, <1>5, <3>2
    <3>3. QED  BY <1>1, <1>3, <3>1, <3>2, SMT
  <2>2. QED  BY <2>1 DEF Paced
<1>7. ASSUME ~ restore PROVE hist' = ScanHistory(LegacyChain')
  <2>1. hist = ScanHistory(LegacyChain)
    BY <1>1, <1>7 DEF HistoryInv
  <2>2. LegacyChain = IF Len(chain) < ThawHeight THEN chain ELSE SubSeq(chain, 1, ThawHeight - 1)
    BY <1>1, LegacyIs
  <2>3. LegacyChain' = IF n < ThawHeight THEN chain' ELSE SubSeq(chain', 1, ThawHeight - 1)
    BY <1>3, LegacyIs
  <2>4. hist' = IF o.kind = "mint" /\ ~ IsThawDayActive(n) /\ ~ TooRecent(hist, p.time)
                THEN CleanOldHistory(Append(hist, p)) ELSE hist
    BY ConnectedHistory
  <2>5. CASE n >= ThawHeight
    <3>1. hist' = hist
      BY <2>4, <2>5 DEF IsThawDayActive
    <3>2. LegacyChain' = SubSeq(chain', 1, ThawHeight - 1)
      BY <1>4, <2>3, <2>5, SMT
    <3>3. LegacyChain' = LegacyChain
      <4>1. CASE Len(chain) < ThawHeight
        <5>1. ThawHeight - 1 = n - 1
          BY <1>1, <1>4, <2>5, <4>1, SMT
        <5>2. QED  BY <1>3, <2>2, <3>2, <4>1, <5>1
      <4>2. CASE ~ (Len(chain) < ThawHeight)
        <5>1. ThawHeight - 1 \in -1..Len(chain)
          BY <1>1, <1>4, <4>2, SMT
        <5>2. SubSeq(chain', 1, ThawHeight - 1) = SubSeq(chain, 1, ThawHeight - 1)
          BY <1>1, <1>2, <5>1, SMT
        <5>3. QED  BY <2>2, <3>2, <4>2, <5>2
      <4>3. QED  BY <4>1, <4>2
    <3>4. QED  BY <2>1, <3>1, <3>3
  <2>6. CASE n < ThawHeight
    <3>1. Len(chain) < ThawHeight /\ ~ IsThawDayActive(n)
      BY <1>1, <1>4, <2>6, SMT DEF IsThawDayActive
    <3>2. hist = s /\ LegacyChain' = chain'
      BY <2>1, <2>2, <2>3, <2>6, <3>1
    <3>3. ScanHistory(chain') = ScanStep(s, chain', n)
      <4>1. Len(chain') <= ScanDepth
        BY <1>3, <1>4, SMT
      <4>2. QED  BY <1>3, <4>1, ScanTip
    <3>4. p = [price |-> b.price, time |-> b.time, height |-> n]
      BY <1>3 DEF PointAt
    <3>5. TooRecent(hist, p.time) <=> ~ (hist = <<>> \/ b.time - Last(hist).time >= 3600)
      <4>1. MinInterval = 3600 /\ p.time = b.time /\ b.time \in Nat
        BY <3>4, SMT DEF HistorySetting, Block
      <4>2. hist # <<>> => Last(hist) \in Point
        BY <1>1, SMT DEF Last
      <4>3. hist # <<>> => Last(hist).time \in Nat
        BY <4>2 DEF Point
      <4>4. QED  BY <4>1, <4>3, SMT DEF TooRecent
    <3>6. ScanHistory(chain') = IF o.kind = "mint" /\ ~ TooRecent(hist, p.time)
                                THEN Append(hist, p) ELSE hist
      BY <1>2, <1>3, <3>2, <3>3, <3>5, SMT DEF ScanStep
    <3>7. RebuiltHistory(chain') = ScanHistory(chain')
      BY <1>3, <1>4, <1>6, RebuiltIsScan
    <3> HIDE DEF p, s
    <3>8. CASE o.kind = "mint" /\ ~ TooRecent(hist, p.time)
      BY <2>4, <3>1, <3>2, <3>6, <3>7, <3>8 DEF RebuiltHistory
    <3>9. CASE ~ (o.kind = "mint" /\ ~ TooRecent(hist, p.time))
      BY <2>4, <3>2, <3>6, <3>9
    <3>10. QED  BY <3>8, <3>9
  <2>7. QED  BY <1>4, <2>5, <2>6, SMT
<1>8. QED  BY <1>1, <1>6, <1>7 DEF HistoryInv
LEMMA HistoryDisconnect ==
  ASSUME NEW gap, HistorySetting(gap), PriceInv, OrderInv, HistoryInv(gap), DisconnectTip
  PROVE  HistoryInv(gap)'
<1> DEFINE n == Len(chain)
           c == Front(chain)
           s == ScanHistory(c)
<1>1. /\ pc = "running" /\ pc' = pc /\ chain # <<>> /\ chain' = c /\ Height = n
      /\ chain \in Seq(Block) /\ hist \in Seq(Point) /\ ThawHeight \in Nat
  BY LimitsAssumption DEF DisconnectTip, Connects, HistorySetting, ScanReaches, PriceInv, Height
<1>2. /\ n \in Nat /\ n >= 1 /\ c \in Seq(Block) /\ Len(c) = n - 1 /\ c = SubSeq(chain, 1, n - 1)
      /\ \A x \in 1..(n - 1) : c[x] = chain[x]
  BY <1>1, FrontIs
<1>3. n <= MaxHeight /\ n - 1 <= MaxHeight /\ n <= ScanDepth
  <2>1. MaxHeight \in Nat /\ ScanDepth \in Nat /\ MaxHeight <= ScanDepth /\ n <= MaxHeight
    BY <1>1, LimitsAssumption DEF HistorySetting, ScanReaches, OrderInv
  <2>2. QED  BY <1>2, <2>1, SMT
<1>4. Paced(chain', gap)
  BY <1>1, <1>2, SMT DEF HistoryInv, Paced
<1>5. RebuiltHistory(c) = s
  BY <1>1, <1>2, <1>3, <1>4, RebuiltIsScan
<1>6. s \in Seq(Point) /\ Placed(s, c, n - 1)
  BY <1>2, ScanFacts
<1>7. LegacyChain' = IF n - 1 < ThawHeight THEN c ELSE SubSeq(c, 1, ThawHeight - 1)
  BY <1>1, <1>2, LegacyIs
<1>8. LegacyChain = IF n < ThawHeight THEN chain ELSE SubSeq(chain, 1, ThawHeight - 1)
  BY <1>1, LegacyIs
<1>9. ASSUME ~ restore' PROVE hist' = ScanHistory(LegacyChain')
  <2>1. CASE restore
    <3>1. ~ IsThawDayActive(n - 1)
      BY <1>1, <1>9, <2>1 DEF DisconnectTip
    <3>2. hist' = RebuiltHistory(c)
      BY <1>1, <2>1, <3>1 DEF DisconnectTip, LoadPrices
    <3>3. n - 1 < ThawHeight
      BY <1>1, <1>2, <3>1, SMT DEF IsThawDayActive
    <3>4. QED  BY <1>5, <1>7, <3>2, <3>3
  <2>2. CASE ~ restore
    <3>1. DisconnectBlock /\ hist = ScanHistory(LegacyChain)
      BY <1>1, <2>2 DEF DisconnectTip, HistoryInv
    <3>2. CASE n >= ThawHeight
      <4>1. hist' = hist
        BY <1>1, <3>1, <3>2 DEF DisconnectBlock, IsThawDayActive
      <4>2. LegacyChain = SubSeq(chain, 1, ThawHeight - 1)
        BY <1>1, <1>2, <1>8, <3>2, SMT
      <4>3. LegacyChain' = SubSeq(chain, 1, ThawHeight - 1)
        <5>1. CASE n - 1 < ThawHeight
          <6>1. n - 1 = ThawHeight - 1
            BY <1>1, <1>2, <3>2, <5>1, SMT
          <6>2. QED  BY <1>2, <1>7, <5>1, <6>1
        <5>2. CASE ~ (n - 1 < ThawHeight)
          <6>1. ThawHeight - 1 \in -1..(n - 1)
            BY <1>1, <1>2, <5>2, SMT
          <6>2. SubSeq(c, 1, ThawHeight - 1) = SubSeq(chain, 1, ThawHeight - 1)
            BY <1>1, <1>2, <6>1, SMT
          <6>3. QED  BY <1>7, <5>2, <6>2
        <5>3. QED  BY <5>1, <5>2
      <4>4. QED  BY <3>1, <4>1, <4>2, <4>3
    <3>3. CASE n < ThawHeight
      <4>1. LegacyChain = chain /\ LegacyChain' = c /\ ~ IsThawDayActive(n)
        BY <1>1, <1>2, <1>7, <1>8, <3>3, SMT DEF IsThawDayActive
      <4>2. hist = ScanStep(s, chain, n)
        BY <1>1, <1>2, <1>3, <3>1, <4>1, ScanTip
      <4> DEFINE q == PointAt(chain, n)
                 h == IF hist # <<>> /\ Last(hist).height = n THEN Front(hist) ELSE hist
      <4>3. q.height = n
        BY DEF PointAt
      <4> HIDE DEF s, c, q
      <4>4. CASE Last(chain).kind = "mint"
        <5>1. RemovePriceForHeight(n)
          BY <1>1, <3>1, <4>1, <4>4 DEF DisconnectBlock
        <5>2. IF h = hist THEN UNCHANGED <<hist, freeze>>
              ELSE hist' = CleanOldHistory(h) /\ freeze' = FreezeOf(CleanOldHistory(h))
          BY <1>1, <2>2, <5>1, RemovedHistory
        <5>3. CASE hist = s
          <6>1. ~ (hist # <<>> /\ Last(hist).height = n)
            <7>1. ASSUME hist # <<>> PROVE Last(hist).height \in 1..(n - 1)
              <8>1. Len(s) \in 1..Len(s) /\ Last(s) = s[Len(s)]
                BY <1>6, <5>3, <7>1, SMT DEF Last
              <8>2. QED  BY <1>6, <5>3, <8>1 DEF Placed
            <7>2. QED  BY <1>2, <7>1, SMT
          <6>2. hist' = hist
            BY <5>2, <6>1
          <6>3. QED  BY <4>1, <5>3, <6>2 DEF s, c
        <5>4. CASE hist = Append(s, q)
          <6>1. hist # <<>> /\ Last(hist) = q /\ Front(hist) = s /\ s # hist
            BY <1>6, <5>4, SMT DEF Last, Front
          <6>2. h = s
            BY <4>3, <6>1
          <6>3. hist' = CleanOldHistory(s)
            BY <5>2, <6>1, <6>2
          <6>4. QED  BY <1>5, <4>1, <6>3 DEF s, RebuiltHistory
        <5>5. QED  BY <4>2, <5>3, <5>4, SMT DEF ScanStep, q
      <4>5. CASE Last(chain).kind # "mint"
        <5>1. hist' = hist
          BY <3>1, <4>5 DEF DisconnectBlock
        <5>2. hist = s
          BY <4>2, <4>5 DEF ScanStep, Last
        <5>3. QED  BY <4>1, <5>1, <5>2 DEF s
      <4>6. QED  BY <4>4, <4>5
    <3>4. QED  BY <1>1, <1>2, <3>2, <3>3, SMT
  <2>3. QED  BY <2>1, <2>2
<1>10. QED  BY <1>1, <1>4, <1>9 DEF HistoryInv

LEMMA HistoryOther ==
  ASSUME NEW gap, HistorySetting(gap), PriceInv, OrderInv, HistoryInv(gap),
         Stop \/ Start \/ LoadPricesFromChain \/ UNCHANGED vars
  PROVE  HistoryInv(gap)'
<1>1. chain \in Seq(Block) /\ Len(chain) \in Nat /\ Paced(chain, gap) /\ Len(chain) <= MaxHeight
  BY SMT DEF PriceInv, OrderInv, HistoryInv, Height
<1>2. CASE Stop
  <2>1. PICK k \in 0..Len(chain) : chain' = SubSeq(chain, 1, k)
    BY <1>2 DEF Stop, Height
  <2>2. Len(chain') = k /\ \A x \in 1..k : chain'[x] = chain[x] /\ x \in 1..Len(chain)
    BY <1>1, <2>1, SMT
  <2>3. Paced(chain', gap)
    BY <1>1, <2>2 DEF Paced
  <2>4. pc' = "off"
    BY <1>2 DEF Stop
  <2>5. QED  BY <2>3, <2>4 DEF HistoryInv
<1>3. CASE Start
  <2>1. chain' = chain /\ pc' = "loading"
    BY <1>3 DEF Start
  <2>2. QED  BY <1>1, <2>1 DEF HistoryInv
<1>4. CASE LoadPricesFromChain
  <2>1. /\ pc = "loading" /\ chain' = chain /\ restore' = restore /\ hist' = RebuiltHistory(chain)
    BY <1>4 DEF LoadPricesFromChain, LoadPrices
  <2>2. ~ restore => Len(chain) < ThawHeight
    BY <1>1, <2>1, LimitsAssumption, SMT DEF OrderInv, Height, IsThawDayActive
  <2>3. ~ restore => LegacyChain' = chain
    BY <1>1, <2>1, <2>2, LegacyIs
  <2>4. RebuiltHistory(chain) = ScanHistory(chain)
    BY <1>1, RebuiltIsScan
  <2>5. QED  BY <1>1, <2>1, <2>3, <2>4 DEF HistoryInv
<1>5. CASE UNCHANGED vars
  <2>1. chain' = chain /\ pc' = pc /\ restore' = restore /\ hist' = hist /\ LegacyChain' = LegacyChain
    BY <1>5 DEF vars, LegacyChain, Height
  <2>2. QED  BY <2>1 DEF HistoryInv
<1>6. QED  BY <1>2, <1>3, <1>4, <1>5

\* The history ConnectBlock and DisconnectBlock keep, point by point, through
\* reorganisations below and across Thaw Day and through restarts, is the one
\* that LoadPricesFromChain would scan from the chain.  For chains that the scan
\* and the limits of CleanOldHistory cover.
THEOREM HistoryIsTheScan ==
  ASSUME NEW gap, HistorySetting(gap)
  PROVE  Spec => []HistoryMatchesScan
<1>1. ScanReaches
  BY DEF HistorySetting
<1>2. Init => HistoryInv(gap)
  BY SMT DEF Init, HistoryInv, Paced
<1>3. PriceInv /\ OrderInv /\ HistoryInv(gap) /\ [Next]_vars => HistoryInv(gap)'
  BY HistorySetting(gap), HistoryConnect, HistoryDisconnect, HistoryOther DEF Next
<1>4. PriceInv /\ OrderInv /\ HistoryInv(gap) => HistoryMatchesScan
  <2> SUFFICES ASSUME PriceInv, OrderInv, HistoryInv(gap), pc = "running", ~ restore
               PROVE  hist = RebuiltHistory(LegacyChain)
    BY DEF HistoryMatchesScan
  <2> DEFINE l == LegacyChain
  <2>1. /\ chain \in Seq(Block) /\ Len(chain) \in Nat /\ Len(chain) <= MaxHeight /\ MaxHeight \in Nat
        /\ Paced(chain, gap) /\ hist = ScanHistory(l) /\ ThawHeight \in Nat
    BY LimitsAssumption, SMT DEF PriceInv, OrderInv, HistoryInv, Height
  <2>2. l = IF Len(chain) < ThawHeight THEN chain ELSE SubSeq(chain, 1, ThawHeight - 1)
    BY <2>1, LegacyIs
  <2> HIDE DEF l
  <2>3. l \in Seq(Block) /\ Len(l) <= Len(chain) /\ \A x \in 1..Len(l) : l[x] = chain[x] /\ x \in 1..Len(chain)
    BY <2>1, <2>2, SMT
  <2>4. Len(l) \in Nat /\ Len(l) <= MaxHeight
    BY <2>1, <2>3, SMT
  <2>5. Paced(l, gap)
    BY <2>1, <2>3 DEF Paced
  <2>6. RebuiltHistory(l) = ScanHistory(l)
    BY <2>3, <2>4, <2>5, RebuiltIsScan
  <2>7. QED  BY <2>1, <2>6 DEF l
<1>5. QED  BY <1>1, <1>2, <1>3, <1>4, PricesAlways, OrderAlways, PTL DEF Spec
=============================================================================
