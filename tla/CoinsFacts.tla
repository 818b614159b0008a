----------------------------- MODULE CoinsFacts -----------------------------
(***************************************************************************)
(* What the operators of CanonicalHealth compute, for every block tree:    *)
(* connecting and disconnecting a block moves the coins, the totals of the *)
(* record and the legacy totals between those of the block and those of    *)
(* its parent, and replaying an interrupted write settles the coins at the *)
(* block it was for.                                                       *)
(***************************************************************************)
EXTENDS CanonicalHealth, FoldFacts

\* Most steps are first-order reasoning, which Zenon does; the others name SMT.
USE Zenon

\* A branch holds its own end and, with a block, the block's parent.
LEMMA BranchFacts ==
  ASSUME NEW b \in Blocks
  PROVE  /\ b \in Branch[b]
         /\ \A a \in Branch[b] : a # Genesis => Parent[a] \in Branch[b]
<1>1. \A a \in Blocks : a \in Branch[a]
  <2>1. Genesis \in Branch[Genesis]
    BY TreeAssumption, SMT
  <2>2. \A a \in Blocks \ {Genesis} : Branch[a] = Branch[Parent[a]] \cup {a}
    BY TreeAssumption
  <2>3. QED  BY <2>1, <2>2
<1>2. \A a \in Branch[b] : a \in Blocks /\ Branch[a] \subseteq Branch[b]
  BY TreeAssumption
<1>3. \A a \in Blocks \ {Genesis} : Parent[a] \in Blocks /\ Branch[a] = Branch[Parent[a]] \cup {a}
  BY TreeAssumption
<1>4. QED  BY <1>1, <1>2, <1>3, SMT

TxSet == [kind : {"mint", "redeem"}, vault : Vaults]

\* The vaults a block mints and redeems.
Minted(b) == {v \in Vaults : \E i \in DOMAIN Txs[b] : Txs[b][i] = [kind |-> "mint", vault |-> v]}
Redeemed(b) == {v \in Vaults : \E i \in DOMAIN Txs[b] : Txs[b][i] = [kind |-> "redeem", vault |-> v]}
Touched(b) == Minted(b) \cup Redeemed(b)

\* The transactions of a block.
LEMMA TxsType ==
  ASSUME NEW b \in Blocks
  PROVE  /\ Txs[b] \in Seq(TxSet) /\ Len(Txs[b]) \in Nat
         /\ DOMAIN Txs[b] = 1..Len(Txs[b])
         /\ \A i \in 1..Len(Txs[b]) : Txs[b][i] \in TxSet
<1>1. Txs[b] \in Seq(TxSet)
  BY CoinsAssumption DEF TxSet
<1>2. QED  BY <1>1, SMT

\* One transaction.
ApplyTx(s, t) == IF t.kind = "mint" THEN s \cup {t.vault} ELSE s \ {t.vault}
UnapplyTx(s, t) == IF t.kind = "mint" THEN s \ {t.vault} ELSE s \cup {t.vault}

\* The coins after each transaction of a block that is applied or undone.
ApplyChain(h, open, b) ==
    /\ h \in [0..Len(Txs[b]) -> SUBSET Vaults]
    /\ h[0] = open
    /\ \A k \in 1..Len(Txs[b]) : h[k] = ApplyTx(h[k - 1], Txs[b][k])

UnapplyChain(h, open, b) ==
    /\ h \in [0..Len(Txs[b]) -> SUBSET Vaults]
    /\ h[0] = open
    /\ \A k \in 1..Len(Txs[b]) : h[k] = UnapplyTx(h[k - 1], Reverse(Txs[b])[k])

\* Apply and Unapply compute them.
LEMMA ApplySteps ==
  ASSUME NEW open \in SUBSET Vaults, NEW b \in Blocks
  PROVE  \E h : ApplyChain(h, open, b) /\ Apply(open, b) = h[Len(Txs[b])]
<1> DEFINE q == Txs[b]
           n == Len(Txs[b])
           D == 1..n
           G == [p \in D \X SUBSET Vaults |-> ApplyTx(p[2], q[p[1]])]
           Rec(it) == it = [s \in SUBSET D |-> IF s = {} THEN open
                                              ELSE ApplyTx(it[s \ {Max(s)}], q[Max(s)])]
           it == CHOOSE it : Rec(it)
           V == SUBSET Vaults
<1>1. n \in Nat /\ DOMAIN q = D /\ \A i \in D : q[i] \in TxSet
  BY TxsType
<1>2. \A i \in D, s \in SUBSET Vaults : ApplyTx(s, q[i]) \in SUBSET Vaults
  BY <1>1 DEF ApplyTx, TxSet
<1>3. PICK f : SeqFold(f, n, SUBSET Vaults, open, G)
  BY <1>1, <1>2, SeqFoldExists
<1>4. Rec(f)
  BY <1>3 DEF SeqFold
<1>5. Rec(it)
  BY <1>4
<1>6. Apply(open, b) = it[D]
  BY <1>1 DEF Apply, FoldLeft, MapThenFoldSet, ApplyTx
<1> HIDE DEF it
<1>7. it[{}] = open /\ \A k \in D : it[1..k] = ApplyTx(it[1..(k - 1)], q[k])
  <2>1. ASSUME NEW k \in D PROVE it[1..k] = ApplyTx(it[1..(k - 1)], q[k])
    <3>1. Max(1..k) = k /\ (1..k) \ {k} = 1..(k - 1) /\ 1..k # {} /\ 1..k \in SUBSET D
      BY <1>1, Prefix
    <3>2. QED  BY <1>5, <3>1
  <2>2. QED  BY <1>5, <2>1
<1> HIDE DEF q, n
<1>8. it[{}] \in V /\ \A k \in D : it[1..(k - 1)] \in V => it[1..k] \in V
  BY <1>2, <1>7
<1> HIDE DEF V
<1>9. PICK h : Chain(h, n, V, it) /\ h[0] = it[{}]
  BY <1>1, <1>8, FoldChain
<1>10. \A k \in D : h[k] = it[1..k] /\ h[k - 1] = it[1..(k - 1)]
  BY <1>1, <1>9, SMT DEF Chain
<1>11. \A k \in D : h[k] = ApplyTx(h[k - 1], q[k])
  BY <1>7, <1>10
<1>12. h[n] = it[D]
  BY <1>1, <1>9, SMT DEF Chain
<1>13. QED  BY <1>6, <1>7, <1>9, <1>11, <1>12 DEF n, q, V, Chain, ApplyChain

LEMMA UnapplySteps ==
  ASSUME NEW open \in SUBSET Vaults, NEW b \in Blocks
  PROVE  \E h : UnapplyChain(h, open, b) /\ Unapply(open, b) = h[Len(Txs[b])]
<1> DEFINE q == Reverse(Txs[b])
           n == Len(Txs[b])
           D == 1..n
           G == [p \in D \X SUBSET Vaults |-> UnapplyTx(p[2], q[p[1]])]
           Rec(it) == it = [s \in SUBSET D |-> IF s = {} THEN open
                                              ELSE UnapplyTx(it[s \ {Max(s)}], q[Max(s)])]
           it == CHOOSE it : Rec(it)
           V == SUBSET Vaults
<1>1. n \in Nat /\ DOMAIN q = D /\ \A i \in D : q[i] \in TxSet
  BY TxsType, SMT DEF Reverse
<1>2. \A i \in D, s \in SUBSET Vaults : UnapplyTx(s, q[i]) \in SUBSET Vaults
  BY <1>1 DEF UnapplyTx, TxSet
<1>3. PICK f : SeqFold(f, n, SUBSET Vaults, open, G)
  BY <1>1, <1>2, SeqFoldExists
<1>4. Rec(f)
  BY <1>3 DEF SeqFold
<1>5. Rec(it)
  BY <1>4
<1>6. Unapply(open, b) = it[D]
  BY <1>1 DEF Unapply, FoldLeft, MapThenFoldSet, UnapplyTx
<1> HIDE DEF it
<1>7. it[{}] = open /\ \A k \in D : it[1..k] = UnapplyTx(it[1..(k - 1)], q[k])
  <2>1. ASSUME NEW k \in D PROVE it[1..k] = UnapplyTx(it[1..(k - 1)], q[k])
    <3>1. Max(1..k) = k /\ (1..k) \ {k} = 1..(k - 1) /\ 1..k # {} /\ 1..k \in SUBSET D
      BY <1>1, Prefix
    <3>2. QED  BY <1>5, <3>1
  <2>2. QED  BY <1>5, <2>1
<1> HIDE DEF q, n
<1>8. it[{}] \in V /\ \A k \in D : it[1..(k - 1)] \in V => it[1..k] \in V
  BY <1>2, <1>7
<1> HIDE DEF V
<1>9. PICK h : Chain(h, n, V, it) /\ h[0] = it[{}]
  <2>1. n \in Nat  BY <1>1
  <2>2. it[{}] \in V /\ \A k \in 1..n : it[1..(k - 1)] \in V => it[1..k] \in V  BY <1>8
  <2>3. QED  BY <2>1, <2>2, FoldChain
<1>10. \A k \in D : h[k] = it[1..k] /\ h[k - 1] = it[1..(k - 1)]
  BY <1>1, <1>9, SMT DEF Chain
<1>11. \A k \in D : h[k] = UnapplyTx(h[k - 1], q[k])
  BY <1>7, <1>10
<1>12. h[n] = it[D]
  BY <1>1, <1>9, SMT DEF Chain
<1>13. QED  BY <1>6, <1>7, <1>9, <1>11, <1>12 DEF n, q, V, Chain, UnapplyChain

\* In a block the mint of a vault comes before its redemption.
LEMMA MintFirst ==
  ASSUME NEW b \in Blocks, NEW v, NEW i \in DOMAIN Txs[b], NEW j \in DOMAIN Txs[b],
         Txs[b][i] = [kind |-> "mint", vault |-> v],
         Txs[b][j] = [kind |-> "redeem", vault |-> v]
  PROVE  i < j
<1>1. PICK a \in Branch[b] : \E k \in DOMAIN Txs[a] :
          /\ Txs[a][k] = [kind |-> "mint", vault |-> v]
          /\ a = b => k < j
  BY CoinsAssumption, SMT
<1>2. PICK k \in DOMAIN Txs[a] : Txs[a][k] = [kind |-> "mint", vault |-> v] /\ (a = b => k < j)
  BY <1>1
<1>3. a = b /\ k = i
  BY <1>2, CoinsAssumption, SMT
<1>4. QED  BY <1>2, <1>3

\* The vaults that the transactions at the places I of block b mint and redeem.
MintedBy(b, I) == {v \in Vaults : \E i \in I : Txs[b][i] = [kind |-> "mint", vault |-> v]}
RedeemedBy(b, I) == {v \in Vaults : \E i \in I : Txs[b][i] = [kind |-> "redeem", vault |-> v]}

\* What a block does to the coins.
LEMMA ApplyPrefix ==
  ASSUME NEW open \in SUBSET Vaults, NEW b \in Blocks, NEW h, ApplyChain(h, open, b)
  PROVE  \A k \in 0..Len(Txs[b]) : h[k] = (open \cup MintedBy(b, 1..k)) \ RedeemedBy(b, 1..k)
<1> DEFINE q == Txs[b]
           n == Len(q)
           mint(v) == [kind |-> "mint", vault |-> v]
           redeem(v) == [kind |-> "redeem", vault |-> v]
           M(k) == {v \in Vaults : \E i \in 1..k : q[i] = mint(v)}
           R(k) == {v \in Vaults : \E i \in 1..k : q[i] = redeem(v)}
<1>1. n \in Nat /\ DOMAIN q = 1..n /\ \A i \in 1..n : q[i] \in TxSet
  BY TxsType
<1> DEFINE T == {k \in 0..n : h[k] = (open \cup M(k)) \ R(k)}
<1>3. 0 \in T
  <2>1. M(0) = {} /\ R(0) = {}
    BY SMT
  <2>2. h[0] = open
    BY DEF ApplyChain
  <2> HIDE DEF M, R
  <2>3. QED  BY <1>1, <2>1, <2>2, SMT
<1>4. ASSUME NEW k \in 1..n, k - 1 \in T PROVE k \in T
  <2>1. q[k] \in TxSet /\ 1..k = 1..(k - 1) \cup {k} /\ k \in DOMAIN q
    BY <1>1, SMT
  <2>2. h[k] = ApplyTx(h[k - 1], q[k]) /\ h[k - 1] = (open \cup M(k - 1)) \ R(k - 1)
    BY <1>4 DEF ApplyChain
  <2> DEFINE v == q[k].vault
  <2>3. CASE q[k] = mint(v)
    <3>1. M(k) = M(k - 1) \cup {v} /\ R(k) = R(k - 1)
      BY <2>1, <2>3, SMT DEF TxSet
    <3>2. v \notin R(k - 1)
      BY <1>1, <2>1, <2>3, MintFirst, SMT
    <3>3. h[k] = h[k - 1] \cup {v}
      BY <2>2, <2>3, SMT DEF ApplyTx
    <3> HIDE DEF M, R, v
    <3>4. h[k] = (open \cup M(k)) \ R(k)
      BY <2>2, <3>1, <3>2, <3>3
    <3>5. QED  BY <1>1, <3>4, SMT
  <2>4. CASE q[k] = redeem(v)
    <3>1. M(k) = M(k - 1) /\ R(k) = R(k - 1) \cup {v}
      BY <2>1, <2>4, SMT DEF TxSet
    <3>3. h[k] = h[k - 1] \ {v}
      BY <2>2, <2>4, SMT DEF ApplyTx
    <3> HIDE DEF M, R, v
    <3>4. h[k] = (open \cup M(k)) \ R(k)
      BY <2>2, <3>1, <3>3
    <3>5. QED  BY <1>1, <3>4, SMT
  <2>5. QED  BY <2>1, <2>3, <2>4 DEF TxSet
<1>5. \A k \in 0..n : k \in T
  <2> HIDE DEF T, n
  <2>1. QED  BY <1>1, <1>3, <1>4, StepInduction
<1>6. QED  BY <1>5 DEF MintedBy, RedeemedBy

LEMMA ApplyIs ==
  ASSUME NEW open \in SUBSET Vaults, NEW b \in Blocks
  PROVE  Apply(open, b) = (open \cup Minted(b)) \ Redeemed(b)
<1>1. PICK h : ApplyChain(h, open, b) /\ Apply(open, b) = h[Len(Txs[b])]
  BY ApplySteps
<1>2. Len(Txs[b]) \in 0..Len(Txs[b]) /\ DOMAIN Txs[b] = 1..Len(Txs[b])
  BY TxsType, SMT
<1>3. Apply(open, b) = (open \cup MintedBy(b, DOMAIN Txs[b])) \ RedeemedBy(b, DOMAIN Txs[b])
  <2>1. \A k \in 0..Len(Txs[b]) : h[k] = (open \cup MintedBy(b, 1..k)) \ RedeemedBy(b, 1..k)
    BY <1>1, ApplyPrefix, ZenonT(60)
  <2>2. QED  BY <1>1, <1>2, <2>1
<1>4. QED  BY <1>3 DEF MintedBy, RedeemedBy, Minted, Redeemed

\* ... and undoing it.
LastTxs(b, k) == (Len(Txs[b]) - k + 1)..Len(Txs[b])

LEMMA UnapplySuffix ==
  ASSUME NEW open \in SUBSET Vaults, NEW b \in Blocks, NEW h, UnapplyChain(h, open, b)
  PROVE  \A k \in 0..Len(Txs[b]) :
            h[k] = (open \cup RedeemedBy(b, LastTxs(b, k))) \ MintedBy(b, LastTxs(b, k))
<1> DEFINE q == Txs[b]
           n == Len(q)
           mint(v) == [kind |-> "mint", vault |-> v]
           redeem(v) == [kind |-> "redeem", vault |-> v]
           M(k) == {v \in Vaults : \E i \in (n - k + 1)..n : q[i] = mint(v)}
           R(k) == {v \in Vaults : \E i \in (n - k + 1)..n : q[i] = redeem(v)}
<1>1. n \in Nat /\ DOMAIN q = 1..n /\ \A i \in 1..n : q[i] \in TxSet
  BY TxsType, SMT
<1> DEFINE T == {k \in 0..n : h[k] = (open \cup R(k)) \ M(k)}
<1>3. 0 \in T
  <2>1. M(0) = {} /\ R(0) = {}
    BY <1>1, SMT
  <2>2. h[0] = open
    BY DEF UnapplyChain
  <2> HIDE DEF M, R
  <2>3. QED  BY <1>1, <2>1, <2>2, SMT
<1>4. ASSUME NEW k \in 1..n, k - 1 \in T PROVE k \in T
  <2> DEFINE j == n - k + 1
             v == q[j].vault
             I(m) == (n - m + 1)..n
  <2>1. /\ q[j] \in TxSet /\ j \in DOMAIN q /\ Reverse(q)[k] = q[j]
        /\ I(k) = I(k - 1) \cup {j}
        /\ I(k - 1) \subseteq DOMAIN q
        /\ \A i \in I(k - 1) : ~ (i < j)
    <3>1. j \in 1..n /\ j \in Int /\ j + 1 = n - (k - 1) + 1
      BY <1>1, SMT
    <3>2. Reverse(q)[k] = q[j]
      BY DEF Reverse
    <3> HIDE DEF j
    <3>3. I(k - 1) = (j + 1)..n
      BY <3>1
    <3>4. I(k) = j..n
      BY DEF j
    <3>5. QED  BY <1>1, <3>1, <3>2, <3>3, <3>4, SMT
  <2>2. h[k] = UnapplyTx(h[k - 1], q[j]) /\ h[k - 1] = (open \cup R(k - 1)) \ M(k - 1)
    BY <1>4, <2>1 DEF UnapplyChain
  <2>6. /\ M(k) = {u \in Vaults : \E i \in I(k - 1) \cup {j} : q[i] = mint(u)}
        /\ R(k) = {u \in Vaults : \E i \in I(k - 1) \cup {j} : q[i] = redeem(u)}
        /\ M(k - 1) = {u \in Vaults : \E i \in I(k - 1) : q[i] = mint(u)}
        /\ R(k - 1) = {u \in Vaults : \E i \in I(k - 1) : q[i] = redeem(u)}
    BY <2>1, SMTT(30)
  <2> HIDE DEF j, I, M, R
  <2>3. CASE q[j] = redeem(v)
    <3>1. R(k) = R(k - 1) \cup {v} /\ M(k) = M(k - 1)
      BY <2>1, <2>3, <2>6, SMT DEF TxSet
    <3>2. v \notin M(k - 1)
      <4>1. ASSUME NEW i \in I(k - 1), q[i] = mint(v) PROVE FALSE
        <5>1. i < j
          BY <2>1, <2>3, <4>1, MintFirst
        <5>2. QED  BY <2>1, <5>1
      <4>2. QED  BY <2>6, <4>1
    <3>3. h[k] = h[k - 1] \cup {v}
      BY <2>2, <2>3, SMT DEF UnapplyTx
    <3> HIDE DEF M, R, v
    <3>4. h[k] = (open \cup R(k)) \ M(k)
      BY <2>2, <3>1, <3>2, <3>3
    <3>5. QED  BY <1>1, <3>4, SMT
  <2>4. CASE q[j] = mint(v)
    <3>1. R(k) = R(k - 1) /\ M(k) = M(k - 1) \cup {v}
      BY <2>1, <2>4, <2>6, SMT DEF TxSet
    <3>2. h[k] = h[k - 1] \ {v}
      BY <2>2, <2>4, SMT DEF UnapplyTx
    <3> HIDE DEF M, R, v
    <3>3. h[k] = (open \cup R(k)) \ M(k)
      BY <2>2, <3>1, <3>2
    <3>4. QED  BY <1>1, <3>3, SMT
  <2>5. QED  BY <2>1, <2>3, <2>4 DEF TxSet
<1>5. \A k \in 0..n : k \in T
  <2> HIDE DEF T, n
  <2>1. QED  BY <1>1, <1>3, <1>4, StepInduction
<1>6. QED  BY <1>5 DEF MintedBy, RedeemedBy, LastTxs

LEMMA UnapplyIs ==
  ASSUME NEW open \in SUBSET Vaults, NEW b \in Blocks
  PROVE  Unapply(open, b) = (open \cup Redeemed(b)) \ Minted(b)
<1> DEFINE n == Len(Txs[b])
<1>1. PICK h : UnapplyChain(h, open, b) /\ Unapply(open, b) = h[n]
  BY UnapplySteps
<1>2. n \in 0..n /\ DOMAIN Txs[b] = 1..n /\ LastTxs(b, n) = 1..n
  BY TxsType, SMT DEF LastTxs
<1>3. Unapply(open, b) = (open \cup RedeemedBy(b, 1..n)) \ MintedBy(b, 1..n)
  <2>1. \A k \in 0..n : h[k] = (open \cup RedeemedBy(b, LastTxs(b, k))) \ MintedBy(b, LastTxs(b, k))
    BY <1>1, UnapplySuffix, ZenonT(60)
  <2>2. QED  BY <1>1, <1>2, <2>1
<1>4. QED  BY <1>2, <1>3 DEF MintedBy, RedeemedBy, Minted, Redeemed

-----------------------------------------------------------------------------
(* The vaults open at a block.                                             *)

LEMMA OpenAtIs ==
  ASSUME NEW b \in Blocks
  PROVE  OpenAt(b) = {v \in Vaults : /\ \E a \in Branch[b] : v \in Minted(a)
                                     /\ \A a \in Branch[b] : v \notin Redeemed(a)}
<1>1. ASSUME NEW a \in Blocks, NEW v \in Vaults
      PROVE  /\ [kind |-> "mint", vault |-> v] \in Range(Txs[a]) <=> v \in Minted(a)
             /\ [kind |-> "redeem", vault |-> v] \in Range(Txs[a]) <=> v \in Redeemed(a)
  BY DEF Range, Minted, Redeemed
<1>2. Branch[b] \subseteq Blocks
  BY TreeAssumption
<1>3. QED  BY <1>1, <1>2 DEF OpenAt

\* A vault is minted, and redeemed, in one block of a branch, and redeemed only
\* where it is open.
LEMMA OnceOnBranch ==
  ASSUME NEW b \in Blocks, b # Genesis
  PROVE  /\ \A v \in Minted(b) : \A a \in Branch[Parent[b]] : v \notin Minted(a)
         /\ \A v \in Redeemed(b) : \A a \in Branch[Parent[b]] : v \notin Redeemed(a)
         /\ \A v \in Redeemed(b) : v \in Minted(b) \/ \E a \in Branch[Parent[b]] : v \in Minted(a)
         /\ \A v \in Minted(b) : \A a \in Branch[Parent[b]] : v \notin Redeemed(a)
<1>1. /\ Branch[b] = Branch[Parent[b]] \cup {b} /\ Parent[b] \in Blocks
      /\ Height[b] = Height[Parent[b]] + 1 /\ Height[Parent[b]] \in Nat
      /\ Branch[Parent[b]] \subseteq Blocks
  BY TreeAssumption
<1>2. \A a \in Branch[Parent[b]] : Height[a] <= Height[Parent[b]] /\ Height[a] \in Nat
  <2>1. CASE Parent[b] = Genesis
    BY <2>1, TreeAssumption, SMT
  <2>2. CASE Parent[b] # Genesis
    BY <1>1, <2>2, TreeAssumption
  <2>3. QED  BY <2>1, <2>2
<1>3. \A a \in Branch[Parent[b]] : a # b /\ a \in Branch[b]
  BY <1>1, <1>2, SMT
<1>4. \A v \in Minted(b) : \A a \in Branch[Parent[b]] : v \notin Minted(a)
  BY <1>3, CoinsAssumption, SMT DEF Minted
<1>5. \A v \in Redeemed(b) : \A a \in Branch[Parent[b]] : v \notin Redeemed(a)
  BY <1>3, CoinsAssumption, SMT DEF Redeemed
<1>6. \A a \in Blocks : \A v \in Redeemed(a) : \E c \in Branch[a] : v \in Minted(c)
  BY CoinsAssumption, SMTT(30) DEF Redeemed, Minted
<1>7. ASSUME NEW v \in Minted(b), NEW a \in Branch[Parent[b]], v \in Redeemed(a) PROVE FALSE
  <2>1. PICK c \in Branch[a] : v \in Minted(c)
    BY <1>1, <1>6, <1>7
  <2>2. c \in Branch[Parent[b]]
    BY <1>1, <2>1, TreeAssumption
  <2>3. QED  BY <1>4, <2>1, <2>2
<1>8. QED  BY <1>1, <1>4, <1>5, <1>6, <1>7

\* The coins along a branch.
LEMMA OpenAtStep ==
  ASSUME NEW b \in Blocks, b # Genesis
  PROVE  /\ OpenAt(b) = (OpenAt(Parent[b]) \cup Minted(b)) \ Redeemed(b)
         /\ OpenAt(Parent[b]) = (OpenAt(b) \cup Redeemed(b)) \ Minted(b)
<1>1. Branch[b] = Branch[Parent[b]] \cup {b} /\ Parent[b] \in Blocks
  BY TreeAssumption
<1>2. Minted(b) \subseteq Vaults /\ Redeemed(b) \subseteq Vaults
  BY DEF Minted, Redeemed
<1>3. OpenAt(b) = {v \in Vaults : /\ \E a \in Branch[b] : v \in Minted(a)
                                  /\ \A a \in Branch[b] : v \notin Redeemed(a)}
  BY OpenAtIs
<1>4. OpenAt(Parent[b]) = {v \in Vaults : /\ \E a \in Branch[Parent[b]] : v \in Minted(a)
                                          /\ \A a \in Branch[Parent[b]] : v \notin Redeemed(a)}
  BY <1>1, OpenAtIs
<1>5. OpenAt(b) = (OpenAt(Parent[b]) \cup Minted(b)) \ Redeemed(b)
  BY <1>1, <1>2, <1>3, <1>4, OnceOnBranch
<1>6. OpenAt(Parent[b]) = (OpenAt(b) \cup Redeemed(b)) \ Minted(b)
  BY <1>1, <1>2, <1>3, <1>4, OnceOnBranch
<1>7. QED  BY <1>5, <1>6

\* No vault is open at the genesis block.
LEMMA OpenAtGenesis == OpenAt(Genesis) = {}
<1>1. Minted(Genesis) = {}
  BY CoinsAssumption, SMT DEF Minted
<1>2. QED  BY <1>1, OpenAtIs, TreeAssumption, SMT

\* ConnectBlock and DisconnectBlock move the coins to the next and to the
\* previous block.
LEMMA CoinsMove ==
  ASSUME NEW b \in Blocks, b # Genesis
  PROVE  /\ Apply(OpenAt(Parent[b]), b) = OpenAt(b)
         /\ Unapply(OpenAt(b), b) = OpenAt(Parent[b])
<1>1. OpenAt(b) \in SUBSET Vaults /\ OpenAt(Parent[b]) \in SUBSET Vaults
  BY DEF OpenAt
<1>2. QED  BY <1>1, ApplyIs, UnapplyIs, OpenAtStep

-----------------------------------------------------------------------------
(* Branches.                                                               *)

LEMMA BranchHeights ==
  ASSUME NEW b \in Blocks, NEW a \in Branch[b]
  PROVE  a \in Blocks /\ Height[a] \in Nat /\ Height[b] \in Nat /\ Height[a] <= Height[b]
<1>1. a \in Blocks /\ Height[a] \in Nat /\ Height[b] \in Nat
  BY TreeAssumption
<1>2. CASE b = Genesis
  BY <1>1, <1>2, TreeAssumption, SMT
<1>3. CASE b # Genesis
  BY <1>1, <1>3, TreeAssumption
<1>4. QED  BY <1>1, <1>2, <1>3

\* The parent of a block above the genesis block is one below it, on every
\* branch with the block.
LEMMA ParentBelow ==
  ASSUME NEW b \in Blocks, NEW a \in Branch[b], Height[a] > 0
  PROVE  a # Genesis /\ Parent[a] \in Branch[b] /\ Height[Parent[a]] = Height[a] - 1
<1>1. a \in Blocks /\ Height[a] \in Nat
  BY BranchHeights
<1>2. a # Genesis
  BY <1>1, TreeAssumption, SMT
<1>3. Parent[a] \in Branch[b]
  BY <1>2, BranchFacts
<1>4. Height[a] = Height[Parent[a]] + 1 /\ Height[Parent[a]] \in Nat
  BY <1>1, <1>2, TreeAssumption
<1>5. QED  BY <1>2, <1>3, <1>4, SMT

\* A branch has one block at each height.
LEMMA AncestorIs ==
  ASSUME NEW b \in Blocks, NEW a \in Branch[b]
  PROVE  Ancestor(b, Height[a]) = a
<1>1. ASSUME NEW c \in Branch[b], Height[c] = Height[a] PROVE c = a
  <2>1. CASE \E d \in Branch[b] : Height[d] = Height[a] + 1
    BY <1>1, <2>1, TreeAssumption, SMT
  <2>2. CASE ~ \E d \in Branch[b] : Height[d] = Height[a] + 1
    BY <1>1, <2>2, TreeAssumption, SMT
  <2>3. QED  BY <2>1, <2>2
<1>2. QED  BY <1>1 DEF Ancestor

LEMMA AncestorAt ==
  ASSUME NEW b \in Blocks, NEW h \in 0..Height[b]
  PROVE  Ancestor(b, h) \in Branch[b] /\ Height[Ancestor(b, h)] = h
<1> DEFINE n == Height[b]
           T == {i \in 0..n : \E a \in Branch[b] : Height[a] = n - i}
<1>1. n \in Nat
  BY TreeAssumption
<1>2. 0 \in T
  BY <1>1, BranchFacts, SMT
<1>3. ASSUME NEW i \in 1..n, i - 1 \in T PROVE i \in T
  <2>1. PICK a \in Branch[b] : Height[a] = n - (i - 1)
    BY <1>3
  <2>2. Height[a] > 0
    BY <1>1, <2>1, SMT
  <2>3. Parent[a] \in Branch[b] /\ Height[Parent[a]] = n - i
    BY <1>1, <2>1, <2>2, ParentBelow, SMT
  <2>4. QED  BY <1>1, <2>3, SMT
<1>4. n - h \in T
  <2>1. n - h \in 0..n
    BY <1>1, SMT
  <2> HIDE DEF T, n
  <2>2. QED  BY <1>1, <1>2, <1>3, <2>1, StepInduction
<1>5. PICK a \in Branch[b] : Height[a] = h
  BY <1>1, <1>4, SMT
<1>6. QED  BY <1>5 DEF Ancestor

LEMMA AncestorParent ==
  ASSUME NEW b \in Blocks, NEW h \in 1..Height[b]
  PROVE  /\ Ancestor(b, h) \in Blocks /\ Ancestor(b, h) # Genesis
         /\ Parent[Ancestor(b, h)] = Ancestor(b, h - 1)
<1> DEFINE a == Ancestor(b, h)
<1>1. a \in Branch[b] /\ Height[a] = h /\ h > 0
  <2>1. h \in 0..Height[b]
    BY TreeAssumption, SMT
  <2>2. QED  BY <2>1, AncestorAt, SMT
<1> HIDE DEF a
<1>2. a \in Blocks /\ a # Genesis /\ Parent[a] \in Branch[b] /\ Height[Parent[a]] = h - 1
  BY <1>1, ParentBelow, BranchHeights
<1>3. Ancestor(b, Height[Parent[a]]) = Parent[a]
  BY <1>2, AncestorIs
<1>4. QED  BY <1>2, <1>3 DEF a

LEMMA GenesisOnBranch ==
  ASSUME NEW b \in Blocks
  PROVE  Genesis \in Branch[b]
<1>1. Height[b] \in Nat
  BY TreeAssumption
<1>2. 0 \in 0..Height[b]
  BY <1>1, SMT
<1>3. Ancestor(b, 0) \in Branch[b] /\ Height[Ancestor(b, 0)] = 0
  BY <1>2, AncestorAt
<1>4. Ancestor(b, 0) \in Blocks
  BY <1>3, BranchHeights
<1>5. \A a \in Blocks : a # Genesis => Height[a] # 0
  <2>1. ASSUME NEW a \in Blocks, a # Genesis PROVE Height[a] # 0
    <3>1. Height[a] = Height[Parent[a]] + 1 /\ Height[Parent[a]] \in Nat
      BY <2>1, TreeAssumption
    <3>2. QED  BY <3>1, SMT
  <2>2. QED  BY <2>1
<1>6. QED  BY <1>3, <1>4, <1>5

\* Two branches have a last common block.
LEMMA CommonAncestor ==
  ASSUME NEW a \in Blocks, NEW b \in Blocks
  PROVE  \E f \in Branch[a] \cap Branch[b] :
            \A c \in Branch[a] \cap Branch[b] : Height[c] <= Height[f]
<1> DEFINE S == Branch[a] \cap Branch[b]
           n == Height[a] + 1
           H == {Height[c] + 1 : c \in S}
<1>1. n \in Nat
  BY TreeAssumption, SMT
<1>2. \A c \in S : Height[c] \in Nat /\ Height[c] <= Height[a] /\ Height[a] \in Nat
  BY BranchHeights
<1>3. H \in SUBSET (1..n) /\ H # {}
  BY <1>2, GenesisOnBranch, SMT
<1>4. Max(H) \in H /\ \A y \in H : Max(H) >= y
  <2> HIDE DEF H, n
  <2>1. QED  BY <1>1, <1>3, MaxIn
<1>5. PICK f \in S : Max(H) = Height[f] + 1
  BY <1>4
<1>6. \A c \in S : Height[f] + 1 >= Height[c] + 1
  BY <1>4, <1>5
<1>7. \A c \in S : Height[c] <= Height[f]
  BY <1>2, <1>6, SMT
<1>8. QED  BY <1>7

-----------------------------------------------------------------------------
(* Replaying an interrupted write.                                         *)

\* The coins after each block that is rolled back or forward.
BackChain(h, open, q, n) ==
    /\ h \in [0..n -> SUBSET Vaults]
    /\ h[0] = open
    /\ \A k \in 1..n : h[k] = Unapply(h[k - 1], q[k])

ForwardChain(h, open, q, n) ==
    /\ h \in [0..n -> SUBSET Vaults]
    /\ h[0] = open
    /\ \A k \in 1..n : h[k] = Apply(h[k - 1], q[k])

LEMMA RollBackSteps ==
  ASSUME NEW n \in Nat, NEW q \in [1..n -> Blocks], NEW open \in SUBSET Vaults
  PROVE  \E h : BackChain(h, open, q, n) /\ FoldLeft(Unapply, open, q) = h[n]
<1> DEFINE D == 1..n
           G == [p \in D \X SUBSET Vaults |-> Unapply(p[2], q[p[1]])]
           Rec(it) == it = [s \in SUBSET D |-> IF s = {} THEN open
                                              ELSE Unapply(it[s \ {Max(s)}], q[Max(s)])]
           it == CHOOSE it : Rec(it)
           V == SUBSET Vaults
<1>1. \A i \in D, s \in SUBSET Vaults : Unapply(s, q[i]) \in SUBSET Vaults
  <2>1. ASSUME NEW i \in D, NEW s \in SUBSET Vaults PROVE Unapply(s, q[i]) \in SUBSET Vaults
    <3>1. q[i] \in Blocks /\ Minted(q[i]) \subseteq Vaults /\ Redeemed(q[i]) \subseteq Vaults
      BY DEF Minted, Redeemed
    <3>2. QED  BY <3>1, UnapplyIs, SMT
  <2>2. QED  BY <2>1
<1>2. PICK f : SeqFold(f, n, SUBSET Vaults, open, G)
  BY <1>1, SeqFoldExists
<1>3. Rec(f)
  BY <1>2 DEF SeqFold
<1>4. Rec(it)
  BY <1>3
<1>5. FoldLeft(Unapply, open, q) = it[D]
  BY DEF FoldLeft, MapThenFoldSet
<1> HIDE DEF it
<1>6. it[{}] = open /\ \A k \in D : it[1..k] = Unapply(it[1..(k - 1)], q[k])
  <2>1. ASSUME NEW k \in D PROVE it[1..k] = Unapply(it[1..(k - 1)], q[k])
    <3>1. Max(1..k) = k /\ (1..k) \ {k} = 1..(k - 1) /\ 1..k # {} /\ 1..k \in SUBSET D
      BY Prefix
    <3>2. QED  BY <1>4, <3>1
  <2>2. QED  BY <1>4, <2>1
<1>7. it[{}] \in V /\ \A k \in D : it[1..(k - 1)] \in V => it[1..k] \in V
  BY <1>1, <1>6, SMT
<1> HIDE DEF V
<1>8. PICK h : Chain(h, n, V, it) /\ h[0] = it[{}]
  BY <1>7, FoldChain
<1>9. QED  BY <1>5, <1>6, <1>8, SMT DEF V, Chain, BackChain

LEMMA RollForwardSteps ==
  ASSUME NEW n \in Nat, NEW q \in [1..n -> Blocks], NEW open \in SUBSET Vaults
  PROVE  \E h : ForwardChain(h, open, q, n) /\ FoldLeft(Apply, open, q) = h[n]
<1> DEFINE D == 1..n
           G == [p \in D \X SUBSET Vaults |-> Apply(p[2], q[p[1]])]
           Rec(it) == it = [s \in SUBSET D |-> IF s = {} THEN open
                                              ELSE Apply(it[s \ {Max(s)}], q[Max(s)])]
           it == CHOOSE it : Rec(it)
           V == SUBSET Vaults
<1>1. \A i \in D, s \in SUBSET Vaults : Apply(s, q[i]) \in SUBSET Vaults
  <2>1. ASSUME NEW i \in D, NEW s \in SUBSET Vaults PROVE Apply(s, q[i]) \in SUBSET Vaults
    <3>1. q[i] \in Blocks /\ Minted(q[i]) \subseteq Vaults /\ Redeemed(q[i]) \subseteq Vaults
      BY SMT DEF Minted, Redeemed
    <3>2. QED  BY <3>1, ApplyIs, SMTT(30)
  <2>2. QED  BY <2>1, SMT
<1>2. PICK f : SeqFold(f, n, SUBSET Vaults, open, G)
  BY <1>1, SeqFoldExists
<1>3. Rec(f)
  BY <1>2 DEF SeqFold
<1>4. Rec(it)
  BY <1>3
<1>5. FoldLeft(Apply, open, q) = it[D]
  BY SMT DEF FoldLeft, MapThenFoldSet
<1> HIDE DEF it
<1>6. it[{}] = open /\ \A k \in D : it[1..k] = Apply(it[1..(k - 1)], q[k])
  <2>1. ASSUME NEW k \in D PROVE it[1..k] = Apply(it[1..(k - 1)], q[k])
    <3>1. Max(1..k) = k /\ (1..k) \ {k} = 1..(k - 1) /\ 1..k # {} /\ 1..k \in SUBSET D
      BY Prefix, SMT
    <3>2. QED  BY <1>4, <3>1
  <2>2. QED  BY <1>4, <2>1
<1>7. it[{}] \in V /\ \A k \in D : it[1..(k - 1)] \in V => it[1..k] \in V
  BY <1>1, <1>6, SMT
<1> HIDE DEF V
<1>8. PICK h : Chain(h, n, V, it) /\ h[0] = it[{}]
  BY <1>7, FoldChain, SMT
<1>9. QED  BY <1>5, <1>6, <1>8, SMT DEF V, Chain, ForwardChain

\* The vaults that some of the first k blocks of q mint or redeem.
TouchedBy(q, k) == {v \in Vaults : \E i \in 1..k : v \in Touched(q[i])}

\* Rolling back from block a to its ancestor f sets every vault that a block in
\* between touches to what it was at f; no other vault differs.
LEMMA RollBack ==
  ASSUME NEW a \in Blocks, NEW f \in Branch[a], NEW n, n = Height[a] - Height[f],
         NEW q, q = [i \in 1..n |-> Ancestor(a, Height[a] - i + 1)],
         NEW open \in SUBSET Vaults
  PROVE  LET back == FoldLeft(Unapply, open, q)
         IN  /\ back \in SUBSET Vaults
             /\ \A v \in TouchedBy(q, n) : v \in back <=> v \in OpenAt(f)
             /\ \A v \in Vaults \ TouchedBy(q, n) :
                   /\ v \in back <=> v \in open
                   /\ v \in OpenAt(f) <=> v \in OpenAt(a)
<1>1. /\ n \in Nat /\ Height[a] \in Nat /\ Height[f] \in Nat
      /\ \A i \in 1..n : Height[a] - i + 1 \in 1..Height[a]
  BY BranchHeights, SMT
<1> DEFINE at(k) == Ancestor(a, Height[a] - k)
<1>2. \A i \in 1..n : /\ q[i] \in Blocks /\ q[i] # Genesis
                      /\ q[i] = at(i - 1) /\ Parent[q[i]] = at(i)
  <2>1. ASSUME NEW i \in 1..n
        PROVE  /\ q[i] \in Blocks /\ q[i] # Genesis
               /\ q[i] = at(i - 1) /\ Parent[q[i]] = at(i)
    <3>1. (Height[a] - i + 1) - 1 = Height[a] - i /\ Height[a] - i + 1 = Height[a] - (i - 1)
      BY <1>1, SMT
    <3>2. q[i] = Ancestor(a, Height[a] - i + 1)
      OBVIOUS
    <3>3. QED  BY <1>1, <3>1, <3>2, AncestorParent
  <2>2. QED  BY <2>1
<1>3. at(0) = a /\ at(n) = f
  <2>1. Height[a] - 0 = Height[a] /\ Height[a] - n = Height[f] /\ a \in Branch[a]
    BY <1>1, BranchFacts, SMT
  <2>2. QED  BY <2>1, AncestorIs
<1> HIDE DEF at
<1>4. q \in [1..n -> Blocks]
  BY <1>2
<1>5. PICK h : BackChain(h, open, q, n) /\ FoldLeft(Unapply, open, q) = h[n]
  BY <1>1, <1>4, RollBackSteps
<1> DEFINE Ok(k) == /\ \A v \in TouchedBy(q, k) : v \in h[k] <=> v \in OpenAt(at(k))
                    /\ \A v \in Vaults \ TouchedBy(q, k) :
                          /\ v \in h[k] <=> v \in open
                          /\ v \in OpenAt(at(k)) <=> v \in OpenAt(a)
           T == {k \in 0..n : Ok(k)}
<1>6. 0 \in T
  <2>1. TouchedBy(q, 0) = {} /\ h[0] = open
    BY <1>5, SMT DEF TouchedBy, BackChain
  <2>2. QED  BY <1>1, <1>3, <2>1, SMT
<1>7. ASSUME NEW k \in 1..n, k - 1 \in T PROVE k \in T
  <2> DEFINE b == q[k]
  <2>1. b \in Blocks /\ b # Genesis /\ b = at(k - 1) /\ Parent[b] = at(k)
    BY <1>2
  <2>2. h[k] = (h[k - 1] \cup Redeemed(b)) \ Minted(b)
    <3>1. h[k] = Unapply(h[k - 1], b) /\ h \in [0..n -> SUBSET Vaults]
      BY <1>5 DEF BackChain
    <3>2. k - 1 \in 0..n
      BY <1>1, SMT
    <3>3. h[k - 1] \in SUBSET Vaults
      BY <3>1, <3>2
    <3> HIDE DEF b
    <3>4. QED  BY <2>1, <3>1, <3>3, UnapplyIs
  <2>3. OpenAt(at(k)) = (OpenAt(at(k - 1)) \cup Redeemed(b)) \ Minted(b)
    BY <2>1, OpenAtStep
  <2>4. TouchedBy(q, k) = TouchedBy(q, k - 1) \cup Touched(b)
    <3>1. 1..k = 1..(k - 1) \cup {k}
      BY <1>1, SMT
    <3>2. Touched(b) \subseteq Vaults
      BY DEF Touched, Minted, Redeemed
    <3>3. QED  BY <3>1, <3>2 DEF TouchedBy
  <2>5. Ok(k - 1)
    BY <1>7
  <2> HIDE DEF b
  <2>6. \A v \in TouchedBy(q, k) : v \in h[k] <=> v \in OpenAt(at(k))
    BY <2>2, <2>3, <2>4, <2>5 DEF Touched
  <2>7. \A v \in Vaults \ TouchedBy(q, k) : v \in h[k] <=> v \in open
    BY <2>2, <2>4, <2>5 DEF Touched
  <2>8. \A v \in Vaults \ TouchedBy(q, k) : v \in OpenAt(at(k)) <=> v \in OpenAt(a)
    BY <2>3, <2>4, <2>5 DEF Touched
  <2>9. QED  BY <1>1, <2>6, <2>7, <2>8, SMT
<1>8. n \in T
  <2> HIDE DEF T
  <2>1. \A k \in 0..n : k \in T
    BY <1>1, <1>6, <1>7, StepInduction
  <2>2. n \in 0..n
    BY <1>1, SMT
  <2>3. QED  BY <2>1, <2>2
<1>9. h[n] \in SUBSET Vaults
  BY <1>1, <1>5, SMT DEF BackChain
<1>10. QED  BY <1>3, <1>5, <1>8, <1>9, SMT

\* Rolling forward from block f to its descendant b.
LEMMA RollForward ==
  ASSUME NEW b \in Blocks, NEW f \in Branch[b], NEW n, n = Height[b] - Height[f],
         NEW q, q = [i \in 1..n |-> Ancestor(b, Height[f] + i)],
         NEW open \in SUBSET Vaults
  PROVE  LET out == FoldLeft(Apply, open, q)
         IN  /\ out \in SUBSET Vaults
             /\ \A v \in TouchedBy(q, n) : v \in out <=> v \in OpenAt(b)
             /\ \A v \in Vaults \ TouchedBy(q, n) :
                   /\ v \in out <=> v \in open
                   /\ v \in OpenAt(b) <=> v \in OpenAt(f)
<1>1. /\ n \in Nat /\ Height[b] \in Nat /\ Height[f] \in Nat
      /\ \A i \in 1..n : Height[f] + i \in 1..Height[b]
  BY BranchHeights, SMT
<1> DEFINE at(k) == Ancestor(b, Height[f] + k)
<1>2. \A i \in 1..n : /\ q[i] \in Blocks /\ q[i] # Genesis
                      /\ q[i] = at(i) /\ Parent[q[i]] = at(i - 1)
  <2>1. ASSUME NEW i \in 1..n
        PROVE  /\ q[i] \in Blocks /\ q[i] # Genesis
               /\ q[i] = at(i) /\ Parent[q[i]] = at(i - 1)
    <3>1. (Height[f] + i) - 1 = Height[f] + (i - 1)
      BY <1>1, SMT
    <3>2. q[i] = Ancestor(b, Height[f] + i)
      OBVIOUS
    <3>3. QED  BY <1>1, <3>1, <3>2, AncestorParent
  <2>2. QED  BY <2>1
<1>3. at(0) = f /\ at(n) = b
  <2>1. Height[f] + 0 = Height[f] /\ Height[f] + n = Height[b] /\ b \in Branch[b]
    BY <1>1, BranchFacts, SMT
  <2>2. QED  BY <2>1, AncestorIs
<1> HIDE DEF at
<1>4. q \in [1..n -> Blocks]
  BY <1>2
<1>5. PICK h : ForwardChain(h, open, q, n) /\ FoldLeft(Apply, open, q) = h[n]
  BY <1>1, <1>4, RollForwardSteps
<1> DEFINE Ok(k) == /\ \A v \in TouchedBy(q, k) : v \in h[k] <=> v \in OpenAt(at(k))
                    /\ \A v \in Vaults \ TouchedBy(q, k) :
                          /\ v \in h[k] <=> v \in open
                          /\ v \in OpenAt(at(k)) <=> v \in OpenAt(f)
           T == {k \in 0..n : Ok(k)}
<1>6. 0 \in T
  <2>1. TouchedBy(q, 0) = {} /\ h[0] = open
    BY <1>5, SMT DEF TouchedBy, ForwardChain
  <2>2. QED  BY <1>1, <1>3, <2>1, SMT
<1>7. ASSUME NEW k \in 1..n, k - 1 \in T PROVE k \in T
  <2> DEFINE c == q[k]
  <2>1. c \in Blocks /\ c # Genesis /\ c = at(k) /\ Parent[c] = at(k - 1)
    BY <1>2
  <2>2. h[k] = (h[k - 1] \cup Minted(c)) \ Redeemed(c)
    <3>1. h[k] = Apply(h[k - 1], c) /\ h \in [0..n -> SUBSET Vaults]
      BY <1>5 DEF ForwardChain
    <3>2. k - 1 \in 0..n
      BY <1>1, SMT
    <3>3. h[k - 1] \in SUBSET Vaults
      BY <3>1, <3>2
    <3> HIDE DEF c
    <3>4. QED  BY <2>1, <3>1, <3>3, ApplyIs
  <2>3. OpenAt(at(k)) = (OpenAt(at(k - 1)) \cup Minted(c)) \ Redeemed(c)
    BY <2>1, OpenAtStep
  <2>4. TouchedBy(q, k) = TouchedBy(q, k - 1) \cup Touched(c)
    <3>1. 1..k = 1..(k - 1) \cup {k}
      BY <1>1, SMT
    <3>2. Touched(c) \subseteq Vaults
      BY DEF Touched, Minted, Redeemed
    <3>3. QED  BY <3>1, <3>2 DEF TouchedBy
  <2>5. Ok(k - 1)
    BY <1>7
  <2> HIDE DEF c
  <2>6. \A v \in TouchedBy(q, k) : v \in h[k] <=> v \in OpenAt(at(k))
    BY <2>2, <2>3, <2>4, <2>5, SMTT(30) DEF Touched
  <2>7. \A v \in Vaults \ TouchedBy(q, k) : v \in h[k] <=> v \in open
    BY <2>2, <2>4, <2>5, SMTT(30) DEF Touched
  <2>8. \A v \in Vaults \ TouchedBy(q, k) : v \in OpenAt(at(k)) <=> v \in OpenAt(f)
    BY <2>3, <2>4, <2>5 DEF Touched
  <2>9. QED  BY <1>1, <2>6, <2>7, <2>8, SMT
<1>8. n \in T
  <2> HIDE DEF T
  <2>1. \A k \in 0..n : k \in T
    BY <1>1, <1>6, <1>7, StepInduction
  <2>2. n \in 0..n
    BY <1>1, SMT
  <2>3. QED  BY <2>1, <2>2
<1>9. h[n] \in SUBSET Vaults
  BY <1>1, <1>5, SMT DEF ForwardChain
<1>10. QED  BY <1>3, <1>5, <1>8, <1>9

\* The blocks that a replay from block a to block z rolls back and forward.
OldOf(a, z) ==
    [i \in 1 .. Height[a] - Height[LastCommonAncestor(a, z)] |->
        Ancestor(a, Height[a] - i + 1)]
NewOf(a, z) ==
    [i \in 1 .. Height[z] - Height[LastCommonAncestor(a, z)] |->
        Ancestor(z, Height[LastCommonAncestor(a, z)] + i)]

\* The vaults that none of them touches.
Settled(a, z) ==
    {v \in Vaults :
        /\ v \notin TouchedBy(OldOf(a, z), Height[a] - Height[LastCommonAncestor(a, z)])
        /\ v \notin TouchedBy(NewOf(a, z), Height[z] - Height[LastCommonAncestor(a, z)])}

\* Of them, a write from the coins of a to those of z changes none; and when
\* they are right, a replay makes all others right.
LEMMA ReplayIs ==
  ASSUME NEW a \in Blocks, NEW z \in Blocks, NEW open \in SUBSET Vaults
  PROVE  /\ \A v \in Settled(a, z) : v \in OpenAt(a) <=> v \in OpenAt(z)
         /\ (\A v \in Settled(a, z) : v \in open <=> v \in OpenAt(z))
            => FoldLeft(Apply, FoldLeft(Unapply, open, OldOf(a, z)), NewOf(a, z)) = OpenAt(z)
<1> DEFINE f == LastCommonAncestor(a, z)
           m == Height[a] - Height[f]
           n == Height[z] - Height[f]
           old == OldOf(a, z)
           new == NewOf(a, z)
           back == FoldLeft(Unapply, open, old)
           out == FoldLeft(Apply, back, new)
<1>1. f \in Branch[a] /\ f \in Branch[z]
  BY CommonAncestor DEF LastCommonAncestor
<1>2. /\ old = [i \in 1..m |-> Ancestor(a, Height[a] - i + 1)]
      /\ new = [i \in 1..n |-> Ancestor(z, Height[f] + i)]
      /\ Settled(a, z) = {v \in Vaults : v \notin TouchedBy(old, m) /\ v \notin TouchedBy(new, n)}
  BY SMTT(30) DEF OldOf, NewOf, Settled
<1> HIDE DEF f, old, new
<1>3. /\ back \in SUBSET Vaults
      /\ \A v \in TouchedBy(old, m) : v \in back <=> v \in OpenAt(f)
      /\ \A v \in Vaults \ TouchedBy(old, m) :
            /\ v \in back <=> v \in open
            /\ v \in OpenAt(f) <=> v \in OpenAt(a)
  BY <1>1, <1>2, RollBack, SMTT(30)
<1> HIDE DEF back
<1>4. /\ out \in SUBSET Vaults
      /\ \A v \in TouchedBy(new, n) : v \in out <=> v \in OpenAt(z)
      /\ \A v \in Vaults \ TouchedBy(new, n) :
            /\ v \in out <=> v \in back
            /\ v \in OpenAt(z) <=> v \in OpenAt(f)
  <2>1. f \in Branch[z] /\ back \in SUBSET Vaults /\ n = Height[z] - Height[f]
    BY <1>1, <1>3
  <2> HIDE DEF n
  <2>2. QED  BY <1>2, <2>1, RollForward, SMT
<1> HIDE DEF out, m, n
<1>5. \A v \in Settled(a, z) : v \in OpenAt(a) <=> v \in OpenAt(z)
  BY <1>2, <1>3, <1>4
<1>6. ASSUME \A v \in Settled(a, z) : v \in open <=> v \in OpenAt(z) PROVE out = OpenAt(z)
  <2>1. \A v \in Vaults : v \in out <=> v \in OpenAt(z)
    BY <1>2, <1>3, <1>4, <1>6
  <2>2. OpenAt(z) \subseteq Vaults
    BY DEF OpenAt
  <2>3. QED  BY <1>4, <2>1, <2>2
<1>7. QED  BY <1>5, <1>6 DEF out, back, old, new

-----------------------------------------------------------------------------
(* The totals.                                                             *)

TotalSet == [principal : Int, collateral : Int, vaults : Int]

\* The totals of a set of vaults, and of one vault more or less.
LEMMA TotalsType ==
  ASSUME NEW open \in SUBSET Vaults
  PROVE  /\ Total(Principal, open) \in Nat /\ Total(Collateral, open) \in Nat
         /\ Cardinality(open) \in Nat /\ IsFiniteSet(open)
         /\ TotalsOf(open) \in TotalSet
<1>1. Principal \in [Vaults -> Nat] /\ Collateral \in [Vaults -> Nat] /\ IsFiniteSet(Vaults)
  BY AmountsAssumption
<1>2. SumOver(Principal, open) \in Nat /\ SumOver(Collateral, open) \in Nat
  BY <1>1, SumFacts
<1>3. Total(Principal, open) \in Nat /\ Total(Collateral, open) \in Nat
  BY <1>2 DEF Total, SumOver
<1>4. IsFiniteSet(open) /\ Cardinality(open) \in Nat
  BY <1>1, FS_Subset, FS_CardinalityType
<1>5. QED  BY <1>3, <1>4, SMT DEF TotalsOf, TotalSet

LEMMA TotalsAdd ==
  ASSUME NEW open \in SUBSET Vaults, NEW v \in Vaults \ open
  PROVE  /\ Total(Principal, open \cup {v}) = Total(Principal, open) + Principal[v]
         /\ Total(Collateral, open \cup {v}) = Total(Collateral, open) + Collateral[v]
         /\ Cardinality(open \cup {v}) = Cardinality(open) + 1
<1>1. Principal \in [Vaults -> Nat] /\ Collateral \in [Vaults -> Nat] /\ IsFiniteSet(Vaults)
  BY AmountsAssumption
<1>2. /\ SumOver(Principal, open \cup {v}) = SumOver(Principal, open) + Principal[v]
      /\ SumOver(Collateral, open \cup {v}) = SumOver(Collateral, open) + Collateral[v]
  BY <1>1, SumFacts, SMT
<1>3. Cardinality(open \cup {v}) = Cardinality(open) + 1
  BY <1>1, FS_Subset, FS_AddElement
<1>4. QED  BY <1>2, <1>3 DEF Total, SumOver

LEMMA CountType ==
  ASSUME NEW t \in TotalSet, NEW v \in Vaults
  PROVE  AddVault(t, v) \in TotalSet /\ RemoveVault(t, v) \in TotalSet
<1>1. Principal[v] \in Nat /\ Collateral[v] \in Nat
  BY AmountsAssumption
<1>2. Refused \in TotalSet
  BY SMT DEF Refused, TotalSet
<1>3. QED  BY <1>1, <1>2, SMT DEF AddVault, RemoveVault, TotalSet

\* AddVault and RemoveVault refuse or count the vault in or out.
LEMMA CountIn ==
  ASSUME NEW open \in SUBSET Vaults, NEW v \in Vaults \ open
  PROVE  AddVault(TotalsOf(open), v) \in {Refused, TotalsOf(open \cup {v})}
  BY TotalsAdd DEF AddVault, TotalsOf

LEMMA CountOut ==
  ASSUME NEW open \in SUBSET Vaults, NEW v \in open
  PROVE  RemoveVault(TotalsOf(open), v) \in {Refused, TotalsOf(open \ {v})}
<1> DEFINE s == open \ {v}
<1>1. s \in SUBSET Vaults /\ v \in Vaults \ s /\ s \cup {v} = open
  OBVIOUS
<1>2. /\ Total(Principal, open) = Total(Principal, s) + Principal[v]
      /\ Total(Collateral, open) = Total(Collateral, s) + Collateral[v]
      /\ Cardinality(open) = Cardinality(s) + 1
  <2> HIDE DEF s
  <2>1. QED  BY <1>1, TotalsAdd
<1>3. /\ Total(Principal, s) \in Nat /\ Total(Collateral, s) \in Nat /\ Cardinality(s) \in Nat
      /\ Principal[v] \in Nat /\ Collateral[v] \in Nat
  BY <1>1, TotalsType, AmountsAssumption
<1> HIDE DEF s
<1>4. /\ Total(Principal, open) - Principal[v] = Total(Principal, s)
      /\ Total(Collateral, open) - Collateral[v] = Total(Collateral, s)
      /\ Cardinality(open) - 1 = Cardinality(s)
  BY <1>2, <1>3, SMT
<1>5. RemoveVault(TotalsOf(open), v) \in {Refused, TotalsOf(s)}
  BY <1>4 DEF RemoveVault, TotalsOf
<1>6. QED  BY <1>5 DEF s

\* One transaction in UpdateChainstateHealth, and undoing it.
CountTx(t, x) == IF x.kind = "mint" THEN AddVault(t, x.vault) ELSE RemoveVault(t, x.vault)
UncountTx(t, x) == IF x.kind = "mint" THEN RemoveVault(t, x.vault) ELSE AddVault(t, x.vault)

UpdateChain(g, base, b) ==
    /\ g[0] = base
    /\ \A k \in 1..Len(Txs[b]) : g[k] = CountTx(g[k - 1], Txs[b][k])

UndoChain(g, base, b) ==
    /\ g[0] = base
    /\ \A k \in 1..Len(Txs[b]) : g[k] = UncountTx(g[k - 1], Reverse(Txs[b])[k])

LEMMA UpdateSteps ==
  ASSUME NEW base \in TotalSet, NEW b \in Blocks
  PROVE  \E g : UpdateChain(g, base, b) /\ UpdateChainstateHealth(base, b) = g[Len(Txs[b])]
<1> DEFINE q == Txs[b]
           n == Len(Txs[b])
           D == 1..n
           V == TotalSet
           G == [p \in D \X V |-> CountTx(p[2], q[p[1]])]
           Rec(it) == it = [s \in SUBSET D |-> IF s = {} THEN base
                                              ELSE CountTx(it[s \ {Max(s)}], q[Max(s)])]
           it == CHOOSE it : Rec(it)
<1>1. n \in Nat /\ DOMAIN q = D /\ \A i \in D : q[i] \in TxSet
  BY TxsType
<1>2. \A i \in D, t \in V : CountTx(t, q[i]) \in V
  BY <1>1, CountType DEF TxSet, CountTx
<1>3. PICK f : SeqFold(f, n, V, base, G)
  <2> HIDE DEF V
  <2>1. base \in V /\ G \in [D \X V -> V]
    BY <1>2 DEF V
  <2>2. QED  BY <1>1, <2>1, SeqFoldExists
<1>4. Rec(f)
  BY <1>3 DEF SeqFold
<1>5. Rec(it)
  BY <1>4
<1>6. UpdateChainstateHealth(base, b) = it[D]
  BY <1>1 DEF UpdateChainstateHealth, FoldLeft, MapThenFoldSet, CountTx
<1> HIDE DEF it
<1>7. it[{}] = base /\ \A k \in D : it[1..k] = CountTx(it[1..(k - 1)], q[k])
  <2>1. ASSUME NEW k \in D PROVE it[1..k] = CountTx(it[1..(k - 1)], q[k])
    <3>1. Max(1..k) = k /\ (1..k) \ {k} = 1..(k - 1) /\ 1..k # {} /\ 1..k \in SUBSET D
      BY <1>1, Prefix
    <3>2. QED  BY <1>5, <3>1
  <2>2. QED  BY <1>5, <2>1
<1> HIDE DEF q, n
<1>8. it[{}] \in V /\ \A k \in D : it[1..(k - 1)] \in V => it[1..k] \in V
  BY <1>2, <1>7
<1> HIDE DEF V
<1>9. PICK h : Chain(h, n, V, it) /\ h[0] = it[{}]
  BY <1>1, <1>8, FoldChain
<1>10. \A k \in D : h[k] = it[1..k] /\ h[k - 1] = it[1..(k - 1)]
  BY <1>1, <1>9, SMT DEF Chain
<1>11. \A k \in D : h[k] = CountTx(h[k - 1], q[k])
  BY <1>7, <1>10
<1>12. h[n] = it[D]
  BY <1>1, <1>9, SMT DEF Chain
<1>13. QED  BY <1>6, <1>7, <1>9, <1>11, <1>12 DEF n, q, UpdateChain

LEMMA UndoSteps ==
  ASSUME NEW base \in TotalSet, NEW b \in Blocks
  PROVE  \E g : UndoChain(g, base, b) /\ UndoChainstateHealth(base, b) = g[Len(Txs[b])]
<1> DEFINE q == Reverse(Txs[b])
           n == Len(Txs[b])
           D == 1..n
           V == TotalSet
           G == [p \in D \X V |-> UncountTx(p[2], q[p[1]])]
           Rec(it) == it = [s \in SUBSET D |-> IF s = {} THEN base
                                              ELSE UncountTx(it[s \ {Max(s)}], q[Max(s)])]
           it == CHOOSE it : Rec(it)
<1>1. n \in Nat /\ DOMAIN q = D /\ \A i \in D : q[i] \in TxSet
  BY TxsType, SMT DEF Reverse
<1>2. \A i \in D, t \in V : UncountTx(t, q[i]) \in V
  BY <1>1, CountType DEF TxSet, UncountTx
<1>3. PICK f : SeqFold(f, n, V, base, G)
  <2> HIDE DEF V
  <2>1. base \in V /\ G \in [D \X V -> V]
    BY <1>2 DEF V
  <2>2. QED  BY <1>1, <2>1, SeqFoldExists
<1>4. Rec(f)
  BY <1>3 DEF SeqFold
<1>5. Rec(it)
  BY <1>4
<1>6. UndoChainstateHealth(base, b) = it[D]
  BY <1>1 DEF UndoChainstateHealth, FoldLeft, MapThenFoldSet, UncountTx
<1> HIDE DEF it
<1>7. it[{}] = base /\ \A k \in D : it[1..k] = UncountTx(it[1..(k - 1)], q[k])
  <2>1. ASSUME NEW k \in D PROVE it[1..k] = UncountTx(it[1..(k - 1)], q[k])
    <3>1. Max(1..k) = k /\ (1..k) \ {k} = 1..(k - 1) /\ 1..k # {} /\ 1..k \in SUBSET D
      BY <1>1, Prefix, SMTT(30)
    <3>2. QED  BY <1>5, <3>1
  <2>2. QED  BY <1>5, <2>1
<1> HIDE DEF q, n
<1>8. it[{}] \in V /\ \A k \in D : it[1..(k - 1)] \in V => it[1..k] \in V
  BY <1>2, <1>7, SMT
<1> HIDE DEF V
<1>9. PICK h : Chain(h, n, V, it) /\ h[0] = it[{}]
  <2>1. n \in Nat  BY <1>1
  <2>2. it[{}] \in V /\ \A k \in 1..n : it[1..(k - 1)] \in V => it[1..k] \in V  BY <1>8
  <2>3. QED  BY <2>1, <2>2, FoldChain
<1>10. \A k \in D : h[k] = it[1..k] /\ h[k - 1] = it[1..(k - 1)]
  BY <1>1, <1>9, SMT DEF Chain
<1>11. \A k \in D : h[k] = UncountTx(h[k - 1], q[k])
  BY <1>7, <1>10
<1>12. h[n] = it[D]
  BY <1>1, <1>9, SMT DEF Chain
<1>13. QED  BY <1>6, <1>7, <1>9, <1>11, <1>12 DEF n, q, UndoChain

\* Where a transaction stands in its block: before it a vault it mints is not
\* open and one it redeems is; after it, the other way round.
LEMMA TxBefore ==
  ASSUME NEW b \in Blocks, b # Genesis, NEW k \in 1..Len(Txs[b]), NEW v \in Vaults
  PROVE  /\ Txs[b][k] = [kind |-> "mint", vault |-> v] =>
               v \notin OpenAt(Parent[b]) /\ v \notin MintedBy(b, 1..(k - 1))
         /\ Txs[b][k] = [kind |-> "redeem", vault |-> v] =>
               /\ v \in OpenAt(Parent[b]) \/ v \in MintedBy(b, 1..(k - 1))
               /\ v \notin RedeemedBy(b, 1..(k - 1))
<1> DEFINE n == Len(Txs[b])
<1>1. /\ n \in Nat /\ DOMAIN Txs[b] = 1..n /\ k \in DOMAIN Txs[b]
      /\ \A i \in 1..(k - 1) : i \in DOMAIN Txs[b] /\ i # k
  BY TxsType, SMT
<1>2. b \in Branch[b] /\ Parent[b] \in Blocks /\ Branch[b] = Branch[Parent[b]] \cup {b}
  BY BranchFacts, TreeAssumption
<1>3. OpenAt(Parent[b]) = {u \in Vaults : /\ \E a \in Branch[Parent[b]] : u \in Minted(a)
                                          /\ \A a \in Branch[Parent[b]] : u \notin Redeemed(a)}
  BY <1>2, OpenAtIs
<1>4. ASSUME Txs[b][k] = [kind |-> "mint", vault |-> v]
      PROVE  v \notin OpenAt(Parent[b]) /\ v \notin MintedBy(b, 1..(k - 1))
  <2>1. v \in Minted(b)
    BY <1>1, <1>4 DEF Minted
  <2>2. v \notin OpenAt(Parent[b])
    BY <1>3, <2>1, OnceOnBranch
  <2>3. v \notin MintedBy(b, 1..(k - 1))
    <3>1. \A i \in DOMAIN Txs[b] : Txs[b][i] = [kind |-> "mint", vault |-> v] => i = k
      BY <1>1, <1>2, <1>4, CoinsAssumption, SMTT(30)
    <3>2. QED  BY <1>1, <3>1 DEF MintedBy
  <2>4. QED  BY <2>2, <2>3
<1>5. ASSUME Txs[b][k] = [kind |-> "redeem", vault |-> v]
      PROVE  /\ v \in OpenAt(Parent[b]) \/ v \in MintedBy(b, 1..(k - 1))
             /\ v \notin RedeemedBy(b, 1..(k - 1))
  <2>1. v \in Redeemed(b)
    BY <1>1, <1>5 DEF Redeemed
  <2>2. v \notin RedeemedBy(b, 1..(k - 1))
    BY <1>1, <1>2, <1>5, CoinsAssumption, SMTT(30) DEF RedeemedBy
  <2>3. CASE v \in Minted(b)
    <3>1. PICK i \in DOMAIN Txs[b] : Txs[b][i] = [kind |-> "mint", vault |-> v]
      BY <2>3 DEF Minted
    <3>2. i < k
      BY <1>1, <1>5, <3>1, MintFirst
    <3>3. i \in 1..(k - 1)
      BY <1>1, <3>2, SMT
    <3>4. QED  BY <2>2, <3>1, <3>3 DEF MintedBy
  <2>4. CASE v \notin Minted(b)
    BY <1>3, <2>1, <2>2, <2>4, OnceOnBranch, SMTT(30)
  <2>5. QED  BY <2>3, <2>4
<1>6. QED  BY <1>4, <1>5

LEMMA TxAfter ==
  ASSUME NEW b \in Blocks, b # Genesis, NEW j \in 1..Len(Txs[b]), NEW v \in Vaults
  PROVE  /\ Txs[b][j] = [kind |-> "mint", vault |-> v] =>
               /\ v \in OpenAt(b) \/ v \in RedeemedBy(b, (j + 1)..Len(Txs[b]))
               /\ v \notin MintedBy(b, (j + 1)..Len(Txs[b]))
         /\ Txs[b][j] = [kind |-> "redeem", vault |-> v] =>
               v \notin OpenAt(b) /\ v \notin RedeemedBy(b, (j + 1)..Len(Txs[b]))
<1> DEFINE n == Len(Txs[b])
           I == (j + 1)..n
<1>1. /\ n \in Nat /\ DOMAIN Txs[b] = 1..n /\ j \in DOMAIN Txs[b]
      /\ \A i \in I : i \in DOMAIN Txs[b] /\ i # j
      /\ \A i \in DOMAIN Txs[b] : j < i => i \in I
  BY TxsType, SMT
<1>2. b \in Branch[b]
  BY BranchFacts
<1> HIDE DEF I
<1>3. OpenAt(b) = (OpenAt(Parent[b]) \cup Minted(b)) \ Redeemed(b)
  BY OpenAtStep
<1>4. ASSUME Txs[b][j] = [kind |-> "mint", vault |-> v]
      PROVE  (v \in OpenAt(b) \/ v \in RedeemedBy(b, I)) /\ v \notin MintedBy(b, I)
  <2>1. v \in Minted(b)
    BY <1>1, <1>4 DEF Minted
  <2>2. v \notin MintedBy(b, I)
    BY <1>1, <1>2, <1>4, CoinsAssumption, SMT DEF MintedBy
  <2>3. CASE v \in Redeemed(b)
    <3>1. PICK i \in DOMAIN Txs[b] : Txs[b][i] = [kind |-> "redeem", vault |-> v]
      BY <2>3 DEF Redeemed
    <3>2. j < i
      BY <1>1, <1>4, <3>1, MintFirst
    <3>3. QED  BY <1>1, <2>2, <3>1, <3>2 DEF RedeemedBy
  <2>4. CASE v \notin Redeemed(b)
    BY <1>3, <2>1, <2>2, <2>4
  <2>5. QED  BY <2>3, <2>4
<1>5. ASSUME Txs[b][j] = [kind |-> "redeem", vault |-> v]
      PROVE  v \notin OpenAt(b) /\ v \notin RedeemedBy(b, I)
  <2>1. v \in Redeemed(b)
    BY <1>1, <1>5 DEF Redeemed
  <2>2. v \notin RedeemedBy(b, I)
    BY <1>1, <1>2, <1>5, CoinsAssumption, SMT DEF RedeemedBy
  <2>3. QED  BY <1>3, <2>1, <2>2
<1>6. QED  BY <1>4, <1>5 DEF I

\* Counting one transaction on the totals of the coins before it, whose vault
\* is not open (counted in) or open (counted out).
LEMMA CountsOn ==
  ASSUME NEW s \in SUBSET Vaults, NEW v \in Vaults, NEW t \in {Refused, TotalsOf(s)}
  PROVE  /\ v \notin s => AddVault(t, v) \in {Refused, TotalsOf(s \cup {v})}
         /\ v \in s => RemoveVault(t, v) \in {Refused, TotalsOf(s \ {v})}
<1>1. CASE t = Refused
  BY <1>1 DEF AddVault, RemoveVault
<1>2. CASE t = TotalsOf(s)
  BY <1>2, CountIn, CountOut
<1>3. QED  BY <1>1, <1>2

\* UpdateChainstateHealth refuses a block or leaves the totals of its coins.
LEMMA UpdateIs ==
  ASSUME NEW b \in Blocks, b # Genesis
  PROVE  UpdateChainstateHealth(TotalsOf(OpenAt(Parent[b])), b) \in {Refused, TotalsOf(OpenAt(b))}
<1> DEFINE q == Txs[b]
           n == Len(q)
           open == OpenAt(Parent[b])
<1>1. n \in Nat /\ DOMAIN q = 1..n /\ \A i \in 1..n : q[i] \in TxSet
  BY TxsType
<1>2. open \in SUBSET Vaults
  BY DEF OpenAt
<1>3. PICK h : ApplyChain(h, open, b) /\ Apply(open, b) = h[n]
  BY <1>2, ApplySteps
<1>4. TotalsOf(open) \in TotalSet
  BY <1>2, TotalsType
<1>5. PICK g : UpdateChain(g, TotalsOf(open), b)
               /\ UpdateChainstateHealth(TotalsOf(open), b) = g[n]
  BY <1>4, UpdateSteps
<1>6. \A k \in 0..n : h[k] = (open \cup MintedBy(b, 1..k)) \ RedeemedBy(b, 1..k)
  BY <1>2, <1>3, ApplyPrefix, ZenonT(60)
<1> DEFINE T == {k \in 0..n : g[k] \in {Refused, TotalsOf(h[k])}}
<1>7. 0 \in T
  BY <1>1, <1>3, <1>5, SMT DEF ApplyChain, UpdateChain
<1>8. ASSUME NEW k \in 1..n, k - 1 \in T PROVE k \in T
  <2> DEFINE v == q[k].vault
  <2>1. /\ k - 1 \in 0..n /\ k \in 0..n /\ q[k] \in TxSet /\ v \in Vaults
        /\ g[k - 1] \in {Refused, TotalsOf(h[k - 1])}
    BY <1>1, <1>8, SMT DEF TxSet
  <2>2. /\ h[k - 1] \in SUBSET Vaults
        /\ h[k] = ApplyTx(h[k - 1], q[k]) /\ g[k] = CountTx(g[k - 1], q[k])
    BY <1>3, <1>5, <2>1 DEF ApplyChain, UpdateChain
  <2>3. h[k - 1] = (open \cup MintedBy(b, 1..(k - 1))) \ RedeemedBy(b, 1..(k - 1))
    BY <1>6, <2>1
  <2>4. \/ q[k] = [kind |-> "mint", vault |-> v]
        \/ q[k] = [kind |-> "redeem", vault |-> v]
    BY <2>1 DEF TxSet
  <2> HIDE DEF v, T
  <2>5. CASE q[k] = [kind |-> "mint", vault |-> v]
    <3>1. v \notin h[k - 1]
      BY <2>1, <2>3, <2>5, TxBefore
    <3>2. h[k] = h[k - 1] \cup {v} /\ g[k] = AddVault(g[k - 1], v)
      BY <2>2, <2>5, SMT DEF ApplyTx, CountTx
    <3>3. g[k] \in {Refused, TotalsOf(h[k])}
      BY <2>1, <2>2, <3>1, <3>2, CountsOn
    <3>4. QED  BY <2>1, <3>3 DEF T
  <2>6. CASE q[k] = [kind |-> "redeem", vault |-> v]
    <3>1. v \in h[k - 1]
      BY <2>1, <2>3, <2>6, TxBefore
    <3>2. h[k] = h[k - 1] \ {v} /\ g[k] = RemoveVault(g[k - 1], v)
      BY <2>2, <2>6, SMT DEF ApplyTx, CountTx
    <3>3. g[k] \in {Refused, TotalsOf(h[k])}
      BY <2>1, <2>2, <3>1, <3>2, CountsOn, ZenonT(60)
    <3>4. QED  BY <2>1, <3>3, SMT DEF T
  <2>7. QED  BY <2>4, <2>5, <2>6
<1>9. \A k \in 0..n : k \in T
  <2> HIDE DEF T, n
  <2>1. QED  BY <1>1, <1>7, <1>8, StepInduction
<1>10. n \in 0..n
  BY <1>1, SMT
<1>11. h[n] = OpenAt(b)
  BY <1>3, CoinsMove
<1>12. QED  BY <1>5, <1>9, <1>10, <1>11

\* ... and undoing a block refuses or leaves the totals of its parent's coins.
LEMMA UndoIs ==
  ASSUME NEW b \in Blocks, b # Genesis
  PROVE  UndoChainstateHealth(TotalsOf(OpenAt(b)), b) \in {Refused, TotalsOf(OpenAt(Parent[b]))}
<1> DEFINE q == Txs[b]
           n == Len(q)
           open == OpenAt(b)
<1>1. n \in Nat /\ DOMAIN q = 1..n /\ \A i \in 1..n : q[i] \in TxSet
  BY TxsType, SMT
<1>2. open \in SUBSET Vaults
  BY DEF OpenAt
<1>3. PICK h : UnapplyChain(h, open, b) /\ Unapply(open, b) = h[n]
  BY <1>2, UnapplySteps
<1>4. TotalsOf(open) \in TotalSet
  BY <1>2, TotalsType
<1>5. PICK g : UndoChain(g, TotalsOf(open), b)
               /\ UndoChainstateHealth(TotalsOf(open), b) = g[n]
  BY <1>4, UndoSteps
<1>6. \A k \in 0..n : h[k] = (open \cup RedeemedBy(b, LastTxs(b, k))) \ MintedBy(b, LastTxs(b, k))
  BY <1>2, <1>3, UnapplySuffix
<1> DEFINE T == {k \in 0..n : g[k] \in {Refused, TotalsOf(h[k])}}
<1>7. 0 \in T
  BY <1>1, <1>3, <1>5, SMT DEF UnapplyChain, UndoChain
<1>8. ASSUME NEW k \in 1..n, k - 1 \in T PROVE k \in T
  <2> DEFINE j == n - k + 1
             v == q[j].vault
  <2>1. /\ k - 1 \in 0..n /\ k \in 0..n /\ j \in 1..n /\ q[j] \in TxSet /\ v \in Vaults
        /\ g[k - 1] \in {Refused, TotalsOf(h[k - 1])}
    BY <1>1, <1>8, SMT DEF TxSet
  <2>2. /\ Reverse(q)[k] = q[j] /\ LastTxs(b, k - 1) = (j + 1)..n
    <3>1. n - (k - 1) + 1 = j + 1
      BY <1>1, SMT
    <3>2. QED  BY <3>1 DEF Reverse, LastTxs
  <2> HIDE DEF j
  <2>3. /\ h[k - 1] \in SUBSET Vaults
        /\ h[k] = UnapplyTx(h[k - 1], q[j]) /\ g[k] = UncountTx(g[k - 1], q[j])
    BY <1>3, <1>5, <2>1, <2>2 DEF UnapplyChain, UndoChain
  <2>4. h[k - 1] = (open \cup RedeemedBy(b, (j + 1)..n)) \ MintedBy(b, (j + 1)..n)
    BY <1>6, <2>1, <2>2, SMTT(30)
  <2>5. \/ q[j] = [kind |-> "mint", vault |-> v]
        \/ q[j] = [kind |-> "redeem", vault |-> v]
    BY <2>1 DEF TxSet
  <2> HIDE DEF v, T
  <2>6. CASE q[j] = [kind |-> "mint", vault |-> v]
    <3>1. v \in h[k - 1]
      BY <2>1, <2>4, <2>6, TxAfter
    <3>2. h[k] = h[k - 1] \ {v} /\ g[k] = RemoveVault(g[k - 1], v)
      BY <2>3, <2>6, SMT DEF UnapplyTx, UncountTx
    <3>3. g[k] \in {Refused, TotalsOf(h[k])}
      BY <2>1, <2>3, <3>1, <3>2, CountsOn, ZenonT(60)
    <3>4. QED  BY <2>1, <3>3 DEF T
  <2>7. CASE q[j] = [kind |-> "redeem", vault |-> v]
    <3>1. v \notin h[k - 1]
      BY <2>1, <2>4, <2>7, TxAfter
    <3>2. h[k] = h[k - 1] \cup {v} /\ g[k] = AddVault(g[k - 1], v)
      BY <2>3, <2>7, SMT DEF UnapplyTx, UncountTx
    <3>3. g[k] \in {Refused, TotalsOf(h[k])}
      BY <2>1, <2>3, <3>1, <3>2, CountsOn, ZenonT(60)
    <3>4. QED  BY <2>1, <3>3, SMT DEF T
  <2>8. QED  BY <2>5, <2>6, <2>7
<1>9. \A k \in 0..n : k \in T
  <2> HIDE DEF T, n
  <2>1. QED  BY <1>1, <1>7, <1>8, StepInduction
<1>10. n \in 0..n
  BY <1>1, SMT
<1>11. h[n] = OpenAt(Parent[b])
  BY <1>3, CoinsMove
<1>12. QED  BY <1>5, <1>9, <1>10, <1>11, SMTT(30)

-----------------------------------------------------------------------------
(* The legacy totals.                                                      *)

\* The sums that OnMintConnected caps at the largest amount are below it.
NoClamp ==
    \A b \in Blocks \ {Genesis} :
        /\ Total(Principal, OpenAt(Parent[b]) \cup Minted(b)) <= MaxAmount
        /\ Total(Collateral, OpenAt(Parent[b]) \cup Minted(b)) <= MaxAmount

LegacySet == [dd : Nat, coll : Nat]

LEMMA ClampUp ==
  ASSUME NEW x \in Int, NEW y \in Int
  PROVE  Min({x, y}) = IF x <= y THEN x ELSE y
<1> DEFINE m == IF x <= y THEN x ELSE y
<1>1. m \in {x, y} /\ \A z \in {x, y} : m <= z
  BY SMT
<1>2. \A w \in {x, y} : (\A z \in {x, y} : w <= z) => w = m
  BY SMT
<1> HIDE DEF m
<1>3. Min({x, y}) = m
  BY <1>1, <1>2 DEF Min
<1>4. QED  BY <1>3 DEF m

LEMMA ClampDown ==
  ASSUME NEW x \in Int
  PROVE  Max({0, x}) = IF 0 <= x THEN x ELSE 0
<1> DEFINE m == IF 0 <= x THEN x ELSE 0
<1>1. m \in {0, x} /\ \A z \in {0, x} : m >= z
  BY SMT
<1>2. \A w \in {0, x} : (\A z \in {0, x} : w >= z) => w = m
  BY SMT
<1> HIDE DEF m
<1>3. Max({0, x}) = m
  BY <1>1, <1>2 DEF Max
<1>4. QED  BY <1>3 DEF m

LEMMA LegacyType ==
  ASSUME NEW l \in LegacySet, NEW v \in Vaults
  PROVE  /\ Up(l, Principal[v], Collateral[v]) \in LegacySet
         /\ Down(l, Principal[v], Collateral[v]) \in LegacySet
<1>1. /\ Principal[v] \in Nat /\ Collateral[v] \in Nat /\ MaxAmount \in Nat
      /\ l.dd \in Nat /\ l.coll \in Nat
  BY AmountsAssumption DEF LegacySet
<1>2. /\ Min({l.dd + Principal[v], MaxAmount}) \in Nat
      /\ Min({l.coll + Collateral[v], MaxAmount}) \in Nat
  BY <1>1, ClampUp, SMT
<1>3. /\ Max({0, l.dd - Principal[v]}) \in Nat
      /\ Max({0, l.coll - Collateral[v]}) \in Nat
  <2>1. l.dd - Principal[v] \in Int /\ l.coll - Collateral[v] \in Int
    BY <1>1, SMT
  <2>2. QED  BY <2>1, ClampDown, SMT
<1>4. QED  BY <1>2, <1>3 DEF Up, Down, LegacySet

LEMMA ScanType ==
  ASSUME NEW s \in SUBSET Vaults
  PROVE  LegacyScan(s) \in LegacySet
  BY TotalsType DEF LegacyScan, LegacySet

\* Without clamping a vault is counted in and out exactly.
LEMMA LegacyCounts ==
  ASSUME NEW s \in SUBSET Vaults, NEW v \in Vaults
  PROVE  /\ /\ v \notin s
            /\ Total(Principal, s \cup {v}) <= MaxAmount
            /\ Total(Collateral, s \cup {v}) <= MaxAmount
            => Up(LegacyScan(s), Principal[v], Collateral[v]) = LegacyScan(s \cup {v})
         /\ v \in s => Down(LegacyScan(s), Principal[v], Collateral[v]) = LegacyScan(s \ {v})
<1>0. Principal[v] \in Nat /\ Collateral[v] \in Nat /\ MaxAmount \in Nat
  BY AmountsAssumption
<1>1. ASSUME v \notin s, Total(Principal, s \cup {v}) <= MaxAmount,
             Total(Collateral, s \cup {v}) <= MaxAmount
      PROVE  Up(LegacyScan(s), Principal[v], Collateral[v]) = LegacyScan(s \cup {v})
  <2> DEFINE p == Total(Principal, s)
             c == Total(Collateral, s)
  <2>1. /\ Total(Principal, s \cup {v}) = p + Principal[v]
        /\ Total(Collateral, s \cup {v}) = c + Collateral[v]
    BY <1>1, TotalsAdd
  <2>2. p \in Nat /\ c \in Nat
    BY TotalsType
  <2>3. LegacyScan(s) = [dd |-> p, coll |-> c]
        /\ LegacyScan(s \cup {v}) = [dd |-> p + Principal[v], coll |-> c + Collateral[v]]
    BY <2>1 DEF LegacyScan
  <2> HIDE DEF p, c
  <2>4. /\ Min({p + Principal[v], MaxAmount}) = p + Principal[v]
        /\ Min({c + Collateral[v], MaxAmount}) = c + Collateral[v]
    BY <1>0, <1>1, <2>1, <2>2, ClampUp, SMTT(30)
  <2>5. QED  BY <2>3, <2>4, SMT DEF Up
<1>2. ASSUME v \in s
      PROVE  Down(LegacyScan(s), Principal[v], Collateral[v]) = LegacyScan(s \ {v})
  <2> DEFINE e == s \ {v}
             p == Total(Principal, e)
             c == Total(Collateral, e)
  <2>1. e \in SUBSET Vaults /\ v \in Vaults \ e /\ e \cup {v} = s
    BY <1>2
  <2> HIDE DEF e
  <2>2. /\ Total(Principal, s) = p + Principal[v]
        /\ Total(Collateral, s) = c + Collateral[v]
    BY <2>1, TotalsAdd
  <2>3. p \in Nat /\ c \in Nat
    BY <2>1, TotalsType
  <2>4. LegacyScan(e) = [dd |-> p, coll |-> c]
        /\ LegacyScan(s) = [dd |-> p + Principal[v], coll |-> c + Collateral[v]]
    BY <2>2 DEF LegacyScan
  <2> HIDE DEF p, c
  <2>5. (p + Principal[v]) - Principal[v] = p /\ (c + Collateral[v]) - Collateral[v] = c
    BY <1>0, <2>3, SMT
  <2>6. Max({0, p}) = p /\ Max({0, c}) = c
    BY <2>3, ClampDown, SMTT(30)
  <2>7. Down(LegacyScan(s), Principal[v], Collateral[v]) = LegacyScan(e)
    BY <2>4, <2>5, <2>6, SMTT(30) DEF Down
  <2>8. QED  BY <2>7 DEF e
<1>3. QED  BY <1>1, <1>2

\* One transaction, when it burns the principal.
LegacyTx(l, x) ==
    IF x.kind = "mint" THEN Up(l, Principal[x.vault], Collateral[x.vault])
                       ELSE Down(l, Principal[x.vault], Collateral[x.vault])
UnlegacyTx(l, x) ==
    IF x.kind = "mint" THEN Down(l, Principal[x.vault], Collateral[x.vault])
                       ELSE Up(l, Principal[x.vault], Collateral[x.vault])

LegacyChain(g, base, b) ==
    /\ g[0] = base
    /\ \A k \in 1..Len(Txs[b]) : g[k] = LegacyTx(g[k - 1], Txs[b][k])

UnlegacyChain(g, base, b) ==
    /\ g[0] = base
    /\ \A k \in 1..Len(Txs[b]) : g[k] = UnlegacyTx(g[k - 1], Reverse(Txs[b])[k])

LEMMA LegacySteps ==
  ASSUME NEW base \in LegacySet, NEW b \in Blocks, Burn = Principal
  PROVE  \E g : LegacyChain(g, base, b) /\ LegacyConnect(base, b) = g[Len(Txs[b])]
<1> DEFINE q == Txs[b]
           n == Len(Txs[b])
           D == 1..n
           V == LegacySet
           G == [p \in D \X V |-> LegacyTx(p[2], q[p[1]])]
           Rec(it) == it = [s \in SUBSET D |-> IF s = {} THEN base
                                              ELSE LegacyTx(it[s \ {Max(s)}], q[Max(s)])]
           it == CHOOSE it : Rec(it)
<1>1. n \in Nat /\ DOMAIN q = D /\ \A i \in D : q[i] \in TxSet
  BY TxsType, SMTT(30)
<1>2. \A i \in D, t \in V : LegacyTx(t, q[i]) \in V
  BY <1>1, LegacyType DEF TxSet, LegacyTx
<1>3. PICK f : SeqFold(f, n, V, base, G)
  <2> HIDE DEF V
  <2>1. base \in V /\ G \in [D \X V -> V]
    BY <1>2 DEF V
  <2>2. QED  BY <1>1, <2>1, SeqFoldExists
<1>4. Rec(f)
  BY <1>3 DEF SeqFold
<1>5. Rec(it)
  BY <1>4
<1>6. LegacyConnect(base, b) = it[D]
  BY <1>1 DEF LegacyConnect, FoldLeft, MapThenFoldSet, LegacyTx
<1> HIDE DEF it
<1>7. it[{}] = base /\ \A k \in D : it[1..k] = LegacyTx(it[1..(k - 1)], q[k])
  <2>1. ASSUME NEW k \in D PROVE it[1..k] = LegacyTx(it[1..(k - 1)], q[k])
    <3>1. Max(1..k) = k /\ (1..k) \ {k} = 1..(k - 1) /\ 1..k # {} /\ 1..k \in SUBSET D
      BY <1>1, Prefix
    <3>2. QED  BY <1>5, <3>1
  <2>2. QED  BY <1>5, <2>1
<1> HIDE DEF q, n
<1>8. it[{}] \in V /\ \A k \in D : it[1..(k - 1)] \in V => it[1..k] \in V
  BY <1>2, <1>7, SMTT(30)
<1> HIDE DEF V
<1>9. PICK h : Chain(h, n, V, it) /\ h[0] = it[{}]
  <2>1. n \in Nat  BY <1>1
  <2>2. it[{}] \in V /\ \A k \in 1..n : it[1..(k - 1)] \in V => it[1..k] \in V  BY <1>8
  <2>3. QED  BY <2>1, <2>2, FoldChain
<1>10. \A k \in D : h[k] = it[1..k] /\ h[k - 1] = it[1..(k - 1)]
  BY <1>1, <1>9, SMT DEF Chain
<1>11. \A k \in D : h[k] = LegacyTx(h[k - 1], q[k])
  BY <1>7, <1>10
<1>12. h[n] = it[D]
  BY <1>1, <1>9, SMT DEF Chain
<1>13. QED  BY <1>6, <1>7, <1>9, <1>11, <1>12 DEF n, q, LegacyChain

LEMMA UnlegacySteps ==
  ASSUME NEW base \in LegacySet, NEW b \in Blocks, Burn = Principal
  PROVE  \E g : UnlegacyChain(g, base, b) /\ LegacyDisconnect(base, b) = g[Len(Txs[b])]
<1> DEFINE q == Reverse(Txs[b])
           n == Len(Txs[b])
           D == 1..n
           V == LegacySet
           G == [p \in D \X V |-> UnlegacyTx(p[2], q[p[1]])]
           Rec(it) == it = [s \in SUBSET D |-> IF s = {} THEN base
                                              ELSE UnlegacyTx(it[s \ {Max(s)}], q[Max(s)])]
           it == CHOOSE it : Rec(it)
<1>1. n \in Nat /\ DOMAIN q = D /\ \A i \in D : q[i] \in TxSet
  BY TxsType, SMTT(30) DEF Reverse
<1>2. \A i \in D, t \in V : UnlegacyTx(t, q[i]) \in V
  BY <1>1, LegacyType DEF TxSet, UnlegacyTx
<1>3. PICK f : SeqFold(f, n, V, base, G)
  <2> HIDE DEF V
  <2>1. base \in V /\ G \in [D \X V -> V]
    BY <1>2 DEF V
  <2>2. QED  BY <1>1, <2>1, SeqFoldExists
<1>4. Rec(f)
  BY <1>3 DEF SeqFold
<1>5. Rec(it)
  BY <1>4
<1>6. LegacyDisconnect(base, b) = it[D]
  BY <1>1 DEF LegacyDisconnect, FoldLeft, MapThenFoldSet, UnlegacyTx
<1> HIDE DEF it
<1>7. it[{}] = base /\ \A k \in D : it[1..k] = UnlegacyTx(it[1..(k - 1)], q[k])
  <2>1. ASSUME NEW k \in D PROVE it[1..k] = UnlegacyTx(it[1..(k - 1)], q[k])
    <3>1. Max(1..k) = k /\ (1..k) \ {k} = 1..(k - 1) /\ 1..k # {} /\ 1..k \in SUBSET D
      BY <1>1, Prefix, SMTT(30)
    <3>2. QED  BY <1>5, <3>1
  <2>2. QED  BY <1>5, <2>1
<1> HIDE DEF q, n
<1>8. it[{}] \in V /\ \A k \in D : it[1..(k - 1)] \in V => it[1..k] \in V
  BY <1>2, <1>7
<1> HIDE DEF V
<1>9. PICK h : Chain(h, n, V, it) /\ h[0] = it[{}]
  BY <1>1, <1>8, FoldChain
<1>10. \A k \in D : h[k] = it[1..k] /\ h[k - 1] = it[1..(k - 1)]
  BY <1>1, <1>9, SMT DEF Chain
<1>11. \A k \in D : h[k] = UnlegacyTx(h[k - 1], q[k])
  BY <1>7, <1>10
<1>12. h[n] = it[D]
  BY <1>1, <1>9, SMT DEF Chain
<1>13. QED  BY <1>6, <1>7, <1>9, <1>11, <1>12 DEF n, q, UnlegacyChain

\* The vaults open at any moment while block b is connected or disconnected.
LEMMA WithinBlock ==
  ASSUME NEW b \in Blocks \ {Genesis}, NoClamp, NEW s,
         s \in SUBSET (OpenAt(Parent[b]) \cup Minted(b))
  PROVE  Total(Principal, s) <= MaxAmount /\ Total(Collateral, s) <= MaxAmount
<1> DEFINE W == OpenAt(Parent[b]) \cup Minted(b)
<1>1. W \in SUBSET Vaults
  BY DEF OpenAt, Minted
<1>2. Total(Principal, W) <= MaxAmount /\ Total(Collateral, W) <= MaxAmount
  BY DEF NoClamp
<1> HIDE DEF W
<1>3. Principal \in [Vaults -> Nat] /\ Collateral \in [Vaults -> Nat] /\ IsFiniteSet(Vaults)
      /\ MaxAmount \in Nat
  BY AmountsAssumption
<1>4. s \in SUBSET W /\ s \in SUBSET Vaults
  BY <1>1 DEF W
<1>5. /\ SumOver(Principal, s) <= SumOver(Principal, W)
      /\ SumOver(Collateral, s) <= SumOver(Collateral, W)
  BY <1>1, <1>3, <1>4, SumMono
<1>6. /\ Total(Principal, s) <= Total(Principal, W)
      /\ Total(Collateral, s) <= Total(Collateral, W)
  BY <1>5 DEF Total, SumOver
<1>7. /\ Total(Principal, s) \in Nat /\ Total(Collateral, s) \in Nat
      /\ Total(Principal, W) \in Nat /\ Total(Collateral, W) \in Nat
  BY <1>1, <1>4, TotalsType, SMTT(30)
<1>8. QED  BY <1>2, <1>3, <1>6, <1>7, SMTT(30)

LEMMA LegacyConnectIs ==
  ASSUME NEW b \in Blocks \ {Genesis}, Burn = Principal, NoClamp
  PROVE  LegacyConnect(LegacyScan(OpenAt(Parent[b])), b) = LegacyScan(OpenAt(b))
<1> DEFINE q == Txs[b]
           n == Len(q)
           open == OpenAt(Parent[b])
<1>1. n \in Nat /\ DOMAIN q = 1..n /\ \A i \in 1..n : q[i] \in TxSet
  BY TxsType
<1>2. open \in SUBSET Vaults
  BY DEF OpenAt
<1>3. PICK h : ApplyChain(h, open, b) /\ Apply(open, b) = h[n]
  BY <1>2, ApplySteps
<1>4. LegacyScan(open) \in LegacySet
  BY <1>2, ScanType
<1>5. PICK g : LegacyChain(g, LegacyScan(open), b)
               /\ LegacyConnect(LegacyScan(open), b) = g[n]
  BY <1>4, LegacySteps
<1>0. b \in Blocks /\ b # Genesis
  OBVIOUS
<1>6. \A k \in 0..n : h[k] = (open \cup MintedBy(b, 1..k)) \ RedeemedBy(b, 1..k)
  <2> HIDE DEF open
  <2>1. ApplyChain(h, open, b)
    BY <1>3
  <2>2. QED  BY <1>0, <1>2, <2>1, ApplyPrefix
<1>13. \A k \in 0..n : h[k] \in SUBSET (open \cup Minted(b))
  <2>1. \A k \in 0..n : MintedBy(b, 1..k) \subseteq Minted(b)
    BY <1>1, SMTT(30) DEF MintedBy, Minted
  <2>2. QED  BY <1>6, <2>1
<1> DEFINE T == {k \in 0..n : g[k] = LegacyScan(h[k])}
<1>7. 0 \in T
  BY <1>1, <1>3, <1>5, SMTT(30) DEF ApplyChain, LegacyChain
<1>8. ASSUME NEW k \in 1..n, k - 1 \in T PROVE k \in T
  <2> DEFINE v == q[k].vault
  <2>1. /\ k - 1 \in 0..n /\ k \in 0..n /\ q[k] \in TxSet /\ v \in Vaults
        /\ g[k - 1] = LegacyScan(h[k - 1])
    BY <1>1, <1>8, SMTT(30) DEF TxSet
  <2>2. /\ h[k - 1] \in SUBSET Vaults
        /\ h[k] = ApplyTx(h[k - 1], q[k]) /\ g[k] = LegacyTx(g[k - 1], q[k])
    BY <1>3, <1>5, <2>1, SMTT(30) DEF ApplyChain, LegacyChain
  <2>3. h[k - 1] = (open \cup MintedBy(b, 1..(k - 1))) \ RedeemedBy(b, 1..(k - 1))
    BY <1>6, <2>1, SMTT(30)
  <2>4. \/ q[k] = [kind |-> "mint", vault |-> v]
        \/ q[k] = [kind |-> "redeem", vault |-> v]
    BY <2>1, SMTT(30) DEF TxSet
  <2>8. Total(Principal, h[k]) <= MaxAmount /\ Total(Collateral, h[k]) <= MaxAmount
    BY <1>13, <2>1, WithinBlock
  <2> HIDE DEF v, T
  <2>5. CASE q[k] = [kind |-> "mint", vault |-> v]
    <3>1. v \notin h[k - 1]
      BY <2>1, <2>3, <2>5, TxBefore
    <3>2. h[k] = h[k - 1] \cup {v} /\ g[k] = Up(g[k - 1], Principal[v], Collateral[v])
      BY <2>2, <2>5, SMTT(30) DEF ApplyTx, LegacyTx
    <3>3. g[k] = LegacyScan(h[k])
      BY <2>1, <2>2, <2>8, <3>1, <3>2, LegacyCounts, SMTT(30)
    <3>4. QED  BY <2>1, <3>3 DEF T
  <2>6. CASE q[k] = [kind |-> "redeem", vault |-> v]
    <3>1. v \in h[k - 1]
      BY <2>1, <2>3, <2>6, TxBefore
    <3>2. h[k] = h[k - 1] \ {v} /\ g[k] = Down(g[k - 1], Principal[v], Collateral[v])
      BY <2>2, <2>6, SMTT(30) DEF ApplyTx, LegacyTx
    <3>3. g[k] = LegacyScan(h[k])
      BY <2>1, <2>2, <3>1, <3>2, LegacyCounts
    <3>4. QED  BY <2>1, <3>3, SMT DEF T
  <2>7. QED  BY <2>4, <2>5, <2>6, SMTT(30)
<1>9. \A k \in 0..n : k \in T
  <2> HIDE DEF T, n
  <2>1. QED  BY <1>1, <1>7, <1>8, StepInduction
<1>10. n \in 0..n
  BY <1>1, SMT
<1>11. h[n] = OpenAt(b)
  BY <1>3, CoinsMove, SMTT(30)
<1>12. QED  BY <1>5, <1>9, <1>10, <1>11

LEMMA LegacyDisconnectIs ==
  ASSUME NEW b \in Blocks \ {Genesis}, Burn = Principal, NoClamp
  PROVE  LegacyDisconnect(LegacyScan(OpenAt(b)), b) = LegacyScan(OpenAt(Parent[b]))
<1> DEFINE q == Txs[b]
           n == Len(q)
           open == OpenAt(b)
<1>1. n \in Nat /\ DOMAIN q = 1..n /\ \A i \in 1..n : q[i] \in TxSet
  BY TxsType, SMT
<1>2. open \in SUBSET Vaults
  BY DEF OpenAt
<1>3. PICK h : UnapplyChain(h, open, b) /\ Unapply(open, b) = h[n]
  BY <1>2, UnapplySteps
<1>4. LegacyScan(open) \in LegacySet
  BY <1>2, ScanType
<1>5. PICK g : UnlegacyChain(g, LegacyScan(open), b)
               /\ LegacyDisconnect(LegacyScan(open), b) = g[n]
  BY <1>4, UnlegacySteps
<1>6. \A k \in 0..n : h[k] = (open \cup RedeemedBy(b, LastTxs(b, k))) \ MintedBy(b, LastTxs(b, k))
  BY <1>2, <1>3, UnapplySuffix, ZenonT(60)
<1>13. \A k \in 0..n : h[k] \in SUBSET (OpenAt(Parent[b]) \cup Minted(b))
  <2>1. \A k \in 0..n : RedeemedBy(b, LastTxs(b, k)) \subseteq Redeemed(b)
    BY <1>1, SMT DEF RedeemedBy, Redeemed, LastTxs
  <2>2. \A k \in 0..n : h[k] \subseteq open \cup Redeemed(b)
    BY <1>6, <2>1
  <2>3. open \cup Redeemed(b) \subseteq OpenAt(Parent[b]) \cup Minted(b)
    BY OpenAtStep, SMTT(30)
  <2>4. QED  BY <2>2, <2>3
<1> DEFINE T == {k \in 0..n : g[k] = LegacyScan(h[k])}
<1>7. 0 \in T
  BY <1>1, <1>3, <1>5, SMTT(30) DEF UnapplyChain, UnlegacyChain
<1>8. ASSUME NEW k \in 1..n, k - 1 \in T PROVE k \in T
  <2> DEFINE j == n - k + 1
             v == q[j].vault
  <2>1. /\ k - 1 \in 0..n /\ k \in 0..n /\ j \in 1..n /\ q[j] \in TxSet /\ v \in Vaults
        /\ g[k - 1] = LegacyScan(h[k - 1])
    BY <1>1, <1>8, SMT DEF TxSet
  <2>2. /\ Reverse(q)[k] = q[j] /\ LastTxs(b, k - 1) = (j + 1)..n
    <3>1. n - (k - 1) + 1 = j + 1
      BY <1>1, SMTT(30)
    <3>2. QED  BY <3>1 DEF Reverse, LastTxs
  <2> HIDE DEF j
  <2>3. /\ h[k - 1] \in SUBSET Vaults
        /\ h[k] = UnapplyTx(h[k - 1], q[j]) /\ g[k] = UnlegacyTx(g[k - 1], q[j])
    BY <1>3, <1>5, <2>1, <2>2, SMTT(30) DEF UnapplyChain, UnlegacyChain
  <2>4. h[k - 1] = (open \cup RedeemedBy(b, (j + 1)..n)) \ MintedBy(b, (j + 1)..n)
    BY <1>6, <2>1, <2>2, SMTT(30)
  <2>5. \/ q[j] = [kind |-> "mint", vault |-> v]
        \/ q[j] = [kind |-> "redeem", vault |-> v]
    BY <2>1, SMTT(30) DEF TxSet
  <2>9. Total(Principal, h[k]) <= MaxAmount /\ Total(Collateral, h[k]) <= MaxAmount
    BY <1>13, <2>1, WithinBlock, SMTT(30)
  <2> HIDE DEF v, T
  <2>6. CASE q[j] = [kind |-> "mint", vault |-> v]
    <3>1. v \in h[k - 1]
      BY <2>1, <2>4, <2>6, TxAfter
    <3>2. h[k] = h[k - 1] \ {v} /\ g[k] = Down(g[k - 1], Principal[v], Collateral[v])
      BY <2>3, <2>6, SMTT(30) DEF UnapplyTx, UnlegacyTx
    <3>3. g[k] = LegacyScan(h[k])
      BY <2>1, <2>3, <3>1, <3>2, LegacyCounts, SMTT(30)
    <3>4. QED  BY <2>1, <3>3 DEF T
  <2>7. CASE q[j] = [kind |-> "redeem", vault |-> v]
    <3>1. v \notin h[k - 1]
      BY <2>1, <2>4, <2>7, TxAfter
    <3>2. h[k] = h[k - 1] \cup {v} /\ g[k] = Up(g[k - 1], Principal[v], Collateral[v])
      BY <2>3, <2>7, SMTT(30) DEF UnapplyTx, UnlegacyTx
    <3>3. g[k] = LegacyScan(h[k])
      BY <2>1, <2>3, <2>9, <3>1, <3>2, LegacyCounts, SMTT(30)
    <3>4. QED  BY <2>1, <3>3, SMT DEF T
  <2>8. QED  BY <2>5, <2>6, <2>7, SMTT(30)
<1>9. \A k \in 0..n : k \in T
  <2> HIDE DEF T, n
  <2>1. QED  BY <1>1, <1>7, <1>8, StepInduction
<1>10. n \in 0..n
  BY <1>1, SMT
<1>11. h[n] = OpenAt(Parent[b])
  BY <1>3, CoinsMove, SMTT(30)
<1>12. QED  BY <1>5, <1>9, <1>10, <1>11, SMTT(30)

\* The block whose vaults the legacy totals count: the tip, or above Thaw Day
\* the last block below it.
LegacyBase(b) == IF Active(b) THEN Ancestor(b, ThawHeight - 1) ELSE b

LEMMA LegacyBaseStep ==
  ASSUME NEW b \in Blocks \ {Genesis}, ThawHeight > 0
  PROVE  /\ Active(b) => LegacyBase(b) = LegacyBase(Parent[b])
         /\ ~ Active(b) => /\ ~ Active(Parent[b])
                           /\ LegacyBase(b) = b /\ LegacyBase(Parent[b]) = Parent[b]
<1> DEFINE p == Parent[b]
           h == ThawHeight - 1
<1>1. /\ b \in Blocks /\ p \in Blocks /\ Height[b] = Height[p] + 1 /\ Height[p] \in Nat
      /\ Branch[b] = Branch[p] \cup {b} /\ p \in Branch[p] /\ ThawHeight \in Nat
  BY TreeAssumption, BranchFacts, SMTT(30)
<1>2. CASE ~ Active(b)
  <2>1. ~ Active(p)
    BY <1>1, <1>2, SMT DEF Active, IsThawDayActive
  <2>2. QED  BY <1>2, <2>1, SMTT(30) DEF LegacyBase
<1>3. CASE Active(b) /\ ~ Active(p)
  <2>1. Height[p] = h
    BY <1>1, <1>3, SMT DEF Active, IsThawDayActive
  <2>2. Ancestor(b, h) = p
    BY <1>1, <2>1, AncestorIs, SMTT(30)
  <2>3. QED  BY <1>3, <2>2, SMTT(30) DEF LegacyBase
<1>4. CASE Active(b) /\ Active(p)
  <2>1. h \in 0..Height[p]
    BY <1>1, <1>4, SMTT(30) DEF Active, IsThawDayActive
  <2>2. Ancestor(p, h) \in Branch[p] /\ Height[Ancestor(p, h)] = h
    BY <1>1, <2>1, AncestorAt, SMTT(30)
  <2>3. Ancestor(b, h) = Ancestor(p, h)
    BY <1>1, <2>2, AncestorIs, SMT
  <2>4. QED  BY <1>4, <2>3 DEF LegacyBase
<1>5. QED  BY <1>2, <1>3, <1>4, SMTT(30)

\* The totals count LegacyBase of the tip from the startup scan on, except while
=============================================================================
