------------------------ MODULE CanonicalHealthProofs ------------------------
(***************************************************************************)
(* The chainstate of a node, for every block tree, Thaw Day height and     *)
(* pattern of crashes, interrupted database writes, cancelled recoveries   *)
(* and other releases: history_checked is only ever established by         *)
(* validation, the coins are those of their block, the record counts the   *)
(* coins, a running node is ready, and the legacy totals are exact.        *)
(***************************************************************************)
EXTENDS CoinsFacts

\* Most steps are first-order reasoning, which Zenon does; the others name SMT.
USE Zenon

\* The inductive form speaks of every record that is held, also one that no
\* view shows because its block is not the view's best block: an older release
\* may move the database back to that block and so make the record visible.
Good(r) == r # NoRecord /\ r.act = ThawHeight /\ r.checked => CleanHistory(r.best)

HistoryInv ==
    /\ coins.best \in Blocks /\ disk.best \in Blocks /\ disk.to \in Blocks
    /\ goal \in Blocks
    /\ pc \in {"rewind", "anchor", "replay"} => coins.best \in Branch[goal]
    /\ Good(coins.rec)
    /\ Good(disk.rec)

\* NoRecord (std::nullopt) is not a record.
LEMMA NoRecordGood == Good(NoRecord)
  BY DEF Good

\* There is nothing to verify up to the genesis block or below Thaw Day.
LEMMA CleanBelow ==
  ASSUME NEW b \in Blocks, ~ Active(b) \/ Height[b] = 0
  PROVE  CleanHistory(b)
<1>1. CASE b = Genesis
  BY <1>1, TreeAssumption DEF CleanHistory
<1>2. CASE b # Genesis
  <2>1. Height[Parent[b]] \in Nat /\ Height[b] = Height[Parent[b]] + 1
    BY <1>2, TreeAssumption
  <2>2. ~ Active(b)
    BY <2>1, SMT
  <2>3. \A a \in Branch[b] : a \in Blocks /\ Height[a] <= Height[b]
    BY <1>2, TreeAssumption
  <2>4. \A a \in Branch[b] : ~ Active(a)
    BY <2>2, <2>3, TreeAssumption, SMT DEF Active, IsThawDayActive
  <2>5. QED  BY <2>4 DEF CleanHistory
<1>3. QED  BY <1>1, <1>2

\* A block that obeys the rules extends a clean history; its parent's is clean.
LEMMA CleanStep ==
  ASSUME NEW b \in Blocks, b # Genesis
  PROVE  /\ CleanHistory(Parent[b]) /\ (Active(b) => Follows[b]) => CleanHistory(b)
         /\ CleanHistory(b) => CleanHistory(Parent[b])
<1>1. Branch[b] = Branch[Parent[b]] \cup {b}
  BY TreeAssumption
<1>2. QED  BY <1>1 DEF CleanHistory

\* Rebuilding a record from the coins establishes nothing about the history.
LEMMA RebuiltGood ==
  ASSUME NEW view, view.best \in Blocks
  PROVE  Good(Rebuilt(view))
<1>1. Rebuilt(view).checked = (Height[view.best] = 0 /\ Active(view.best))
      /\ Rebuilt(view).best = view.best
  BY DEF Rebuilt, Record
<1>2. QED  BY <1>1, CleanBelow DEF Good

LEMMA StoredGood ==
  ASSUME NEW view, Good(view.rec)
  PROVE  Good(Stored(view))
  BY NoRecordGood DEF Stored

\* A verified record of the view proves the history of its best block.
LEMMA CheckedClean ==
  ASSUME NEW view, Good(view.rec), Matches(Stored(view), view.best), Stored(view).checked
  PROVE  CleanHistory(view.best)
<1>1. Good(Stored(view))
  BY StoredGood
<1>2. QED  BY <1>1 DEF Good, Matches

\* ConnectBlock checks a Thaw Day block only on a parent with a clean history.
LEMMA BaseClean ==
  ASSUME NEW view, view.best \in Blocks, Good(view.rec), NEW ok \in BOOLEAN,
         PrepareDigiDollarParent(view, ok) # NoRecord
  PROVE  CleanHistory(view.best)
<1>1. CASE ~ Active(view.best) \/ Height[view.best] = 0
  BY <1>1, CleanBelow
<1>2. CASE Active(view.best) /\ Height[view.best] # 0
  <2>1. Height[view.best] > 0
    BY <1>2, TreeAssumption, SMT
  <2>2. Matches(Stored(view), view.best) /\ Stored(view).checked
    BY <1>2, <2>1 DEF PrepareDigiDollarParent
  <2>3. QED  BY <2>2, CheckedClean
<1>3. QED  BY <1>1, <1>2

LEMMA PreparedGood ==
  ASSUME NEW view, view.best \in Blocks, Good(view.rec), NEW ok \in BOOLEAN
  PROVE  Good(PrepareDigiDollarParent(view, ok))
  BY RebuiltGood, StoredGood, NoRecordGood DEF PrepareDigiDollarParent

\* The record that ConnectBlock leaves.
LEMMA ConnectGood ==
  ASSUME NEW view, view.best \in Blocks, Good(view.rec), NEW ok \in BOOLEAN,
         NEW b \in Blocks, b # Genesis, Parent[b] = view.best,
         CanConnectBlock(view, b, ok)
  PROVE  /\ ConnectBlock(view, b, ok).best = b
         /\ Good(ConnectBlock(view, b, ok).rec)
<1> DEFINE next == [best |-> b, open |-> Apply(view.open, b), rec |-> NoRecord]
           tot == UpdateChainstateHealth(Base(view, ok).totals, b)
<1>1. CASE Active(b)
  <2>1. ConnectBlock(view, b, ok) = [next EXCEPT !.rec = Record(b, tot, TRUE)]
    BY <1>1 DEF ConnectBlock
  <2>2. CleanHistory(view.best)
    BY <1>1, BaseClean DEF CanConnectBlock, Base
  <2>3. CleanHistory(b)
    BY <1>1, <2>2, CleanStep DEF CanConnectBlock
  <2>4. ConnectBlock(view, b, ok).best = b /\ ConnectBlock(view, b, ok).rec = Record(b, tot, TRUE)
    BY <2>1
  <2>5. Record(b, tot, TRUE).best = b
    BY DEF Record
  <2>6. QED  BY <2>3, <2>4, <2>5 DEF Good
<1>2. CASE ~ Active(b) /\ IsThawDayActive(Height[b] + 1)
  <2>1. ConnectBlock(view, b, ok) = [next EXCEPT !.rec = PrepareDigiDollarParent(next, ok)]
    BY <1>2 DEF ConnectBlock
  <2>2. next.best = b /\ Good(next.rec)
    BY NoRecordGood
  <2> HIDE DEF next
  <2>3. Good(PrepareDigiDollarParent(next, ok))
    BY <2>2, PreparedGood
  <2>4. ConnectBlock(view, b, ok).best = b
        /\ ConnectBlock(view, b, ok).rec = PrepareDigiDollarParent(next, ok)
    BY <2>1 DEF next
  <2>5. QED  BY <2>3, <2>4
<1>3. CASE ~ Active(b) /\ ~ IsThawDayActive(Height[b] + 1)
  BY <1>3, NoRecordGood DEF ConnectBlock
<1>4. QED  BY <1>1, <1>2, <1>3

LEMMA DisconnectGood ==
  ASSUME NEW view, view.best \in Blocks, view.best # Genesis, Good(view.rec),
         CanDisconnectBlock(view)
  PROVE  /\ DisconnectBlock(view).best = Parent[view.best]
         /\ Good(DisconnectBlock(view).rec)
<1> DEFINE tot == UndoChainstateHealth(view.rec.totals, view.best)
           p == Parent[view.best]
<1>1. CASE Active(view.best)
  <2>1. CleanHistory(view.best)
    BY <1>1, CheckedClean DEF CanDisconnectBlock
  <2>2. CleanHistory(p)
    BY <2>1, CleanStep
  <2>3. DisconnectBlock(view).best = p /\ DisconnectBlock(view).rec = Record(p, tot, Active(p))
    BY <1>1 DEF DisconnectBlock
  <2>4. Record(p, tot, Active(p)).best = p
    BY DEF Record
  <2>5. QED  BY <2>2, <2>3, <2>4 DEF Good
<1>2. CASE ~ Active(view.best)
  BY <1>2, NoRecordGood DEF DisconnectBlock
<1>3. QED  BY <1>1, <1>2

LEMMA WrittenGood ==
  ASSUME NEW view, view.best \in Blocks, Good(view.rec)
  PROVE  /\ Written(view).best \in Blocks /\ Written(view).to \in Blocks
         /\ Good(Written(view).rec)
  BY StoredGood DEF Written

LEMMA ReplayBlocksGood ==
  ASSUME disk.to \in Blocks
  PROVE  /\ ReplayBlocks.best \in Blocks /\ ReplayBlocks.to \in Blocks
         /\ Good(ReplayBlocks.rec)
  BY NoRecordGood DEF ReplayBlocks, Written, Stored

-----------------------------------------------------------------------------
(* One lemma for each group of actions.                                    *)

\* The next block to replay is a child of the tip, as ConnectTip asserts.
LEMMA NextIsChild ==
  ASSUME HistoryInv, pc = "replay", coins.best # goal
  PROVE  /\ NextReplayed \in Blocks
         /\ NextReplayed # Genesis
         /\ Parent[NextReplayed] = coins.best
         /\ NextReplayed \in Branch[goal]
<1>1. coins.best \in Branch[goal] /\ goal \in Blocks /\ coins.best \in Blocks
  BY DEF HistoryInv
<1>2. \E c \in Branch[goal] : Height[c] = Height[coins.best] + 1
  BY <1>1, TreeAssumption
<1>3. NextReplayed \in Branch[goal] /\ Height[NextReplayed] = Height[coins.best] + 1
  BY <1>2 DEF NextReplayed, Ancestor
<1>4. NextReplayed \in Blocks /\ Parent[NextReplayed] = coins.best
  BY <1>1, <1>3, TreeAssumption, SMT
<1>5. NextReplayed # Genesis
  BY <1>1, <1>3, TreeAssumption, SMT
<1>6. QED  BY <1>3, <1>4, <1>5

LEMMA RunningSteps ==
  ASSUME HistoryInv,
         \/ \E b \in Blocks, ok \in BOOLEAN : ConnectTip(b, ok)
         \/ \E b \in Blocks : CheckBlock(b)
         \/ DisconnectTip
         \/ FlushStateToDisk
         \/ ReconstructFromChain
  PROVE  HistoryInv'
<1>1. ASSUME NEW b \in Blocks, NEW ok \in BOOLEAN, ConnectTip(b, ok)
      PROVE  HistoryInv'
  <2>1. coins'.best = b /\ Good(coins.rec)'
    BY <1>1, ConnectGood, SMT DEF ConnectTip, HistoryInv, Good, CleanHistory
  <2>2. QED  BY <1>1, <2>1 DEF ConnectTip, Running, HistoryInv, Good, CleanHistory
<1>2. ASSUME NEW b \in Blocks, CheckBlock(b)
      PROVE  HistoryInv'
  BY <1>2 DEF CheckBlock, HistoryInv, Good, CleanHistory
<1>3. CASE DisconnectTip
  <2>1. coins'.best = Parent[coins.best] /\ Good(coins.rec)'
    BY <1>3, DisconnectGood DEF DisconnectTip, HistoryInv, Good, CleanHistory
  <2>2. coins'.best \in Blocks
    BY <2>1, TreeAssumption, SMTT(30) DEF HistoryInv
  <2>3. QED  BY <1>3, <2>1, <2>2, SMTT(30) DEF DisconnectTip, Running, HistoryInv, Good, CleanHistory
<1>4. CASE FlushStateToDisk
  BY <1>4, WrittenGood, SMTT(30) DEF FlushStateToDisk, memory, HistoryInv, Good, CleanHistory
<1>5. CASE ReconstructFromChain
  BY <1>5, WrittenGood DEF ReconstructFromChain, HistoryInv, Good, CleanHistory
<1>6. QED  BY <1>1, <1>2, <1>3, <1>4, <1>5, SMTT(30)

\* A process that ends holds no record; the database keeps its own.
LEMMA GoneInv ==
  ASSUME HistoryInv, Gone, disk'.best \in Blocks, disk'.to \in Blocks, Good(disk'.rec)
  PROVE  HistoryInv'
<1>1. coins'.best = Genesis /\ coins'.rec = NoRecord /\ goal' = Genesis /\ pc' = "off"
  BY DEF Gone
<1>2. Genesis \in Blocks
  BY TreeAssumption
<1>3. QED  BY <1>1, <1>2, NoRecordGood DEF HistoryInv, Good, CleanHistory

LEMMA StopSteps ==
  ASSUME HistoryInv, Stop
  PROVE  HistoryInv'
<1>1. CASE Crash
  BY <1>1, GoneInv DEF Crash, HistoryInv
<1>2. CASE CrashInWrite
  <2>1. PICK open \in Mix(disk.open, coins.open) : disk' = Torn(coins.best, open)
    BY <1>2 DEF CrashInWrite
  <2>2. disk'.best \in Blocks /\ disk'.to \in Blocks /\ disk'.rec = disk.rec
    BY <2>1, SMT DEF Torn, HistoryInv
  <2>3. QED  BY <1>2, <2>2, GoneInv DEF CrashInWrite, HistoryInv
<1>3. CASE CrashInReplay
  <2>1. PICK open \in Mix(disk.open, ReplayBlocks.open) : disk' = Torn(disk.to, open)
    BY <1>3 DEF CrashInReplay
  <2>2. disk'.best \in Blocks /\ disk'.to \in Blocks /\ disk'.rec = disk.rec
    BY <2>1, SMT DEF Torn, HistoryInv
  <2>3. QED  BY <1>3, <2>2 DEF CrashInReplay, memory, HistoryInv, Good, CleanHistory
<1>4. CASE RunOtherRelease
  <2>1. PICK b \in Blocks \ {Genesis} :
          \E new \in {[best |-> b, open |-> Apply(disk.open, b)],
                      [best |-> Parent[b], open |-> Unapply(disk.open, b)]} :
            \E rec \in {disk.rec} \cup
                  {[best |-> new.best, act |-> h, totals |-> TotalsOf(new.open),
                    checked |-> TRUE] : h \in OtherHeights} :
                 disk' = [disk EXCEPT !.best = new.best, !.to = new.best,
                                      !.open = new.open, !.rec = rec]
    BY <1>4 DEF RunOtherRelease
  <2>2. PICK new \in {[best |-> b, open |-> Apply(disk.open, b)],
                     [best |-> Parent[b], open |-> Unapply(disk.open, b)]} :
            \E rec \in {disk.rec} \cup
                  {[best |-> new.best, act |-> h, totals |-> TotalsOf(new.open),
                    checked |-> TRUE] : h \in OtherHeights} :
                 disk' = [disk EXCEPT !.best = new.best, !.to = new.best,
                                      !.open = new.open, !.rec = rec]
    BY <2>1
  <2>3. PICK rec \in {disk.rec} \cup
                  {[best |-> new.best, act |-> h, totals |-> TotalsOf(new.open),
                    checked |-> TRUE] : h \in OtherHeights} :
                 disk' = [disk EXCEPT !.best = new.best, !.to = new.best,
                                      !.open = new.open, !.rec = rec]
    BY <2>2
  <2>4. new.best \in Blocks
    BY TreeAssumption, SMT
  <2>5. Good(rec)
    <3>1. CASE rec = disk.rec
      BY <3>1 DEF HistoryInv
    <3>2. CASE rec # disk.rec
      BY <3>2, TreeAssumption, SMT DEF Good
    <3>3. QED  BY <3>1, <3>2
  <2>6. disk'.best \in Blocks /\ disk'.to \in Blocks /\ Good(disk'.rec)
    BY <2>3, <2>4, <2>5, SMTT(30) DEF HistoryInv
  <2>7. QED  BY <1>4, <2>6 DEF RunOtherRelease, memory, HistoryInv, Good, CleanHistory
<1>5. CASE CancelRecovery
  BY <1>5, GoneInv, WrittenGood DEF CancelRecovery, HistoryInv
<1>6. QED  BY <1>1, <1>2, <1>3, <1>4, <1>5, SMTT(30) DEF Stop

LEMMA StartSteps ==
  ASSUME HistoryInv, Start \/ VerifyTotals \/ StartRecovery \/ Rewind
  PROVE  HistoryInv'
<1>1. CASE Start
  <2>1. disk'.best \in Blocks /\ disk'.to \in Blocks /\ Good(disk'.rec)
    BY <1>1, ReplayBlocksGood DEF Start, HistoryInv
  <2>2. coins'.best = disk'.best /\ coins'.rec = disk'.rec /\ pc' = "init" /\ goal' = goal
    BY <1>1 DEF Start
  <2>3. QED  BY <2>1, <2>2 DEF HistoryInv, Good, CleanHistory
<1>2. CASE VerifyTotals
  <2>1. CASE IsThawDayActive(Height[coins.best] + 1)
    <3> DEFINE rec == [Rebuilt(coins) EXCEPT !.checked = Verified \/ @]
    <3>1. coins' = [coins EXCEPT !.rec = rec]
      BY <1>2, <2>1 DEF VerifyTotals
    <3>2. rec.best = coins.best
          /\ rec.checked = (Verified \/ (Height[coins.best] = 0 /\ Active(coins.best)))
      BY DEF Rebuilt, Record
    <3>3. Verified => CleanHistory(coins.best)
      BY CheckedClean DEF Verified, HistoryInv
    <3>4. Height[coins.best] = 0 => CleanHistory(coins.best)
      BY CleanBelow DEF HistoryInv
    <3>5. Good(rec)
      BY <3>2, <3>3, <3>4 DEF Good
    <3> HIDE DEF rec
    <3>6. coins'.best = coins.best /\ coins'.rec = rec
      BY <3>1, SMT
    <3>7. disk' = Written(coins')
      BY <1>2, <2>1 DEF VerifyTotals
    <3>8. coins'.best \in Blocks /\ Good(coins'.rec)
      BY <3>5, <3>6 DEF HistoryInv
    <3>9. disk'.best \in Blocks /\ disk'.to \in Blocks /\ Good(disk'.rec)
      BY <3>7, <3>8, WrittenGood
    <3>10. QED  BY <1>2, <3>8, <3>9 DEF VerifyTotals, HistoryInv, Good, CleanHistory
  <2>2. CASE ~ IsThawDayActive(Height[coins.best] + 1)
    BY <1>2, <2>2 DEF VerifyTotals, HistoryInv, Good, CleanHistory
  <2>3. QED  BY <2>1, <2>2
<1>3. CASE StartRecovery
  <2>1. coins.best \in Branch[coins.best]
    BY BranchFacts DEF HistoryInv
  <2>2. QED  BY <1>3, <2>1 DEF StartRecovery, HistoryInv, Good, CleanHistory
<1>4. CASE Rewind
  <2>1. coins'.best = Parent[coins.best] /\ coins'.rec = NoRecord
    BY <1>4 DEF Rewind, RewindBlock
  <2>2. Parent[coins.best] \in Blocks
    BY TreeAssumption, SMT DEF HistoryInv
  <2>3. coins.best # Genesis
    BY <1>4, SMTT(30) DEF Rewind, AtAnchor
  <2>4. Parent[coins.best] \in Branch[goal]
    BY <1>4, <2>3, BranchFacts DEF HistoryInv, Rewind
  <2>5. QED
    BY <1>4, <2>1, <2>2, <2>4, NoRecordGood, SMTT(30) DEF Rewind, HistoryInv, Good, CleanHistory
<1>5. QED  BY <1>1, <1>2, <1>3, <1>4

LEMMA ReplaySteps ==
  ASSUME HistoryInv,
         PersistAnchor \/ RebuildAnchor \/ Replay \/ ReplayFailed \/ ReplayDone
  PROVE  HistoryInv'
<1>1. CASE PersistAnchor
  <2>1. coins'.best = coins.best /\ coins'.rec = NoRecord
    BY <1>1, SMT DEF PersistAnchor
  <2>2. disk'.best \in Blocks /\ disk'.to \in Blocks /\ Good(disk'.rec)
    BY <1>1, <2>1, WrittenGood, NoRecordGood DEF PersistAnchor, HistoryInv
  <2>3. QED
    BY <1>1, <2>1, <2>2, NoRecordGood DEF PersistAnchor, HistoryInv, Good, CleanHistory
<1>2. CASE RebuildAnchor
  <2>1. coins'.best = coins.best /\ coins'.rec = Rebuilt(coins)
    BY <1>2, SMT DEF RebuildAnchor
  <2>2. Good(Rebuilt(coins))
    BY RebuiltGood DEF HistoryInv
  <2>3. QED  BY <1>2, <2>1, <2>2 DEF RebuildAnchor, HistoryInv, Good, CleanHistory
<1>3. CASE Replay
  <2>1. /\ NextReplayed \in Blocks /\ NextReplayed # Genesis
        /\ Parent[NextReplayed] = coins.best /\ NextReplayed \in Branch[goal]
    BY <1>3, NextIsChild DEF Replay
  <2>2. coins'.best = NextReplayed /\ Good(coins'.rec)
    BY <1>3, <2>1, ConnectGood DEF Replay, HistoryInv
  <2>3. QED  BY <1>3, <2>1, <2>2 DEF Replay, HistoryInv, Good, CleanHistory
<1>4. CASE ReplayFailed
  BY <1>4, GoneInv, WrittenGood, SMTT(30) DEF ReplayFailed, HistoryInv
<1>5. CASE ReplayDone
  BY <1>5, WrittenGood DEF ReplayDone, memory, HistoryInv, Good, CleanHistory
<1>6. QED  BY <1>1, <1>2, <1>3, <1>4, <1>5

-----------------------------------------------------------------------------
LEMMA InitHistory == Init => HistoryInv
<1> SUFFICES ASSUME Init PROVE HistoryInv
  OBVIOUS
<1> DEFINE r == Record(Genesis, TotalsOf({}), Active(Genesis))
<1>1. coins.best = Genesis /\ coins.rec \in {r, NoRecord}
  BY DEF Init
<1>2. CleanHistory(Genesis) /\ Genesis \in Blocks
  BY TreeAssumption DEF CleanHistory
<1>3. r.best = Genesis
  BY DEF Record
<1>4. Good(coins.rec)
  BY <1>1, <1>2, <1>3, SMTT(30) DEF Good
<1>5. disk.best \in Blocks /\ disk.to \in Blocks /\ Good(disk.rec)
  BY <1>1, <1>2, <1>4, WrittenGood DEF Init
<1>6. QED  BY <1>1, <1>2, <1>4, <1>5 DEF Init, HistoryInv

LEMMA HistoryInvImplies == HistoryInv => CheckedHistoryIsClean
<1> SUFFICES ASSUME HistoryInv,
                    NEW view \in {coins} \cup (IF disk.torn THEN {} ELSE {disk}),
                    Matches(Stored(view), view.best) /\ Stored(view).checked
             PROVE  CleanHistory(view.best)
  BY DEF CheckedHistoryIsClean
<1>1. Good(view.rec)
  BY DEF HistoryInv
<1>2. QED  BY <1>1, CheckedClean

\* A record with history_checked that the node or its database can show belongs
\* to a chain whose Thaw Day blocks all obey the rules: only ConnectBlock's
\* validation sets the flag, and no crash, interrupted write, cancelled recovery
\* or other release makes a record vouch for blocks it was not made from.
THEOREM OnlyValidationChecks == Spec => []CheckedHistoryIsClean
<1>1. HistoryInv /\ [Next]_vars => HistoryInv'
  <2> SUFFICES ASSUME HistoryInv, [Next]_vars PROVE HistoryInv'
    OBVIOUS
  <2>1. CASE Next
    BY <2>1, RunningSteps, StopSteps, StartSteps, ReplaySteps, SMTT(30) DEF Next, StartupStep
  <2>2. CASE UNCHANGED vars
    BY <2>2 DEF vars, memory, HistoryInv, Good, CleanHistory
  <2>3. QED  BY <2>1, <2>2
<1>2. QED  BY InitHistory, <1>1, HistoryInvImplies, PTL DEF Spec

-----------------------------------------------------------------------------
(* Views: a set of coins with its best block and record.                   *)

\* The coins are those of the best block.
Exact(view) == view.best \in Blocks /\ view.open = OpenAt(view.best)

\* A record of this node's rules has the totals of its block's coins.
Honest(r) ==
    r # NoRecord /\ r.act = ThawHeight
        => r.best \in Blocks /\ r.totals = TotalsOf(OpenAt(r.best))

\* Above Thaw Day the view has a verified record of its best block.
Ready(view) == Active(view.best) => Matches(view.rec, view.best) /\ view.rec.checked

\* A record that Record makes.
LEMMA RecordIs ==
  ASSUME NEW b \in Blocks, NEW t \in TotalSet, NEW c \in BOOLEAN
  PROVE  /\ Record(b, t, c) # NoRecord
         /\ Record(b, t, c).best = b /\ Record(b, t, c).act = ThawHeight
         /\ Record(b, t, c).totals = t /\ Record(b, t, c).checked = c
         /\ Matches(Record(b, t, c), b)
<1>1. ThawHeight \in Nat
  BY TreeAssumption
<1>2. Record(b, t, c) \in [best : Blocks, act : Nat, checked : BOOLEAN,
                           totals : [principal : Int, collateral : Int, vaults : Int]]
  BY <1>1 DEF Record, TotalSet
<1>3. Record(b, t, c) # NoRecord
  BY <1>2, RecordAssumption
<1>4. QED  BY <1>3 DEF Record, Matches

LEMMA TotalsAt ==
  ASSUME NEW b \in Blocks
  PROVE  OpenAt(b) \in SUBSET Vaults /\ TotalsOf(OpenAt(b)) \in TotalSet
<1>1. OpenAt(b) \in SUBSET Vaults
  BY DEF OpenAt
<1>2. QED  BY <1>1, TotalsType

\* The totals of a block's coins pass IsValid.
LEMMA TotalsValid ==
  ASSUME NEW b \in Blocks, NEW r, r.totals = TotalsOf(OpenAt(b))
  PROVE  IsValid(r)
<1> DEFINE S == OpenAt(b)
<1>1. /\ S \in SUBSET Vaults /\ IsFiniteSet(S) /\ Cardinality(S) \in Nat
      /\ Total(Principal, S) \in Nat /\ Total(Collateral, S) \in Nat
  BY TotalsAt, TotalsType
<1>2. Total(Collateral, S) <= MaxMoney /\ MaxMoney \in Nat
  BY MoneyAssumption, AmountsAssumption
<1>3. /\ r.totals.principal = Total(Principal, S) /\ r.totals.collateral = Total(Collateral, S)
      /\ r.totals.vaults = Cardinality(S)
  BY SMT DEF TotalsOf
<1> HIDE DEF S
<1>4. Principal \in [Vaults -> Nat] /\ Collateral \in [Vaults -> Nat] /\ IsFiniteSet(Vaults)
  BY AmountsAssumption
<1>5. CASE S = {}
  <2>1. Total(Principal, S) = 0 /\ Total(Collateral, S) = 0
    <3>1. SumOver(Principal, {}) = 0 /\ SumOver(Collateral, {}) = 0
      BY <1>1, <1>4, SumFacts
    <3>2. QED  BY <1>5, <3>1 DEF Total, SumOver
  <2>2. Cardinality(S) = 0
    BY <1>5, FS_EmptySet
  <2>3. QED  BY <1>2, <1>3, <2>1, <2>2, SMT DEF IsValid
<1>6. CASE S # {}
  <2>1. PICK v \in S : v \in Vaults
    BY <1>1, <1>6
  <2>2. SumOver(Principal, S) >= Principal[v] /\ SumOver(Collateral, S) >= Collateral[v]
    BY <1>1, <1>4, <2>1, SumFacts
  <2>3. Principal[v] \in Nat \ {0} /\ Collateral[v] \in Nat \ {0}
    BY <2>1, AmountsAssumption
  <2>4. Total(Principal, S) >= Principal[v] /\ Total(Collateral, S) >= Collateral[v]
    BY <2>2 DEF Total, SumOver
  <2>5. Cardinality(S) # 0
    BY <1>1, <1>6, FS_EmptySet
  <2>6. QED  BY <1>1, <1>2, <1>3, <2>3, <2>4, <2>5, SMTT(30) DEF IsValid
<1>7. QED  BY <1>5, <1>6

\* GetDigiDollarState shows no other record, and shows an honest one that
\* matches its view.
LEMMA StoredIs ==
  ASSUME NEW view, view.best \in Blocks, Honest(view.rec)
  PROVE  /\ Honest(Stored(view))
         /\ Matches(Stored(view), view.best) =>
               Stored(view) = view.rec /\ view.rec.totals = TotalsOf(OpenAt(view.best))
         /\ Matches(view.rec, view.best) => Stored(view) = view.rec
<1>1. Stored(view) \in {view.rec, NoRecord}
  BY DEF Stored
<1>2. Honest(NoRecord)
  BY DEF Honest
<1>3. Matches(view.rec, view.best) => view.rec.totals = TotalsOf(OpenAt(view.best))
  BY DEF Matches, Honest
<1>4. Matches(view.rec, view.best) => IsValid(view.rec)
  BY <1>3, TotalsValid
<1>5. Matches(view.rec, view.best) => Stored(view) = view.rec
  BY <1>4 DEF Stored, Matches
<1>6. ~ Matches(NoRecord, view.best)
  BY DEF Matches
<1>7. QED  BY <1>1, <1>2, <1>3, <1>5, <1>6, SMTT(30)

LEMMA RebuiltIs ==
  ASSUME NEW view, Exact(view)
  PROVE  /\ Honest(Rebuilt(view)) /\ Rebuilt(view) # NoRecord /\ Matches(Rebuilt(view), view.best)
         /\ Rebuilt(view).totals = TotalsOf(OpenAt(view.best))
         /\ Rebuilt(view).checked = (Height[view.best] = 0 /\ Active(view.best))
<1>1. view.best \in Blocks /\ TotalsOf(view.open) \in TotalSet /\ view.open = OpenAt(view.best)
  BY TotalsAt DEF Exact
<1> DEFINE c == Height[view.best] = 0 /\ Active(view.best)
           t == TotalsOf(view.open)
<1>2. Rebuilt(view) = Record(view.best, t, c) /\ c \in BOOLEAN
  BY DEF Rebuilt
<1> HIDE DEF c, t
<1>3. t \in TotalSet /\ t = TotalsOf(OpenAt(view.best))
  BY <1>1 DEF t
<1>4. /\ Rebuilt(view) # NoRecord /\ Matches(Rebuilt(view), view.best)
      /\ Rebuilt(view).best = view.best /\ Rebuilt(view).totals = t
  BY <1>1, <1>2, <1>3, RecordIs, SMTT(30)
<1>5. Rebuilt(view).checked = c
  BY <1>2, SMT DEF Record
<1>6. Honest(Rebuilt(view))
  BY <1>1, <1>3, <1>4 DEF Honest
<1>7. QED  BY <1>3, <1>4, <1>5, <1>6, SMTT(30) DEF c

LEMMA PreparedIs ==
  ASSUME NEW view, Exact(view), Honest(view.rec), NEW ok \in BOOLEAN
  PROVE  /\ Honest(PrepareDigiDollarParent(view, ok))
         /\ PrepareDigiDollarParent(view, ok) # NoRecord =>
               PrepareDigiDollarParent(view, ok).totals = TotalsOf(OpenAt(view.best))
<1> DEFINE P == PrepareDigiDollarParent(view, ok)
<1>1. \/ P = Stored(view) /\ Matches(Stored(view), view.best)
      \/ P = NoRecord
      \/ P = Rebuilt(view)
  BY DEF PrepareDigiDollarParent
<1>2. Honest(NoRecord) /\ view.best \in Blocks
  BY DEF Honest, Exact
<1> HIDE DEF P
<1>3. Honest(P) /\ (P # NoRecord => P.totals = TotalsOf(OpenAt(view.best)))
  BY <1>1, <1>2, StoredIs, RebuiltIs, SMTT(30)
<1>4. QED  BY <1>3 DEF P

\* ConnectBlock.
LEMMA ConnectIs ==
  ASSUME NEW view, Exact(view), Honest(view.rec), NEW ok \in BOOLEAN,
         NEW b \in Blocks, b # Genesis, Parent[b] = view.best, CanConnectBlock(view, b, ok)
  PROVE  LET next == ConnectBlock(view, b, ok)
         IN  Exact(next) /\ Honest(next.rec) /\ Ready(next) /\ next.best = b
<1> DEFINE open == Apply(view.open, b)
           bare == [best |-> b, open |-> open, rec |-> NoRecord]
           tot == UpdateChainstateHealth(Base(view, ok).totals, b)
           next == ConnectBlock(view, b, ok)
<1>1. open = OpenAt(b)
  BY CoinsMove, SMTT(30) DEF Exact
<1>2. Exact(bare) /\ Honest(bare.rec) /\ bare.best = b
  BY <1>1 DEF Exact, Honest
<1>3. CASE Active(b)
  <2>1. Base(view, ok).totals = TotalsOf(OpenAt(Parent[b])) /\ tot # Refused
    BY <1>3, PreparedIs, SMTT(30) DEF CanConnectBlock, Base
  <2>2. tot = TotalsOf(OpenAt(b))
    BY <2>1, UpdateIs
  <2>3. next = [best |-> b, open |-> open, rec |-> Record(b, tot, TRUE)]
    BY <1>3 DEF ConnectBlock
  <2>4. TotalsOf(OpenAt(b)) \in TotalSet
    BY TotalsAt
  <2> HIDE DEF open, next, tot
  <2>5. next.best = b /\ next.open = open /\ next.rec = Record(b, tot, TRUE)
    BY <2>3
  <2>6. /\ Matches(next.rec, b) /\ next.rec.checked = TRUE
        /\ next.rec.best = b /\ next.rec.totals = tot
    <3>1. PICK c \in BOOLEAN : c = TRUE
      OBVIOUS
    <3>2. next.rec = Record(b, tot, c)
      BY <2>5, <3>1, SMTT(30)
    <3>3. Matches(next.rec, b) /\ next.rec.best = b /\ next.rec.totals = tot
      BY <2>2, <2>4, <3>2, RecordIs, SMTT(30)
    <3>4. next.rec.checked = TRUE
      BY <2>5, SMTT(30) DEF Record
    <3>5. QED  BY <3>3, <3>4
  <2>7. QED  BY <1>1, <2>2, <2>5, <2>6 DEF Exact, Honest, Ready, next
<1>4. CASE ~ Active(b) /\ IsThawDayActive(Height[b] + 1)
  <2>1. next = [bare EXCEPT !.rec = PrepareDigiDollarParent(bare, ok)]
    BY <1>4 DEF ConnectBlock
  <2>2. next.best = b /\ next.open = open /\ next.rec = PrepareDigiDollarParent(bare, ok)
    BY <2>1
  <2> HIDE DEF bare, next, open
  <2>3. Honest(next.rec)
    BY <1>2, <2>2, PreparedIs, SMTT(30)
  <2>4. QED  BY <1>1, <1>4, <2>2, <2>3 DEF Exact, Ready, next
<1>5. CASE ~ Active(b) /\ ~ IsThawDayActive(Height[b] + 1)
  <2>1. next = bare
    BY <1>5, SMTT(30) DEF ConnectBlock
  <2> HIDE DEF bare
  <2>2. QED  BY <1>2, <1>5, <2>1 DEF Ready
<1>6. QED  BY <1>3, <1>4, <1>5, SMTT(30)

\* DisconnectBlock, outside recovery and in it.
LEMMA DisconnectIs ==
  ASSUME NEW view, Exact(view), Honest(view.rec), view.best # Genesis, CanDisconnectBlock(view)
  PROVE  LET next == DisconnectBlock(view)
         IN  Exact(next) /\ Honest(next.rec) /\ Ready(next) /\ next.best = Parent[view.best]
<1> DEFINE b == view.best
           p == Parent[b]
           open == Unapply(view.open, b)
           tot == UndoChainstateHealth(view.rec.totals, b)
           next == DisconnectBlock(view)
<1>1. b \in Blocks /\ p \in Blocks /\ view.open = OpenAt(b)
  BY TreeAssumption DEF Exact
<1>2. open = OpenAt(p)
  BY <1>1, CoinsMove, SMTT(30)
<1>3. next.best = p /\ next.open = open
      /\ next.rec = IF Active(b) THEN Record(p, tot, Active(p)) ELSE NoRecord
  BY SMTT(30) DEF DisconnectBlock
<1> HIDE DEF next, open
<1>4. CASE Active(b)
  <2>1. Matches(Stored(view), b) /\ UndoChainstateHealth(Stored(view).totals, b) # Refused
    BY <1>4, SMTT(30) DEF CanDisconnectBlock
  <2>2. view.rec.totals = TotalsOf(OpenAt(b)) /\ tot # Refused
    BY <1>1, <2>1, StoredIs, SMTT(30)
  <2>3. tot = TotalsOf(OpenAt(p)) /\ tot \in TotalSet
    BY <1>1, <2>2, UndoIs, TotalsAt, SMTT(30)
  <2> HIDE DEF tot
  <2>4. Active(p) \in BOOLEAN
    BY SMTT(30) DEF Active, IsThawDayActive
  <2>5. /\ Matches(next.rec, p) /\ next.rec.checked = Active(p)
        /\ next.rec.best = p /\ next.rec.totals = tot
    BY <1>1, <1>3, <1>4, <2>3, <2>4, RecordIs, SMTT(30)
  <2>6. QED  BY <1>1, <1>2, <1>3, <2>3, <2>5 DEF Exact, Honest, Ready, next
<1>5. CASE ~ Active(b)
  <2>1. ~ Active(p)
    <3>1. Height[b] = Height[p] + 1 /\ Height[p] \in Nat /\ ThawHeight \in Nat
      BY <1>1, TreeAssumption, SMTT(30)
    <3>2. QED  BY <1>5, <3>1, SMTT(30) DEF Active, IsThawDayActive
  <2>2. QED  BY <1>1, <1>2, <1>3, <1>5, <2>1, SMTT(30) DEF Exact, Honest, Ready, next
<1>6. QED  BY <1>4, <1>5

LEMMA RewindIs ==
  ASSUME NEW view, Exact(view), view.best # Genesis
  PROVE  Exact(RewindBlock(view)) /\ RewindBlock(view).rec = NoRecord
<1>1. view.best \in Blocks /\ Parent[view.best] \in Blocks /\ view.open = OpenAt(view.best)
  BY TreeAssumption DEF Exact
<1>2. Unapply(view.open, view.best) = OpenAt(Parent[view.best])
  BY <1>1, CoinsMove, SMTT(30)
<1>3. QED  BY <1>1, <1>2 DEF RewindBlock, Exact

-----------------------------------------------------------------------------
(* The invariant.                                                          *)

\* A database in the middle of a write from block best to block to: the coins
\* that no block in between touches are right.
DiskGood(d) ==
    IF d.torn THEN /\ d.open \in SUBSET Vaults
                   /\ \A v \in Settled(d.best, d.to) : v \in d.open <=> v \in OpenAt(d.to)
              ELSE Exact(d)

HealthInv ==
    /\ HistoryInv
    /\ Honest(coins.rec) /\ Honest(disk.rec)
    /\ pc # "off" => Exact(coins) /\ ~ disk.torn
    /\ DiskGood(disk)
    /\ pc \in {"running", "replay"} => Ready(coins)

LEMMA WrittenIs ==
  ASSUME NEW view, Exact(view), Honest(view.rec)
  PROVE  DiskGood(Written(view)) /\ ~ Written(view).torn /\ Honest(Written(view).rec)
<1>1. view.best \in Blocks /\ Honest(Stored(view))
  BY StoredIs, SMTT(30) DEF Exact
<1>2. QED  BY <1>1, SMTT(30) DEF Written, DiskGood, Exact

\* ReplayBlocks restores the coins of the block the write was moving to.
LEMMA ReplayBlocksIs ==
  ASSUME HistoryInv, DiskGood(disk), disk.torn
  PROVE  /\ ReplayBlocks.open = OpenAt(disk.to)
         /\ ReplayBlocks.best = disk.to
         /\ Exact(ReplayBlocks) /\ ~ ReplayBlocks.torn /\ ReplayBlocks.rec = NoRecord
<1>1. disk.best \in Blocks /\ disk.to \in Blocks
  BY DEF HistoryInv
<1>2. /\ disk.open \in SUBSET Vaults
      /\ \A v \in Settled(disk.best, disk.to) : v \in disk.open <=> v \in OpenAt(disk.to)
  BY DEF DiskGood
<1>3. OldBranch = OldOf(disk.best, disk.to) /\ NewBranch = NewOf(disk.best, disk.to)
  BY DEF OldBranch, NewBranch, OldOf, NewOf, Fork
<1>4. FoldLeft(Apply, FoldLeft(Unapply, disk.open, OldBranch), NewBranch) = OpenAt(disk.to)
  BY <1>1, <1>2, <1>3, ReplayIs, SMTT(30)
<1>5. /\ ReplayBlocks.open = FoldLeft(Apply, FoldLeft(Unapply, disk.open, OldBranch), NewBranch)
      /\ ReplayBlocks.best = disk.to /\ ~ ReplayBlocks.torn /\ ReplayBlocks.rec = NoRecord
  BY DEF ReplayBlocks, Written, Stored
<1>6. QED  BY <1>1, <1>4, <1>5 DEF Exact

\* A write that is cut short leaves the untouched coins right.
LEMMA TornIs ==
  ASSUME NEW a \in Blocks, NEW z \in Blocks, NEW from \in SUBSET Vaults,
         \A v \in Settled(a, z) : v \in from <=> v \in OpenAt(z),
         NEW open \in Mix(from, OpenAt(z))
  PROVE  /\ open \in SUBSET Vaults
         /\ \A v \in Settled(a, z) : v \in open <=> v \in OpenAt(z)
<1>1. OpenAt(z) \in SUBSET Vaults
  BY SMTT(30) DEF OpenAt
<1>2. QED  BY <1>1, SMTT(30) DEF Mix

LEMMA HealthFrame ==
  ASSUME HistoryInv', Honest(coins'.rec), Honest(disk'.rec),
         pc' # "off" => Exact(coins') /\ ~ disk'.torn,
         DiskGood(disk'),
         pc' \in {"running", "replay"} => Ready(coins')
  PROVE  HealthInv'
  BY DEF HealthInv, Honest, Exact, DiskGood, Ready, Matches, Active, IsThawDayActive

LEMMA HealthRunning ==
  ASSUME HealthInv, HistoryInv',
         \/ \E b \in Blocks, ok \in BOOLEAN : ConnectTip(b, ok)
         \/ \E b \in Blocks : CheckBlock(b)
         \/ DisconnectTip
         \/ FlushStateToDisk
         \/ ReconstructFromChain
  PROVE  HealthInv'
<1>1. ASSUME NEW b \in Blocks, NEW ok \in BOOLEAN, ConnectTip(b, ok)
      PROVE  HealthInv'
  <2>1. Exact(coins) /\ Honest(coins.rec) /\ ~ disk.torn /\ Honest(disk.rec) /\ DiskGood(disk)
    BY <1>1, SMTT(30) DEF HealthInv, ConnectTip, Running
  <2>2. coins' = ConnectBlock(coins, b, ok) /\ disk' = disk /\ pc' = pc
        /\ b # Genesis /\ Parent[b] = coins.best /\ CanConnectBlock(coins, b, ok)
    BY <1>1, SMTT(30) DEF ConnectTip
  <2>3. Exact(coins') /\ Honest(coins'.rec) /\ Ready(coins')
    BY <2>1, <2>2, ConnectIs, SMTT(30)
  <2>4. QED  BY <2>1, <2>2, <2>3, HealthFrame
<1>2. ASSUME NEW b \in Blocks, CheckBlock(b)
      PROVE  HealthInv'
  BY <1>2, HealthFrame, SMTT(30) DEF CheckBlock, HealthInv
<1>3. CASE DisconnectTip
  <2>1. Exact(coins) /\ Honest(coins.rec) /\ ~ disk.torn /\ Honest(disk.rec) /\ DiskGood(disk)
    BY <1>3 DEF HealthInv, DisconnectTip, Running
  <2>2. coins' = DisconnectBlock(coins) /\ disk' = disk /\ pc' = pc
        /\ coins.best # Genesis /\ CanDisconnectBlock(coins)
    BY <1>3, SMTT(30) DEF DisconnectTip
  <2>3. Exact(coins') /\ Honest(coins'.rec) /\ Ready(coins')
    BY <2>1, <2>2, DisconnectIs, SMTT(30)
  <2>4. QED  BY <2>1, <2>2, <2>3, HealthFrame, SMTT(30)
<1>4. CASE FlushStateToDisk
  <2>1. Exact(coins) /\ Honest(coins.rec)
    BY <1>4 DEF HealthInv, FlushStateToDisk
  <2>2. disk' = Written(coins) /\ coins' = coins /\ pc' = pc
    BY <1>4 DEF FlushStateToDisk, memory
  <2>3. DiskGood(disk') /\ ~ disk'.torn /\ Honest(disk'.rec)
    BY <2>1, <2>2, WrittenIs, SMTT(30)
  <2>4. pc \in {"running", "replay"} => Ready(coins)
    BY DEF HealthInv
  <2>5. QED  BY <2>1, <2>2, <2>3, <2>4, HealthFrame, SMTT(30)
<1>5. CASE ReconstructFromChain
  <2>1. Exact(coins) /\ Honest(coins.rec) /\ ~ disk.torn /\ Honest(disk.rec) /\ DiskGood(disk)
        /\ Ready(coins)
    BY <1>5 DEF HealthInv, ReconstructFromChain
  <2>2. disk' \in {Written(coins), disk} /\ coins' = coins /\ pc' = pc
    BY <1>5, SMTT(30) DEF ReconstructFromChain
  <2>3. DiskGood(disk') /\ ~ disk'.torn /\ Honest(disk'.rec)
    BY <2>1, <2>2, WrittenIs, SMTT(30)
  <2>4. QED  BY <2>1, <2>2, <2>3, HealthFrame, SMTT(30)
<1>6. QED  BY <1>1, <1>2, <1>3, <1>4, <1>5, SMTT(30)

\* A process that ends.
LEMMA HealthGone ==
  ASSUME HistoryInv', Gone, DiskGood(disk'), Honest(disk'.rec)
  PROVE  HealthInv'
<1>1. coins'.rec = NoRecord /\ pc' = "off"
  BY DEF Gone
<1>2. Honest(NoRecord)
  BY DEF Honest
<1>3. QED  BY <1>1, <1>2, HealthFrame, SMTT(30)

LEMMA HealthStop ==
  ASSUME HealthInv, HistoryInv', Stop
  PROVE  HealthInv'
<1>0. /\ DiskGood(disk) /\ Honest(disk.rec) /\ HistoryInv
      /\ disk.best \in Blocks /\ disk.to \in Blocks
  BY DEF HealthInv, HistoryInv
<1>1. CASE Crash
  BY <1>0, <1>1, HealthGone, SMTT(30) DEF Crash
<1>2. CASE CrashInWrite
  <2>1. PICK open \in Mix(disk.open, coins.open) : disk' = Torn(coins.best, open)
    BY <1>2, SMTT(30) DEF CrashInWrite
  <2>2. Exact(coins) /\ ~ disk.torn /\ Exact(disk)
    BY <1>0, <1>2, SMTT(30) DEF CrashInWrite, HealthInv, DiskGood
  <2>3. /\ coins.best \in Blocks /\ coins.open = OpenAt(coins.best)
        /\ disk.open = OpenAt(disk.best) /\ OpenAt(disk.best) \in SUBSET Vaults
    BY <1>0, <2>2, TotalsAt, SMTT(30) DEF Exact
  <2>4. \A v \in Settled(disk.best, coins.best) : v \in disk.open <=> v \in OpenAt(coins.best)
    BY <1>0, <2>3, ReplayIs, SMTT(30)
  <2>5. /\ open \in SUBSET Vaults
        /\ \A v \in Settled(disk.best, coins.best) : v \in open <=> v \in OpenAt(coins.best)
    BY <1>0, <2>3, <2>4, TornIs, SMTT(30)
  <2>6. /\ disk'.torn = TRUE /\ disk'.open = open /\ disk'.best = disk.best
        /\ disk'.to = coins.best /\ disk'.rec = disk.rec
    BY <2>1, SMTT(30) DEF Torn
  <2>7. DiskGood(disk') /\ Honest(disk'.rec)
    BY <1>0, <2>5, <2>6, SMTT(30) DEF DiskGood
  <2>8. QED  BY <1>2, <2>7, HealthGone, SMTT(30) DEF CrashInWrite
<1>3. CASE CrashInReplay
  <2>1. PICK open \in Mix(disk.open, ReplayBlocks.open) : disk' = Torn(disk.to, open)
    BY <1>3 DEF CrashInReplay
  <2>2. disk.torn /\ pc = "off" /\ coins' = coins /\ pc' = pc
    BY <1>3, SMTT(30) DEF CrashInReplay, memory
  <2>3. ReplayBlocks.open = OpenAt(disk.to)
    BY <1>0, <2>2, ReplayBlocksIs, SMTT(30)
  <2>4. /\ disk.open \in SUBSET Vaults
        /\ \A v \in Settled(disk.best, disk.to) : v \in disk.open <=> v \in OpenAt(disk.to)
    BY <1>0, <2>2, SMTT(30) DEF DiskGood
  <2>5. /\ open \in SUBSET Vaults
        /\ \A v \in Settled(disk.best, disk.to) : v \in open <=> v \in OpenAt(disk.to)
    BY <1>0, <2>1, <2>3, <2>4, TornIs, SMTT(30)
  <2>6. /\ disk'.torn = TRUE /\ disk'.open = open /\ disk'.best = disk.best
        /\ disk'.to = disk.to /\ disk'.rec = disk.rec
    BY <2>1, SMTT(30) DEF Torn
  <2>7. DiskGood(disk') /\ Honest(disk'.rec)
    BY <1>0, <2>5, <2>6, SMTT(30) DEF DiskGood
  <2>8. Honest(coins'.rec)
    BY <2>2, SMTT(30) DEF HealthInv
  <2>9. QED  BY <2>2, <2>7, <2>8, HealthFrame, SMTT(30)
<1>4. CASE RunOtherRelease
  <2>1. PICK b \in Blocks \ {Genesis} :
          \E new \in {[best |-> b, open |-> Apply(disk.open, b)],
                      [best |-> Parent[b], open |-> Unapply(disk.open, b)]} :
            /\ disk.best = IF new.best = b THEN Parent[b] ELSE b
            /\ \E rec \in {disk.rec} \cup
                  {[best |-> new.best, act |-> h, totals |-> TotalsOf(new.open),
                    checked |-> TRUE] : h \in OtherHeights} :
                 disk' = [disk EXCEPT !.best = new.best, !.to = new.best,
                                      !.open = new.open, !.rec = rec]
    BY <1>4 DEF RunOtherRelease
  <2>2. PICK new \in {[best |-> b, open |-> Apply(disk.open, b)],
                      [best |-> Parent[b], open |-> Unapply(disk.open, b)]} :
            /\ disk.best = IF new.best = b THEN Parent[b] ELSE b
            /\ \E rec \in {disk.rec} \cup
                  {[best |-> new.best, act |-> h, totals |-> TotalsOf(new.open),
                    checked |-> TRUE] : h \in OtherHeights} :
                 disk' = [disk EXCEPT !.best = new.best, !.to = new.best,
                                      !.open = new.open, !.rec = rec]
    BY <2>1
  <2>3. PICK rec \in {disk.rec} \cup
                  {[best |-> new.best, act |-> h, totals |-> TotalsOf(new.open),
                    checked |-> TRUE] : h \in OtherHeights} :
                 disk' = [disk EXCEPT !.best = new.best, !.to = new.best,
                                      !.open = new.open, !.rec = rec]
    BY <2>2
  <2>4. ~ disk.torn /\ pc = "off" /\ coins' = coins /\ pc' = pc /\ disk.open = OpenAt(disk.best)
    BY <1>0, <1>4, SMTT(30) DEF RunOtherRelease, memory, DiskGood, Exact
  <2>5. b \in Blocks /\ b # Genesis /\ Parent[b] \in Blocks /\ b # Parent[b]
    <3>1. Height[b] = Height[Parent[b]] + 1 /\ Height[Parent[b]] \in Nat
      BY TreeAssumption, SMT
    <3>2. QED  BY <3>1, TreeAssumption, SMTT(30)
  <2>6. new.best \in Blocks /\ new.open = OpenAt(new.best)
    <3>1. CASE new = [best |-> b, open |-> Apply(disk.open, b)]
      BY <2>2, <2>4, <2>5, <3>1, CoinsMove, SMTT(30)
    <3>2. CASE new = [best |-> Parent[b], open |-> Unapply(disk.open, b)]
      BY <2>2, <2>4, <2>5, <3>2, CoinsMove, SMTT(30)
    <3>3. QED  BY <3>1, <3>2
  <2>7. Honest(rec)
    <3>1. CASE rec = disk.rec
      BY <1>0, <3>1, SMTT(30)
    <3>2. CASE rec # disk.rec
      BY <3>2, TreeAssumption, SMT DEF Honest
    <3>3. QED  BY <3>1, <3>2, SMTT(30)
  <2>8. /\ disk'.best = new.best /\ disk'.open = new.open /\ disk'.rec = rec
        /\ disk'.torn = disk.torn
    BY <2>3, SMTT(30)
  <2>9. DiskGood(disk') /\ Honest(disk'.rec)
    BY <2>4, <2>6, <2>7, <2>8 DEF DiskGood, Exact
  <2>10. Honest(coins'.rec)
    BY <2>4 DEF HealthInv
  <2>11. QED  BY <2>4, <2>9, <2>10, HealthFrame
<1>5. CASE CancelRecovery
  <2>1. Exact(coins) /\ Honest(coins.rec)
    BY <1>5 DEF CancelRecovery, HealthInv
  <2>2. disk' = Written(coins)
    BY <1>5 DEF CancelRecovery
  <2>3. QED  BY <1>5, <2>1, <2>2, WrittenIs, HealthGone, SMTT(30) DEF CancelRecovery
<1>6. QED  BY <1>1, <1>2, <1>3, <1>4, <1>5, SMTT(30) DEF Stop

LEMMA HealthStart ==
  ASSUME HealthInv, HistoryInv', Start \/ VerifyTotals \/ StartRecovery \/ Rewind
  PROVE  HealthInv'
<1>0. DiskGood(disk) /\ Honest(disk.rec) /\ HistoryInv /\ Honest(coins.rec)
  BY DEF HealthInv
<1>1. CASE Start
  <2>1. Honest(NoRecord)
    BY DEF Honest
  <2>2. Exact(disk') /\ ~ disk'.torn /\ Honest(disk'.rec)
    <3>1. CASE disk.torn
      <4>1. disk' = ReplayBlocks
        BY <1>1, <3>1, SMTT(30) DEF Start
      <4>2. QED  BY <1>0, <2>1, <3>1, <4>1, ReplayBlocksIs, SMTT(30)
    <3>2. CASE ~ disk.torn
      BY <1>0, <1>1, <3>2 DEF Start, DiskGood
    <3>3. QED  BY <3>1, <3>2, SMTT(30)
  <2>3. coins'.best = disk'.best /\ coins'.open = disk'.open /\ coins'.rec = disk'.rec /\ pc' = "init"
    BY <1>1, SMTT(30) DEF Start
  <2>4. DiskGood(disk')
    BY <2>2 DEF DiskGood
  <2>5. Exact(coins')
    BY <2>2, <2>3, SMTT(30) DEF Exact
  <2>6. QED  BY <2>2, <2>3, <2>4, <2>5, HealthFrame, SMTT(30)
<1>2. CASE VerifyTotals
  <2>0. /\ Exact(coins) /\ ~ disk.torn /\ pc' = "running"
        /\ Verified \/ ~ Active(coins.best) \/ Height[coins.best] = 0
    BY <1>2, SMTT(30) DEF VerifyTotals, HealthInv
  <2>1. CASE IsThawDayActive(Height[coins.best] + 1)
    <3> DEFINE R == Rebuilt(coins)
               rec == [R EXCEPT !.checked = Verified \/ @]
    <3>1. coins' = [coins EXCEPT !.rec = rec] /\ disk' = Written(coins')
      BY <1>2, <2>1, SMTT(30) DEF VerifyTotals
    <3>2. /\ R # NoRecord /\ Matches(R, coins.best) /\ R.totals = TotalsOf(OpenAt(coins.best))
          /\ R.checked = (Height[coins.best] = 0 /\ Active(coins.best))
      BY <2>0, RebuiltIs
    <3>3. rec = Record(coins.best, TotalsOf(coins.open), Verified \/ R.checked)
      BY SMTT(30) DEF Rebuilt, Record
    <3> DEFINE c == Verified \/ R.checked
    <3>4. c \in BOOLEAN /\ coins.best \in Blocks
          /\ coins.open = OpenAt(coins.best) /\ TotalsOf(coins.open) \in TotalSet
      BY <2>0, TotalsAt DEF Exact
    <3>5. Active(coins.best) => c
      BY <2>0, <3>2
    <3>6. rec = Record(coins.best, TotalsOf(coins.open), c)
      BY <3>3, SMTT(30)
    <3> HIDE DEF c, rec
    <3>7. Matches(rec, coins.best) /\ rec.best = coins.best /\ rec.totals = TotalsOf(coins.open)
      BY <3>4, <3>6, RecordIs, SMTT(30)
    <3>8. Active(coins.best) => rec.checked
      BY <3>5, <3>6 DEF Record
    <3>9. coins'.best = coins.best /\ coins'.open = coins.open /\ coins'.rec = rec
      BY <3>1, SMTT(30)
    <3>10. Exact(coins') /\ Honest(coins'.rec) /\ Ready(coins')
      BY <3>4, <3>7, <3>8, <3>9, SMTT(30) DEF Exact, Honest, Ready
    <3>11. DiskGood(disk') /\ ~ disk'.torn /\ Honest(disk'.rec)
      BY <3>1, <3>10, WrittenIs
    <3>12. QED  BY <3>10, <3>11, HealthFrame
  <2>2. CASE ~ IsThawDayActive(Height[coins.best] + 1)
    <3>1. coins' = coins /\ disk' = disk
      BY <1>2, <2>2, SMTT(30) DEF VerifyTotals
    <3>2. Ready(coins)
      <4>1. Height[coins.best] \in Nat /\ ThawHeight \in Nat
        BY <2>0, TreeAssumption, SMTT(30) DEF Exact
      <4>2. QED  BY <2>2, <4>1, SMTT(30) DEF Ready, Active, IsThawDayActive
    <3>3. QED  BY <1>0, <2>0, <3>1, <3>2, HealthFrame, SMTT(30)
  <2>3. QED  BY <2>1, <2>2
<1>3. CASE StartRecovery
  BY <1>0, <1>3, HealthFrame, SMTT(30) DEF StartRecovery, HealthInv
<1>4. CASE Rewind
  <2>1. Exact(coins) /\ ~ disk.torn /\ coins.best # Genesis
    BY <1>4 DEF Rewind, AtAnchor, HealthInv
  <2>2. coins' = RewindBlock(coins) /\ disk' = disk /\ pc' = "rewind"
    BY <1>4 DEF Rewind
  <2>3. Exact(coins') /\ coins'.rec = NoRecord
    BY <2>1, <2>2, RewindIs, SMTT(30)
  <2>4. Honest(NoRecord)
    BY SMT DEF Honest
  <2>5. QED  BY <1>0, <2>1, <2>2, <2>3, <2>4, HealthFrame, SMTT(30)
<1>5. QED  BY <1>1, <1>2, <1>3, <1>4, SMTT(30)

\* Where a recovery rebuilds the record: below Thaw Day or at the genesis block.
AnchorInv == pc = "anchor" => ~ Active(coins.best) \/ Height[coins.best] = 0

LEMMA HealthReplay ==
  ASSUME HealthInv, HistoryInv', AnchorInv,
         PersistAnchor \/ RebuildAnchor \/ Replay \/ ReplayFailed \/ ReplayDone
  PROVE  HealthInv'
<1>0. /\ DiskGood(disk) /\ Honest(disk.rec) /\ HistoryInv /\ Honest(coins.rec)
      /\ Exact(coins) /\ ~ disk.torn
  BY DEF HealthInv, PersistAnchor, RebuildAnchor, Replay, ReplayFailed, ReplayDone
<1>1. CASE PersistAnchor
  <2>1. coins' = [coins EXCEPT !.rec = NoRecord] /\ disk' = Written(coins') /\ pc' = "anchor"
    BY <1>1 DEF PersistAnchor
  <2>2. coins'.best = coins.best /\ coins'.open = coins.open /\ coins'.rec = NoRecord
    BY <2>1, SMTT(30)
  <2>3. Exact(coins') /\ Honest(coins'.rec)
    BY <1>0, <2>2 DEF Exact, Honest
  <2>4. DiskGood(disk') /\ ~ disk'.torn /\ Honest(disk'.rec)
    BY <2>1, <2>3, WrittenIs
  <2>5. QED  BY <2>1, <2>3, <2>4, HealthFrame
<1>2. CASE RebuildAnchor
  <2>1. coins' = [coins EXCEPT !.rec = Rebuilt(coins)] /\ disk' = disk /\ pc' = "replay"
        /\ (~ Active(coins.best) \/ Height[coins.best] = 0)
    BY <1>2 DEF RebuildAnchor, AnchorInv
  <2>2. coins'.best = coins.best /\ coins'.open = coins.open /\ coins'.rec = Rebuilt(coins)
    BY <2>1, SMTT(30)
  <2>3. /\ Honest(Rebuilt(coins)) /\ Matches(Rebuilt(coins), coins.best)
        /\ Rebuilt(coins).checked = (Height[coins.best] = 0 /\ Active(coins.best))
    BY <1>0, RebuiltIs
  <2>4. Exact(coins') /\ Honest(coins'.rec) /\ Ready(coins')
    BY <1>0, <2>1, <2>2, <2>3 DEF Exact, Ready
  <2>5. QED  BY <1>0, <2>1, <2>4, HealthFrame, SMTT(30)
<1>3. CASE Replay
  <2>1. /\ NextReplayed \in Blocks /\ NextReplayed # Genesis
        /\ Parent[NextReplayed] = coins.best
    BY <1>0, <1>3, NextIsChild DEF Replay
  <2>2. /\ CanConnectBlock(coins, NextReplayed, TRUE) /\ disk' = disk /\ pc' = pc
        /\ coins' = ConnectBlock(coins, NextReplayed, TRUE)
    BY <1>3 DEF Replay
  <2>3. PICK ok \in BOOLEAN : ok = TRUE
    OBVIOUS
  <2>4. CanConnectBlock(coins, NextReplayed, ok) /\ coins' = ConnectBlock(coins, NextReplayed, ok)
    BY <2>2, <2>3
  <2>5. Exact(coins') /\ Honest(coins'.rec) /\ Ready(coins')
    BY <1>0, <2>1, <2>4, ConnectIs, SMTT(30)
  <2>6. QED  BY <1>0, <2>2, <2>5, HealthFrame
<1>4. CASE ReplayFailed
  <2>1. disk' = Written(coins)
    BY <1>4, SMTT(30) DEF ReplayFailed
  <2>2. QED  BY <1>0, <1>4, <2>1, WrittenIs, HealthGone, SMTT(30) DEF ReplayFailed
<1>5. CASE ReplayDone
  <2>1. disk' = Written(coins) /\ coins' = coins /\ pc' = "running" /\ Ready(coins)
    BY <1>5, SMTT(30) DEF ReplayDone, memory, HealthInv
  <2>2. DiskGood(disk') /\ ~ disk'.torn /\ Honest(disk'.rec)
    BY <1>0, <2>1, WrittenIs
  <2>3. QED  BY <1>0, <2>1, <2>2, HealthFrame, SMTT(30)
<1>6. QED  BY <1>1, <1>2, <1>3, <1>4, <1>5, SMTT(30)

LEMMA AnchorStep ==
  ASSUME HistoryInv, AnchorInv, [Next]_vars
  PROVE  AnchorInv'
<1>1. CASE PersistAnchor
  <2>1. coins'.best = coins.best /\ (coins.best = Genesis \/ ~ Active(coins.best))
    BY <1>1, SMTT(30) DEF PersistAnchor, AtAnchor
  <2>2. Height[Genesis] = 0
    BY TreeAssumption
  <2>3. QED  BY <2>1, <2>2 DEF AnchorInv, Active, IsThawDayActive
<1>2. CASE ~ PersistAnchor
  <2>1. pc' = "anchor" => pc = "anchor" /\ coins' = coins
    BY <1>2 DEF Next, StartupStep, Stop, ConnectTip, CheckBlock, DisconnectTip,
         FlushStateToDisk, Start, VerifyTotals, StartRecovery, Rewind, RebuildAnchor, Replay,
         ReplayFailed, ReplayDone, ReconstructFromChain, Crash, CrashInWrite, CrashInReplay,
         RunOtherRelease, CancelRecovery, Gone, Running, vars, memory
  <2>2. QED  BY <2>1 DEF AnchorInv, Active, IsThawDayActive
<1>3. QED  BY <1>1, <1>2, SMTT(30)

LEMMA InitHealth == Init => HealthInv /\ AnchorInv
<1> SUFFICES ASSUME Init PROVE HealthInv /\ AnchorInv
  OBVIOUS
<1> DEFINE c == Active(Genesis)
           r == Record(Genesis, TotalsOf({}), c)
<1>1. HistoryInv
  BY InitHistory, SMTT(30)
<1>2. OpenAt(Genesis) = {} /\ Genesis \in Blocks /\ TotalsOf({}) \in TotalSet
  BY OpenAtGenesis, TreeAssumption, TotalsType, SMTT(30)
<1>3. c \in BOOLEAN
  BY SMT DEF Active, IsThawDayActive
<1>4. /\ coins.best = Genesis /\ coins.open = {} /\ disk = Written(coins) /\ pc = "running"
      /\ coins.rec = IF IsThawDayActive(1) THEN r ELSE NoRecord
  BY DEF Init
<1>5. c => IsThawDayActive(1)
  BY TreeAssumption, SMT DEF Active, IsThawDayActive
<1>6. r.checked = c
  BY DEF Record
<1> HIDE DEF c
<1>7. Matches(r, Genesis) /\ r.best = Genesis /\ r.totals = TotalsOf({})
  BY <1>2, <1>3, RecordIs, SMTT(30)
<1> HIDE DEF r
<1>8. Exact(coins) /\ Honest(coins.rec)
  BY <1>2, <1>4, <1>7, SMTT(30) DEF Exact, Honest
<1>9. Ready(coins)
  BY <1>4, <1>5, <1>6, <1>7 DEF Ready, c
<1>10. DiskGood(disk) /\ ~ disk.torn /\ Honest(disk.rec)
  BY <1>4, <1>8, WrittenIs, SMTT(30)
<1>11. QED  BY <1>1, <1>4, <1>8, <1>9, <1>10, SMTT(30) DEF HealthInv, AnchorInv

LEMMA HealthStep ==
  ASSUME HealthInv, AnchorInv, [Next]_vars
  PROVE  HealthInv' /\ AnchorInv'
<1>1. HistoryInv
  BY DEF HealthInv
<1>2. HistoryInv'
  <2>1. CASE Next
    BY <1>1, <2>1, RunningSteps, StopSteps, StartSteps, ReplaySteps, SMTT(30) DEF Next, StartupStep
  <2>2. CASE UNCHANGED vars
    BY <1>1, <2>2 DEF vars, memory, HistoryInv, Good, CleanHistory
  <2>3. QED  BY <2>1, <2>2
<1>3. HealthInv'
  <2>1. CASE Next
    BY <1>2, <2>1, HealthRunning, HealthStop, HealthStart, HealthReplay, SMTT(30) DEF Next, StartupStep
  <2>2. CASE UNCHANGED vars
    <3>1. coins' = coins /\ disk' = disk /\ pc' = pc
      BY <2>2 DEF vars, memory
    <3>2. QED  BY <1>2, <3>1, HealthFrame DEF HealthInv
  <2>3. QED  BY <2>1, <2>2, SMTT(30)
<1>4. AnchorInv'
  BY <1>1, AnchorStep
<1>5. QED  BY <1>3, <1>4, SMTT(30)

LEMMA HealthAlways == Spec => [](HealthInv /\ AnchorInv)
<1>1. HealthInv /\ AnchorInv /\ [Next]_vars => (HealthInv /\ AnchorInv)'
  BY HealthStep
<1>2. QED  BY InitHealth, <1>1, PTL DEF Spec

\* The coins in memory, and those of a database whose last write was completed,
\* are the ones of their best block: whatever writes and replays were cut short,
\* ReplayBlocks puts every coin right that BatchWrite left half written.
THEOREM CoinsAreThoseOfTheBlock == Spec => []CoinsMatchBlock
<1>1. HealthInv => CoinsMatchBlock
  BY SMTT(30) DEF HealthInv, DiskGood, Exact, CoinsMatchBlock
<1>2. QED  BY HealthAlways, <1>1, PTL

\* A record made for this node's rules that its view shows has the totals of the
\* vaults open at its block: counting blocks in and out (UpdateChainstateHealth)
\* gives what a scan of the coins would (ReconstructChainstateHealth).
THEOREM RecordsMatchCoins == Spec => []RecordMatchesCoins
<1>1. HealthInv => RecordMatchesCoins
  <2> SUFFICES ASSUME HealthInv,
                      NEW view \in {coins} \cup (IF disk.torn THEN {} ELSE {disk}),
                      Matches(Stored(view), view.best)
               PROVE  Stored(view).totals = TotalsOf(OpenAt(view.best))
    BY SMTT(30) DEF RecordMatchesCoins
  <2>1. view.best \in Blocks /\ Honest(view.rec)
    BY SMTT(30) DEF HealthInv, HistoryInv
  <2>2. QED  BY <2>1, StoredIs, SMTT(30)
<1>2. QED  BY HealthAlways, <1>1, PTL

\* A running node above Thaw Day has a verified record of its tip, also after
\* recoveries and reorganisations: neither ConnectBlock nor DisconnectBlock stops
\* with "DigiDollar state not ready".
THEOREM RunningNodesAreReady == Spec => []RunningIsReady
<1>1. HealthInv => RunningIsReady
  <2> SUFFICES ASSUME HealthInv, pc = "running", Active(coins.best)
               PROVE  Verified
    BY SMTT(30) DEF RunningIsReady
  <2>1. coins.best \in Blocks /\ Honest(coins.rec)
        /\ Matches(coins.rec, coins.best) /\ coins.rec.checked
    BY SMTT(30) DEF HealthInv, HistoryInv, Ready
  <2>2. QED  BY <2>1, StoredIs DEF Verified
<1>2. QED  BY HealthAlways, <1>1, PTL

-----------------------------------------------------------------------------
(* The legacy totals.  They are exact when each redemption burns the       *)
(* principal, no sum is clamped and no block arrives before the startup    *)
(* scan.                                                                   *)

\* The totals count LegacyBase of the tip from the startup scan on, except while
\* restore says that there was none; then the tip is above Thaw Day.
LegacyInv ==
    /\ pc \in {"off", "init"} => ~ seeded /\ ~ restore
    /\ pc \in {"rewind", "anchor", "replay"} => ~ seeded /\ restore /\ Active(goal)
    /\ pc = "running" => (restore => Active(coins.best))
    /\ pc = "running" /\ ~ seeded => (Active(coins.best) => restore)
    /\ pc = "running" /\ seeded /\ ~ restore =>
          legacy = LegacyScan(OpenAt(LegacyBase(coins.best)))

LEMMA LegacyFrame ==
  ASSUME pc' = "running" => /\ restore' => Active(coins'.best)
                            /\ ~ seeded' => (Active(coins'.best) => restore')
                            /\ seeded' /\ ~ restore' =>
                                 legacy' = LegacyScan(OpenAt(LegacyBase(coins'.best))),
         pc' \in {"off", "init"} => ~ seeded' /\ ~ restore',
         pc' \in {"rewind", "anchor", "replay"} => ~ seeded' /\ restore' /\ Active(goal')
  PROVE  LegacyInv'
  BY DEF LegacyInv, LegacyBase, Active, IsThawDayActive

\* What the theorem below assumes of the constants.
LegacySetting == Burn = Principal /\ ~ ImportDuringInit /\ NoClamp

LEMMA LegacyRunning ==
  ASSUME HealthInv, HealthInv', LegacyInv, LegacySetting, ThawHeight > 0,
         \/ \E b \in Blocks, ok \in BOOLEAN : ConnectTip(b, ok)
         \/ \E b \in Blocks : CheckBlock(b)
         \/ DisconnectTip
         \/ ReconstructFromChain
  PROVE  LegacyInv'
<1>0. Burn = Principal /\ NoClamp /\ ThawHeight > 0 /\ ~ ImportDuringInit
  BY SMTT(30) DEF LegacySetting
<1>1. ASSUME NEW b \in Blocks, NEW ok \in BOOLEAN, ConnectTip(b, ok)
      PROVE  LegacyInv'
  <2>1. /\ pc = "running" /\ seeded /\ pc' = pc /\ seeded' = seeded /\ restore' = restore
        /\ b \in Blocks \ {Genesis} /\ Parent[b] = coins.best
        /\ legacy' = IF Active(b) THEN legacy ELSE LegacyConnect(legacy, b)
    BY <1>0, <1>1, SMTT(30) DEF ConnectTip, Running
  <2>2. coins'.best = b
    BY <1>1, ConnectIs DEF ConnectTip, HealthInv, Running
  <2>3. restore => Active(b)
    BY <1>0, <2>1, LegacyBaseStep, SMTT(30) DEF LegacyInv
  <2>4. ~ restore => legacy' = LegacyScan(OpenAt(LegacyBase(b)))
    <3>1. CASE Active(b)
      BY <1>0, <2>1, <3>1, LegacyBaseStep, SMTT(30) DEF LegacyInv
    <3>2. CASE ~ Active(b)
      BY <1>0, <2>1, <3>2, LegacyBaseStep, LegacyConnectIs, SMTT(30) DEF LegacyInv
    <3>3. QED  BY <3>1, <3>2, SMTT(30)
  <2>5. QED  BY <2>1, <2>2, <2>3, <2>4, LegacyFrame, SMTT(30)
<1>2. ASSUME NEW b \in Blocks, CheckBlock(b)
      PROVE  LegacyInv'
  <2>1. /\ pc = "running" /\ seeded /\ pc' = pc /\ seeded' = seeded /\ restore' = restore
        /\ b \in Blocks \ {Genesis} /\ Parent[b] = coins.best /\ coins' = coins /\ ~ Active(b)
        /\ legacy' = LegacyDisconnect(LegacyConnect(legacy, b), b)
    BY <1>0, <1>2 DEF CheckBlock, Running
  <2>2. ~ Active(coins.best) /\ LegacyBase(coins.best) = coins.best
    BY <1>0, <2>1, LegacyBaseStep, SMTT(30)
  <2>3. ~ restore /\ legacy = LegacyScan(OpenAt(Parent[b]))
    BY <2>1, <2>2, SMTT(30) DEF LegacyInv
  <2>4. legacy' = LegacyScan(OpenAt(Parent[b]))
    BY <1>0, <2>1, <2>3, LegacyConnectIs, LegacyDisconnectIs, SMTT(30)
  <2>5. QED  BY <2>1, <2>2, <2>3, <2>4, LegacyFrame, SMTT(30)
<1>3. CASE DisconnectTip
  <2> DEFINE b == coins.best
             p == Parent[b]
  <2>1. /\ pc = "running" /\ seeded /\ pc' = pc /\ seeded' = seeded
        /\ restore' = (restore /\ ~ Rescan) /\ b # Genesis
        /\ legacy' = IF Rescan THEN LegacyScan(coins'.open)
                     ELSE IF Active(b) THEN legacy ELSE LegacyDisconnect(legacy, b)
    BY <1>0, <1>3, SMTT(30) DEF DisconnectTip, Running
  <2>2. b \in Blocks \ {Genesis}
    BY <2>1 DEF HealthInv, HistoryInv
  <2>3. coins'.best = p
    BY <1>3, DisconnectIs DEF DisconnectTip, HealthInv, Running
  <2>4. coins'.open = OpenAt(p)
    <3>1. Exact(coins)'
      BY <2>1, SMTT(30) DEF HealthInv
    <3>2. coins'.open = OpenAt(coins'.best)
      BY <3>1, SMTT(30) DEF Exact, OpenAt
    <3>3. QED  BY <2>3, <3>2, SMTT(30)
  <2>5. Rescan <=> restore /\ ~ Active(p)
    BY DEF Rescan
  <2>6. restore' => Active(p)
    BY <2>1, <2>5
  <2>7. ~ restore' => legacy' = LegacyScan(OpenAt(LegacyBase(p)))
    <3>1. CASE Rescan
      <4>1. LegacyBase(p) = p
        BY <2>5, <3>1, SMTT(30) DEF LegacyBase
      <4>2. QED  BY <2>1, <2>4, <3>1, <4>1, SMTT(30)
    <3>2. CASE ~ Rescan /\ ~ restore
      <4>1. legacy = LegacyScan(OpenAt(LegacyBase(b)))
        BY <2>1, <3>2, SMTT(30) DEF LegacyInv
      <4>2. CASE Active(b)
        BY <1>0, <2>1, <2>2, <3>2, <4>1, <4>2, LegacyBaseStep, SMTT(30)
      <4>3. CASE ~ Active(b)
        BY <1>0, <2>1, <2>2, <3>2, <4>1, <4>3, LegacyBaseStep, LegacyDisconnectIs
      <4>4. QED  BY <4>2, <4>3, SMTT(30)
    <3>3. QED  BY <2>1, <3>1, <3>2
  <2>8. QED  BY <2>1, <2>3, <2>6, <2>7, LegacyFrame, SMTT(30)
<1>4. CASE ReconstructFromChain
  <2>1. /\ pc = "running" /\ ~ seeded /\ pc' = pc /\ seeded' /\ restore' = restore
        /\ coins' = coins
        /\ ~ Active(coins.best) => legacy' = LegacyScan(coins.open)
    BY <1>4, SMTT(30) DEF ReconstructFromChain
  <2>2. restore <=> Active(coins.best)
    BY <2>1, SMTT(30) DEF LegacyInv
  <2>3. coins.open = OpenAt(coins.best)
    BY <2>1 DEF HealthInv, Exact
  <2>4. ~ Active(coins.best) => LegacyBase(coins.best) = coins.best
    BY DEF LegacyBase
  <2>5. ~ restore => legacy' = LegacyScan(OpenAt(LegacyBase(coins.best)))
    BY <2>1, <2>2, <2>3, <2>4, SMTT(30)
  <2>6. QED  BY <2>1, <2>2, <2>5, LegacyFrame, SMTT(30)
<1>5. QED  BY <1>1, <1>2, <1>3, <1>4, SMTT(30)

\* All other steps leave the totals of a running node alone.
LEMMA LegacyOther ==
  ASSUME HealthInv, LegacyInv, FlushStateToDisk \/ Stop \/ (StartupStep /\ ~ ReconstructFromChain)
  PROVE  LegacyInv'
<1>1. CASE Gone
  BY <1>1, LegacyFrame, SMTT(30) DEF Gone
<1>2. CASE UNCHANGED <<memory, pc>>
  BY <1>2, LegacyFrame, SMTT(30) DEF memory, LegacyInv
<1>3. CASE Start
  BY <1>3, LegacyFrame DEF Start, LegacyInv
<1>4. CASE VerifyTotals
  <2>1. pc = "init" /\ pc' = "running" /\ seeded' = seeded
    BY <1>4, SMT DEF VerifyTotals
  <2>2. ~ seeded /\ ~ restore
    BY <2>1, SMTT(30) DEF LegacyInv
  <2>3. CASE IsThawDayActive(Height[coins.best] + 1)
    <3>1. restore' = Active(coins.best)
      BY <1>4, <2>3 DEF VerifyTotals
    <3>2. coins' = [coins EXCEPT !.rec = [Rebuilt(coins) EXCEPT !.checked = Verified \/ @]]
      BY <1>4, <2>3 DEF VerifyTotals
    <3>3. coins'.best = coins.best
      BY <3>2, SMTT(30)
    <3>4. QED  BY <2>1, <2>2, <3>1, <3>3, LegacyFrame, SMTT(30)
  <2>4. CASE ~ IsThawDayActive(Height[coins.best] + 1)
    <3>1. restore' = restore /\ coins' = coins
      BY <1>4, <2>4, SMTT(30) DEF VerifyTotals
    <3>3. ~ Active(coins.best)
      <4>1. Height[coins.best] \in Nat /\ ThawHeight \in Nat
        BY TreeAssumption, SMTT(30) DEF HealthInv, HistoryInv
      <4>2. QED  BY <2>4, <4>1, SMTT(30) DEF Active, IsThawDayActive
    <3>4. QED  BY <2>1, <2>2, <3>1, <3>3, LegacyFrame, SMTT(30)
  <2>5. QED  BY <2>3, <2>4
<1>5. CASE StartRecovery
  BY <1>5, LegacyFrame DEF StartRecovery, LegacyInv
<1>6. CASE Rewind \/ PersistAnchor \/ RebuildAnchor \/ Replay
  <2>1. /\ pc \in {"rewind", "anchor", "replay"} /\ pc' \in {"rewind", "anchor", "replay"}
        /\ seeded' = seeded /\ restore' = restore /\ goal' = goal
    BY <1>6 DEF Rewind, PersistAnchor, RebuildAnchor, Replay
  <2>2. ~ seeded /\ restore /\ Active(goal)
    BY <2>1, SMTT(30) DEF LegacyInv
  <2>3. QED  BY <2>1, <2>2, LegacyFrame
<1>7. CASE ReplayDone
  BY <1>7, LegacyFrame DEF ReplayDone, memory, LegacyInv
<1>8. QED
  BY <1>1, <1>2, <1>3, <1>4, <1>5, <1>6, <1>7
  DEF StartupStep, Stop, FlushStateToDisk, ReplayFailed, Crash, CrashInWrite, CrashInReplay,
      RunOtherRelease, CancelRecovery

\* Below Thaw Day the process-global totals that validation reads are those of
\* the vaults open at the tip, through rejected blocks, reorganisations across
\* Thaw Day, crashes and restarts (OnMintConnected and its opposites,
\* ScanUTXOSet): when each redemption burns the principal, no sum reaches the
\* clamp and no block arrives before the startup scan.
THEOREM LegacyTotalsAreExact == LegacySetting => (Spec => []LegacyTotalsExact)
<1> SUFFICES ASSUME LegacySetting PROVE Spec => []LegacyTotalsExact
  OBVIOUS
<1>1. CASE ThawHeight > 0
  <2>1. Init => LegacyInv
    <3> SUFFICES ASSUME Init PROVE LegacyInv
      OBVIOUS
    <3>1. /\ coins.best = Genesis /\ pc = "running" /\ restore = FALSE /\ seeded = TRUE
          /\ legacy = NoLegacy
      BY DEF Init
    <3>2. ~ Active(Genesis)
      BY <1>1, TreeAssumption, SMT DEF Active, IsThawDayActive
    <3>3. LegacyScan({}) = NoLegacy
      <4>1. Principal \in [Vaults -> Nat] /\ Collateral \in [Vaults -> Nat] /\ IsFiniteSet(Vaults)
            /\ {} \in SUBSET Vaults
        BY AmountsAssumption
      <4>2. SumOver(Principal, {}) = 0 /\ SumOver(Collateral, {}) = 0
        BY <4>1, SumFacts
      <4>3. QED  BY <4>2 DEF LegacyScan, NoLegacy, Total, SumOver
    <3>4. LegacyBase(Genesis) = Genesis
      BY <3>2 DEF LegacyBase
    <3>5. QED  BY <3>1, <3>2, <3>3, <3>4, OpenAtGenesis, SMTT(30) DEF LegacyInv
  <2>2. HealthInv /\ HealthInv' /\ LegacyInv /\ [Next]_vars => LegacyInv'
    <3> SUFFICES ASSUME HealthInv, HealthInv', LegacyInv, [Next]_vars PROVE LegacyInv'
      OBVIOUS
    <3>1. CASE Next
      BY <1>1, <3>1, LegacyRunning, LegacyOther, SMTT(30) DEF Next, StartupStep
    <3>2. CASE UNCHANGED vars
      BY <3>2, LegacyFrame DEF vars, memory, LegacyInv
    <3>3. QED  BY <3>1, <3>2
  <2>3. LegacyInv => LegacyTotalsExact
    BY DEF LegacyInv, LegacyTotalsExact, LegacyBase
  <2>4. QED  BY HealthAlways, <2>1, <2>2, <2>3, PTL DEF Spec
<1>2. CASE ~ (ThawHeight > 0)
  <2>1. HealthInv => LegacyTotalsExact
    <3> SUFFICES ASSUME HealthInv, pc = "running" PROVE Active(coins.best)
      BY SMTT(30) DEF LegacyTotalsExact
    <3>1. Height[coins.best] \in Nat /\ ThawHeight \in Nat
      BY TreeAssumption DEF HealthInv, HistoryInv
    <3>2. QED  BY <1>2, <3>1, SMT DEF Active, IsThawDayActive
  <2>2. QED  BY HealthAlways, <2>1, PTL
<1>3. QED  BY <1>1, <1>2
=============================================================================
