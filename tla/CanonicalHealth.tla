--------------------------- MODULE CanonicalHealth ---------------------------
(***************************************************************************)
(* The DigiDollar accounting record of the chainstate (ChainstateHealth in *)
(* consensus/digidollar_state.h): how validation.cpp keeps it equal to the *)
(* coins, how the coin database stores it across crashes, and how          *)
(* InitializeDigiDollarState re-verifies a chain whose record is missing.  *)
(*                                                                         *)
(* From ThawHeight on ("Thaw Day") the rules a block is checked against    *)
(* read the record; below it they read the process-global totals of        *)
(* SystemHealthMonitor (legacy).  cs_main makes each of the actions below  *)
(* atomic, except writing the coin database, which a crash can cut short.  *)
(*                                                                         *)
(* Abstractions.  The coins are the set of open vaults.  A block is its    *)
(* sequence of vault transactions; the coin rules that make it spend only  *)
(* open vaults are an assumption on the block tree, and Follows says       *)
(* whether it passes the Thaw Day rules (price, collateral, burn).         *)
(***************************************************************************)
EXTENDS SequenceFolds

CONSTANTS
    Blocks, Genesis, Parent, Height,    \* the block index
    Branch,         \* Branch[b]: b and its ancestors
    Txs,            \* Txs[b]: its mints and redemptions, in block order
    Follows,        \* Follows[b]: b passes the Thaw Day rules
    ThawHeight,     \* nDDThawDayHeight
    OtherHeights,   \* Thaw Day heights that other releases were built with
    Vaults, Principal, Collateral,
    Burn,           \* Burn[v]: DigiDollars burned to redeem v
    MaxAmount,      \* numeric_limits<CAmount>::max()
    MaxMoney,       \* MAX_MONEY
    NoRecord,
    ImportDuringInit,   \* blocks may arrive before the startup scan is done
    MaxStops        \* bound on crashes, cancellations and other releases

ASSUME TreeAssumption ==
    /\ Genesis \in Blocks
    /\ Parent \in [Blocks -> Blocks]
    /\ Height \in [Blocks -> Nat]
    /\ Height[Genesis] = 0
    /\ Branch \in [Blocks -> SUBSET Blocks]
    /\ Branch[Genesis] = {Genesis}
    /\ \A b \in Blocks \ {Genesis} :
           /\ Height[b] = Height[Parent[b]] + 1
           /\ Branch[b] = Branch[Parent[b]] \cup {b}
           /\ \A a \in Branch[b] : Height[a] <= Height[b]
    /\ \A b \in Blocks : \A a \in Branch[b] :
           /\ Branch[a] \subseteq Branch[b]
           /\ a # b => \E c \in Branch[b] : Height[c] = Height[a] + 1
           /\ \A c \in Branch[b] : Height[c] = Height[a] + 1 => Parent[c] = a
    /\ Follows \in [Blocks -> BOOLEAN]
    /\ ThawHeight \in Nat
    /\ ThawHeight \notin OtherHeights
    /\ MaxStops \in Nat

\* What the coin rules ensure: on a branch a vault is minted once and redeemed
\* once, after its mint.
ASSUME CoinsAssumption ==
    /\ Txs \in [Blocks -> Seq([kind : {"mint", "redeem"}, vault : Vaults])]
    /\ Txs[Genesis] = <<>>
    /\ \A b \in Blocks : \A a \in Branch[b] :
           \A i \in DOMAIN Txs[a], j \in DOMAIN Txs[b] :
               Txs[a][i] = Txs[b][j] => a = b /\ i = j
    /\ \A b \in Blocks : \A j \in DOMAIN Txs[b] : Txs[b][j].kind = "redeem" =>
           \E a \in Branch[b] : \E i \in DOMAIN Txs[a] :
               /\ Txs[a][i] = [kind |-> "mint", vault |-> Txs[b][j].vault]
               /\ a = b => i < j

\* A vault holds an amount of each kind.
ASSUME AmountsAssumption ==
    /\ IsFiniteSet(Vaults)
    /\ Principal \in [Vaults -> Nat \ {0}]
    /\ Collateral \in [Vaults -> Nat \ {0}]
    /\ MaxAmount \in Nat /\ MaxMoney \in Nat

\* std::nullopt is not a record.
ASSUME RecordAssumption ==
    NoRecord \notin [best : Blocks, act : Nat, checked : BOOLEAN,
                     totals : [principal : Int, collateral : Int, vaults : Int]]

VARIABLES
    coins,      \* CoinsTip(): best block (which is m_chain.Tip()), open vaults,
                \* record
    disk,       \* CoinsDB(); torn while DB_HEAD_BLOCKS = <<to, best>> exists
    pc,         \* where the process is
    goal,       \* original_tip of a recovery
    legacy,     \* SystemHealthMonitor's totals
    restore,    \* m_dd_legacy_restore_needed
    seeded,     \* the startup scan of the legacy totals is done
    stops

memory == <<coins, goal, legacy, restore, seeded>>
vars == <<memory, disk, pc, stops>>

IsThawDayActive(h) == h >= ThawHeight
Active(b) == IsThawDayActive(Height[b])

\* GetAncestor: the block of b's branch at height h.
Ancestor(b, h) == CHOOSE a \in Branch[b] : Height[a] = h

-----------------------------------------------------------------------------
(* Coins and totals.                                                       *)

\* UpdateCoins, and RollforwardBlock, which ignores what is already applied.
Apply(open, b) ==
    FoldLeft(LAMBDA s, t : IF t.kind = "mint" THEN s \cup {t.vault} ELSE s \ {t.vault},
             open, Txs[b])

\* The undo loop of DisconnectBlockInternal, last transaction first.
Unapply(open, b) ==
    FoldLeft(LAMBDA s, t : IF t.kind = "mint" THEN s \ {t.vault} ELSE s \cup {t.vault},
             open, Reverse(Txs[b]))

Total(f, S) == MapThenSumSet(LAMBDA v : f[v], S)

\* ReconstructChainstateHealth's scan of the coins.
TotalsOf(open) ==
    [principal |-> Total(Principal, open), collateral |-> Total(Collateral, open),
     vaults |-> Cardinality(open)]

\* A refused AddVault or RemoveVault, which makes validation stop in error.
Refused == [principal |-> -1, collateral |-> -1, vaults |-> -1]

AddVault(t, v) ==
    IF \/ t = Refused
       \/ Principal[v] > MaxAmount - t.principal
       \/ Collateral[v] > MaxMoney - t.collateral
    THEN Refused
    ELSE [principal |-> t.principal + Principal[v],
          collateral |-> t.collateral + Collateral[v], vaults |-> t.vaults + 1]

RemoveVault(t, v) ==
    IF \/ t = Refused
       \/ t.vaults = 0
       \/ Principal[v] > t.principal \/ Collateral[v] > t.collateral
       \/ (t.vaults = 1) # (Principal[v] = t.principal)
       \/ (t.vaults = 1) # (Collateral[v] = t.collateral)
    THEN Refused
    ELSE [principal |-> t.principal - Principal[v],
          collateral |-> t.collateral - Collateral[v], vaults |-> t.vaults - 1]

\* UpdateChainstateHealth over the transactions of a block, and its undo.
UpdateChainstateHealth(t, b) ==
    FoldLeft(LAMBDA s, x : IF x.kind = "mint" THEN AddVault(s, x.vault)
                                              ELSE RemoveVault(s, x.vault), t, Txs[b])

\* Mutant: undoing a block does not put redeemed vaults back.
UndoChainstateHealth_MintsOnly(t, b) ==
    FoldLeft(LAMBDA s, x : IF x.kind = "mint" THEN RemoveVault(s, x.vault) ELSE s,
             t, Reverse(Txs[b]))

UndoChainstateHealth(t, b) ==
    FoldLeft(LAMBDA s, x : IF x.kind = "mint" THEN RemoveVault(s, x.vault)
                                              ELSE AddVault(s, x.vault), t, Reverse(Txs[b]))

\* OnMintConnected / OnRedeemDisconnected and their opposites: clamped sums.
Up(l, dd, c) == [dd |-> Min({l.dd + dd, MaxAmount}), coll |-> Min({l.coll + c, MaxAmount})]
Down(l, dd, c) == [dd |-> Max({0, l.dd - dd}), coll |-> Max({0, l.coll - c})]

LegacyConnect(l, b) ==
    FoldLeft(LAMBDA s, x : IF x.kind = "mint" THEN Up(s, Principal[x.vault], Collateral[x.vault])
                           ELSE Down(s, Burn[x.vault], Collateral[x.vault]), l, Txs[b])

LegacyDisconnect(l, b) ==
    FoldLeft(LAMBDA s, x : IF x.kind = "mint" THEN Down(s, Principal[x.vault], Collateral[x.vault])
                           ELSE Up(s, Burn[x.vault], Collateral[x.vault]), l, Reverse(Txs[b]))

NoLegacy == [dd |-> 0, coll |-> 0]

\* ScanUTXOSet.
LegacyScan(open) == [dd |-> Total(Principal, open), coll |-> Total(Collateral, open)]

-----------------------------------------------------------------------------
(* The record.                                                             *)

Record(b, t, checked) == [best |-> b, act |-> ThawHeight, totals |-> t, checked |-> checked]

IsValid(r) ==
    /\ r.totals.principal >= 0 /\ r.totals.collateral \in 0..MaxMoney
    /\ IF r.totals.vaults = 0 THEN r.totals.principal = 0 /\ r.totals.collateral = 0
                              ELSE r.totals.principal > 0 /\ r.totals.collateral > 0

\* CCoinsViewCache::GetDigiDollarState.
Stored(view) ==
    IF view.rec # NoRecord /\ IsValid(view.rec) /\ view.rec.best = view.best
    THEN view.rec ELSE NoRecord

\* Mutant: a record counts whatever Thaw Day height it was made for.
Matches_AnyHeight(r, b) == r # NoRecord /\ r.best = b

Matches(r, b) == r # NoRecord /\ r.best = b /\ r.act = ThawHeight

\* ReconstructChainstateHealth as its callers use it: the scanned totals; the
\* history counts as checked only when there is none before the block.
Rebuilt(view) ==
    Record(view.best, TotalsOf(view.open),
           Height[view.best] = 0 /\ Active(view.best))

\* The record PrepareDigiDollarParent leaves in the view, NoRecord when it
\* refuses; ok: the coin scan was neither interrupted nor short of a block.
PrepareDigiDollarParent(view, ok) ==
    LET saved == Stored(view)
    IN  IF Matches(saved, view.best) /\ (Active(view.best) => saved.checked) THEN saved
        ELSE IF Active(view.best) /\ Height[view.best] > 0 THEN NoRecord
        ELSE IF ok THEN Rebuilt(view) ELSE NoRecord

-----------------------------------------------------------------------------
(* Connecting and disconnecting a block in a coins view.                   *)

\* The record a canonical block is checked and counted on.
Base(view, ok) == PrepareDigiDollarParent(view, ok)

\* ConnectBlock accepts b on the view.
CanConnectBlock(view, b, ok) ==
    Active(b) => /\ Base(view, ok) # NoRecord
                 /\ Follows[b]
                 /\ UpdateChainstateHealth(Base(view, ok).totals, b) # Refused

\* The view ConnectBlock leaves: finish_health sets the new record.
ConnectBlock(view, b, ok) ==
    LET next == [best |-> b, open |-> Apply(view.open, b), rec |-> NoRecord]
    IN  IF Active(b)
        THEN [next EXCEPT !.rec =
                 Record(b, UpdateChainstateHealth(Base(view, ok).totals, b), TRUE)]
        ELSE IF IsThawDayActive(Height[b] + 1)
        THEN [next EXCEPT !.rec = PrepareDigiDollarParent(next, ok)]
        ELSE next

\* DisconnectBlockInternal, outside recovery.
CanDisconnectBlock(view) ==
    LET saved == Stored(view)
    IN  Active(view.best) =>
            /\ Matches(saved, view.best) /\ saved.checked
            /\ UndoChainstateHealth(saved.totals, view.best) # Refused

\* Mutant: the parent's record forgets that its history is checked.
DisconnectBlock_Unchecked(view) ==
    LET p == Parent[view.best]
    IN  [best |-> p, open |-> Unapply(view.open, view.best),
         rec |-> IF Active(view.best)
                 THEN Record(p, UndoChainstateHealth(view.rec.totals, view.best), FALSE)
                 ELSE NoRecord]

DisconnectBlock(view) ==
    LET p == Parent[view.best]
    IN  [best |-> p, open |-> Unapply(view.open, view.best),
         rec |-> IF Active(view.best)
                 THEN Record(p, UndoChainstateHealth(view.rec.totals, view.best), Active(p))
                 ELSE NoRecord]

\* DisconnectBlockInternal in recovery: the coins only.
RewindBlock(view) ==
    [best |-> Parent[view.best], open |-> Unapply(view.open, view.best), rec |-> NoRecord]

-----------------------------------------------------------------------------
(* The coin database.                                                      *)

\* The database a completed CCoinsViewDB::BatchWrite leaves.
Written(view) ==
    [best |-> view.best, to |-> view.best, torn |-> FALSE, open |-> view.open,
     rec |-> Stored(view)]

\* The coins some of whose changes from the set a to the set b were written.
Mix(a, b) == {s \in SUBSET (a \cup b) : a \cap b \subseteq s}

\* The database in the middle of a BatchWrite that moves it to block b.
Torn(b, open) == [disk EXCEPT !.to = b, !.torn = TRUE, !.open = open]

LastCommonAncestor(a, b) ==
    CHOOSE f \in Branch[a] \cap Branch[b] :
        \A c \in Branch[a] \cap Branch[b] : Height[c] <= Height[f]

Fork == LastCommonAncestor(disk.best, disk.to)

\* The blocks ReplayBlocks rolls back, newest first, and rolls forward.
OldBranch ==
    [i \in 1 .. Height[disk.best] - Height[Fork] |->
        Ancestor(disk.best, Height[disk.best] - i + 1)]
NewBranch ==
    [i \in 1 .. Height[disk.to] - Height[Fork] |->
        Ancestor(disk.to, Height[Fork] + i)]

\* Mutant: the abandoned branch is not rolled back.
ReplayBlocks_NoRollback ==
    Written([best |-> disk.to, open |-> FoldLeft(Apply, disk.open, NewBranch),
             rec |-> NoRecord])

\* ReplayBlocks finishes an interrupted write; it has no record to store.
ReplayBlocks ==
    LET back == FoldLeft(Unapply, disk.open, OldBranch)
    IN  Written([best |-> disk.to, open |-> FoldLeft(Apply, back, NewBranch),
                 rec |-> NoRecord])

\* ... and takes the rolled back legacy blocks off the (still empty) totals.
ReplayLegacy ==
    FoldLeft(LegacyDisconnect, NoLegacy, SelectSeq(OldBranch, LAMBDA b : ~ Active(b)))

-----------------------------------------------------------------------------
(* A running node.                                                         *)

Init ==
    /\ coins = [best |-> Genesis, open |-> {},
                rec |-> IF IsThawDayActive(1)
                        THEN Record(Genesis, TotalsOf({}), Active(Genesis)) ELSE NoRecord]
    /\ disk = Written(coins)
    /\ pc = "running"
    /\ goal = Genesis
    /\ legacy = NoLegacy
    /\ restore = FALSE
    /\ seeded = TRUE
    /\ stops = 0

Running == pc = "running" /\ (seeded \/ ImportDuringInit)

\* ConnectTip of a block that ConnectBlock accepts.
ConnectTip(b, ok) ==
    /\ Running
    /\ b # Genesis /\ Parent[b] = coins.best
    /\ CanConnectBlock(coins, b, ok)
    /\ coins' = ConnectBlock(coins, b, ok)
    /\ legacy' = IF Active(b) THEN legacy ELSE LegacyConnect(legacy, b)
    /\ UNCHANGED <<disk, pc, goal, restore, seeded, stops>>

\* ConnectBlock on a discarded view: a block that fails a later check, or a
\* template (fJustCheck).  DigiDollarHealthUpdateGuard takes back the updates.
CheckBlock(b) ==
    /\ Running
    /\ b # Genesis /\ Parent[b] = coins.best
    /\ ~ Active(b)
    /\ legacy' = LegacyDisconnect(LegacyConnect(legacy, b), b)
    /\ UNCHANGED <<coins, disk, pc, goal, restore, seeded, stops>>

\* Mutant: the legacy totals are not scanned again below the boundary.
Rescan_Never == FALSE

\* A node that started above Thaw Day never had legacy totals: DisconnectTip
\* scans for them when it first falls below.
Rescan == restore /\ ~ Active(Parent[coins.best])

DisconnectTip ==
    /\ Running
    /\ coins.best # Genesis
    /\ CanDisconnectBlock(coins)
    /\ coins' = DisconnectBlock(coins)
    /\ legacy' = IF Rescan THEN LegacyScan(coins'.open)
                 ELSE IF Active(coins.best) THEN legacy
                 ELSE LegacyDisconnect(legacy, coins.best)
    /\ restore' = (restore /\ ~ Rescan)
    /\ UNCHANGED <<disk, pc, goal, seeded, stops>>

\* SystemHealthMonitor::ReconstructFromChain, late in startup.
ReconstructFromChain ==
    /\ pc = "running" /\ ~ seeded
    /\ IF Active(coins.best)
       THEN /\ Matches(Stored(coins), coins.best) /\ Stored(coins).checked
            /\ UNCHANGED <<legacy, disk>>
       ELSE /\ disk' = Written(coins)
            /\ legacy' = LegacyScan(coins.open)
    /\ seeded' = TRUE
    /\ UNCHANGED <<coins, pc, goal, restore, stops>>

\* FlushStateToDisk, after any block.
FlushStateToDisk ==
    /\ pc \in {"running", "rewind", "replay"}
    /\ disk' = Written(coins)
    /\ UNCHANGED <<memory, pc, stops>>

-----------------------------------------------------------------------------
(* Stopping.                                                               *)

\* The process is gone; nothing in memory is left.
Gone ==
    /\ pc' = "off"
    /\ coins' = [best |-> Genesis, open |-> {}, rec |-> NoRecord]
    /\ goal' = Genesis
    /\ legacy' = NoLegacy
    /\ restore' = FALSE
    /\ seeded' = FALSE

MayStop == stops < MaxStops /\ stops' = stops + 1

Crash == pc # "off" /\ MayStop /\ Gone /\ UNCHANGED disk

\* Between two batches of a write.
CrashInWrite ==
    /\ pc # "off"
    /\ MayStop
    /\ \E open \in Mix(disk.open, coins.open) : disk' = Torn(coins.best, open)
    /\ Gone

CrashInReplay ==
    /\ pc = "off" /\ disk.torn
    /\ MayStop
    /\ \E open \in Mix(disk.open, ReplayBlocks.open) : disk' = Torn(disk.to, open)
    /\ UNCHANGED <<memory, pc>>

\* Another release ran on the same database and moved it by one block.  One
\* from before the record leaves the stored one alone; one built with another
\* Thaw Day height stores its own, verified by its own rules.
RunOtherRelease ==
    /\ pc = "off" /\ ~ disk.torn
    /\ MayStop
    /\ \E b \in Blocks \ {Genesis} :
          \E new \in {[best |-> b, open |-> Apply(disk.open, b)],
                      [best |-> Parent[b], open |-> Unapply(disk.open, b)]} :
            /\ disk.best = IF new.best = b THEN Parent[b] ELSE b
            /\ \E rec \in {disk.rec} \cup
                  {[best |-> new.best, act |-> h, totals |-> TotalsOf(new.open),
                    checked |-> TRUE] : h \in OtherHeights} :
                 disk' = [disk EXCEPT !.best = new.best, !.to = new.best,
                                      !.open = new.open, !.rec = rec]
    /\ UNCHANGED <<memory, pc>>

-----------------------------------------------------------------------------
(* Starting: ReplayBlocks, LoadChainTip, InitializeDigiDollarState.        *)

Start ==
    /\ pc = "off"
    /\ disk' = IF disk.torn THEN ReplayBlocks ELSE disk
    /\ coins' = [best |-> disk'.best, open |-> disk'.open, rec |-> disk'.rec]
    /\ legacy' = IF disk.torn THEN ReplayLegacy ELSE NoLegacy
    /\ pc' = "init"
    /\ UNCHANGED <<goal, restore, seeded, stops>>

\* Mutant: a missing record is rebuilt from the coins without verification.
Verified_Any == TRUE

\* checked in InitializeDigiDollarState: the saved record proves the history.
Verified == Matches(Stored(coins), coins.best) /\ Stored(coins).checked

\* The totals are compared with the coins, and replaced, even if verified.
VerifyTotals ==
    /\ pc = "init"
    /\ Verified \/ ~ Active(coins.best) \/ Height[coins.best] = 0
    /\ IF IsThawDayActive(Height[coins.best] + 1)
       THEN /\ coins' = [coins EXCEPT !.rec =
                            [Rebuilt(coins) EXCEPT !.checked = Verified \/ @]]
            /\ disk' = Written(coins')
            /\ restore' = Active(coins.best)
       ELSE UNCHANGED <<coins, disk, restore>>
    /\ pc' = "running"
    /\ UNCHANGED <<goal, legacy, seeded, stops>>

StartRecovery ==
    /\ pc = "init"
    /\ ~ Verified /\ Active(coins.best) /\ Height[coins.best] > 0
    /\ pc' = "rewind"
    /\ goal' = coins.best
    /\ restore' = TRUE
    /\ UNCHANGED <<coins, disk, legacy, seeded, stops>>

\* Mutant: the rewind does not stop at the genesis block.
AtAnchor_NoGenesis == ~ Active(coins.best)

\* anchor_index: where the rewind ends.
AtAnchor == coins.best = Genesis \/ ~ Active(coins.best)

Rewind ==
    /\ pc = "rewind" /\ ~ AtAnchor
    /\ coins' = RewindBlock(coins)
    /\ UNCHANGED <<disk, pc, goal, legacy, restore, seeded, stops>>

PersistAnchor ==
    /\ pc = "rewind" /\ AtAnchor
    /\ coins' = [coins EXCEPT !.rec = NoRecord]
    /\ disk' = Written(coins')
    /\ pc' = "anchor"
    /\ UNCHANGED <<goal, legacy, restore, seeded, stops>>

RebuildAnchor ==
    /\ pc = "anchor"
    /\ coins' = [coins EXCEPT !.rec = Rebuilt(coins)]
    /\ pc' = "replay"
    /\ UNCHANGED <<disk, goal, legacy, restore, seeded, stops>>

NextReplayed == Ancestor(goal, Height[coins.best] + 1)

Replay ==
    /\ pc = "replay" /\ coins.best # goal
    /\ CanConnectBlock(coins, NextReplayed, TRUE)
    /\ coins' = ConnectBlock(coins, NextReplayed, TRUE)
    /\ UNCHANGED <<disk, pc, goal, legacy, restore, seeded, stops>>

\* A block breaks the rules: what was verified is kept, startup fails.
ReplayFailed ==
    /\ pc = "replay" /\ coins.best # goal
    /\ ~ CanConnectBlock(coins, NextReplayed, TRUE)
    /\ disk' = Written(coins)
    /\ Gone
    /\ UNCHANGED stops

ReplayDone ==
    /\ pc = "replay" /\ coins.best = goal
    /\ disk' = Written(coins)
    /\ pc' = "running"
    /\ UNCHANGED <<memory, stops>>

\* cancelled(), between two blocks.
CancelRecovery ==
    /\ (pc = "rewind" /\ ~ AtAnchor) \/ (pc = "replay" /\ coins.best # goal)
    /\ MayStop
    /\ disk' = Written(coins)
    /\ Gone

-----------------------------------------------------------------------------
StartupStep ==
    \/ Start \/ VerifyTotals \/ StartRecovery \/ Rewind \/ PersistAnchor
    \/ RebuildAnchor \/ Replay \/ ReplayFailed \/ ReplayDone \/ ReconstructFromChain

Stop == Crash \/ CrashInWrite \/ CrashInReplay \/ RunOtherRelease \/ CancelRecovery

Next ==
    \/ \E b \in Blocks, ok \in BOOLEAN : ConnectTip(b, ok)
    \/ \E b \in Blocks : CheckBlock(b)
    \/ DisconnectTip
    \/ FlushStateToDisk
    \/ StartupStep
    \/ Stop

Spec == Init /\ [][Next]_vars

\* A node that is off is started again, and a startup that is not stopped
\* makes progress: it is a sequential function under cs_main.
FairSpec == Spec /\ WF_vars(StartupStep)

-----------------------------------------------------------------------------
\* The vaults open after block b.
OpenAt(b) ==
    {v \in Vaults :
        /\ \E a \in Branch[b] : [kind |-> "mint", vault |-> v] \in Range(Txs[a])
        /\ \A a \in Branch[b] : [kind |-> "redeem", vault |-> v] \notin Range(Txs[a])}

\* Collateral is made of coins, and there are never more than MAX_MONEY.
ASSUME MoneyAssumption ==
    \A b \in Blocks : Total(Collateral, OpenAt(b)) <= MaxMoney

\* The coins in memory, and those of a database that is not in the middle of a
\* write, are the ones of their best block, whatever writes and replays were
\* cut short (BatchWrite, ReplayBlocks).
CoinsMatchBlock ==
    /\ pc # "off" => coins.open = OpenAt(coins.best)
    /\ ~ disk.torn => disk.open = OpenAt(disk.best)

\* A record made for this node's rules that validation can see, in memory or
\* in the database, has the totals of the vaults open at its block
\* (UpdateChainstateHealth against ReconstructChainstateHealth).
RecordMatchesCoins ==
    \A view \in {coins} \cup (IF disk.torn THEN {} ELSE {disk}) :
        Matches(Stored(view), view.best) => Stored(view).totals = TotalsOf(OpenAt(view.best))

\* Every block of b's branch at or above Thaw Day obeys its rules.
CleanHistory(b) == \A a \in Branch[b] : Active(a) /\ a # Genesis => Follows[a]

\* "Only validation of the activated history may establish history_checked":
\* a record that says so belongs to a chain all of whose Thaw Day blocks obey
\* the rules, also after crashes, other releases and cancelled recoveries.
CheckedHistoryIsClean ==
    \A view \in {coins} \cup (IF disk.torn THEN {} ELSE {disk}) :
        Matches(Stored(view), view.best) /\ Stored(view).checked => CleanHistory(view.best)

\* A running node above Thaw Day has a verified record of its tip, so neither
\* ConnectBlock nor DisconnectBlock ever stops with "DigiDollar state not
\* ready".
RunningIsReady ==
    pc = "running" /\ Active(coins.best) /\ coins.best # Genesis => Verified

\* Below Thaw Day the global totals validation reads are those of the vaults
\* open at the tip, through rejected blocks, reorganisations across Thaw Day
\* and restarts.
LegacyTotalsExact ==
    pc = "running" /\ seeded /\ ~ Active(coins.best)
        => legacy = LegacyScan(OpenAt(coins.best))

\* Recovery makes progress: a node is never off, or starting, for ever.
AlwaysRunsAgain == []<>(pc = "running")
=============================================================================
