--------------------------- MODULE MCSyncCeremony ---------------------------
(***************************************************************************)
(* The ceremony under the most favourable schedule: no failures, ticks and *)
(* handlers are not interleaved, every message reaches every node before   *)
(* the next tick anywhere, and no node connects a second block before all  *)
(* nodes have connected the first.                                         *)
(***************************************************************************)
EXTENDS SigningOrchestrator, TLC

CONSTANTS n1, n2, n3, genesis, tipA,
    Deadline    \* the height by which every node is to be COMPLETE

VARIABLE seen   \* seen[n]: the messages node n has handled

syncVars == <<vars, seen>>

MCScore == genesis :> <<1, 2, 3, 4>> @@ tipA :> <<1, 2, 3, 4>>
\* Nobody runs oracle 1, the first in the selection order; n1 is a passive node
\* and n3 runs two oracles, one more than the committee needs.
LocalAbsent == n1 :> {} @@ n2 :> {2} @@ n3 :> {3, 4}

Busy(n) == tick[n].pc # "idle" \/ inbox[n] # {}
Undelivered(n) == msgs \ seen[n]
Quiet == \A n \in Nodes : ~ Busy(n) /\ Undelivered(n) = {}

SyncStep == \E n \in Nodes : Busy(n) /\ (TickStep(n) \/ BufferOrDrop(n)) /\ UNCHANGED seen

SyncDeliver ==
    /\ \A n \in Nodes : ~ Busy(n)
    /\ \E n \in Nodes, m \in msgs :
         /\ m \in Undelivered(n)
         /\ IngestRemoteNonce(n, m) \/ IngestRemoteContext(n, m)
            \/ IngestRemotePartialSig(n, m, TRUE)
         /\ seen' = [seen EXCEPT ![n] = @ \cup {m}]

SyncBlock ==
    /\ Quiet
    /\ \E n \in Nodes : /\ \A k \in Nodes : tick[n].height <= tick[k].height
                        /\ NewBlock(n)
    /\ UNCHANGED seen

SyncInit == Init /\ seen = [n \in Nodes |-> {}]
SyncNext == SyncStep \/ SyncDeliver \/ SyncBlock

SyncSpec == SyncInit /\ [][SyncNext]_syncVars
FairSyncSpec == SyncSpec /\ WF_syncVars(SyncNext)

\* All nodes have connected the block at height h and all messages are in.
SettledAt(h) == Quiet /\ \A n \in Nodes : tick[n].height >= h

AllComplete == \A n \in Nodes : sess[n].state = "COMPLETE"

\* Every node, oracle or passive, holds the aggregate signature once the blocks
\* up to Deadline are connected: the first block of the epoch when all oracles
\* take part, one proposer round later when the first proposer is missing.
CompleteByDeadline == SettledAt(Deadline) => AllComplete

\* The ceremony ends, and ends in success: blocks keep coming and messages are
\* delivered, so every node's session becomes COMPLETE and stays so.
CeremonySucceeds == <>[]AllComplete
=============================================================================
