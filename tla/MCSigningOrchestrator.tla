----------------------- MODULE MCSigningOrchestrator -----------------------
(* Instances of SigningOrchestrator for TLC. *)
EXTENDS SigningOrchestrator, TLC

CONSTANTS n1, n2, genesis, tipA, tipB

\* Two nodes with one oracle each; oracle 1 ranks first under tipA and the
\* genesis hash, oracle 2 under tipB.
LocalPair == n1 :> {1} @@ n2 :> {2}
MCScorePair == genesis :> <<1, 2>> @@ tipA :> <<1, 2>> @@ tipB :> <<2, 1>>

Busy(n) == tick[n].pc # "idle" \/ inbox[n] # {}

\* The behaviours of Next in which a tick or a handler, once started, is not
\* interleaved with anything else.
BusyStep == \E n \in Nodes : Busy(n) /\ (TickStep(n) \/ BufferOrDrop(n))
AtomicNext == IF \E n \in Nodes : Busy(n) THEN BusyStep ELSE Next
AtomicSpec == Init /\ [][AtomicNext]_vars

\* The same without changes in the environment, and with restarts of n1 at any
\* point of a tick.
AtomicCrashSpec ==
    Init /\ [][\/ IF \E n \in Nodes : Busy(n) THEN BusyStep ELSE \E n \in Nodes : NodeStep(n)
              \/ Crash(n1)]_vars

\* Every proposer proposes the price it sees, which is not another's, and the
\* node that does not restart stays behind.
RestartBound ==
    /\ \A n \in Nodes : \A c \in maps[n].contexts : c.ctx.msg = c.proposer
    /\ tick[n2].height <= 3

\* Every interleaving of the threads, no change in the environment.
ThreadsSpec == Init /\ [][\E n \in Nodes : NodeStep(n)]_vars
============================================================================
