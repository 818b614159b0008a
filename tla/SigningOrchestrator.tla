------------------------- MODULE SigningOrchestrator -------------------------
(***************************************************************************)
(* The MuSig2 ceremony of one oracle epoch, run by every node's            *)
(* OracleSigningOrchestrator (src/src/oracle/signing_orchestrator.cpp).    *)
(*                                                                         *)
(* Two threads of a node touch this state.  The validation-interface       *)
(* thread runs TickEpochSession for every connected block and takes        *)
(* m_sessions_mutex only around single map accesses; the message thread    *)
(* runs the Ingest handlers, which hold that mutex throughout.  The        *)
(* session object has a mutex of its own, so a tick may change the session *)
(* while a handler holds m_sessions_mutex.  tick[n].pc is the tick's       *)
(* program counter (one value per stretch that runs without letting a      *)
(* handler in) and inbox[n] the partial signature a handler has tried to   *)
(* apply and not yet decided to buffer.                                    *)
(*                                                                         *)
(* msgs is what has been handed to at least one peer.  It is never         *)
(* emptied: a message reaches a node late, twice, out of order or never.   *)
(***************************************************************************)
EXTENDS MuSig2Session

CONSTANTS
    Nodes,
    Local,             \* Local[n]: the oracle ids node n runs
    ChainSeeds,        \* hashes of the competing blocks at EpochStart - 1
    EpochStart,        \* height of the first block of the epoch
    StartHeight,       \* tip height of every node at the beginning
    MaxHeight,         \* bound: last height a node connects
    ReorgDepths,       \* bound: how far below tip + 1 a block may connect
    PreStartWindow,    \* kPreStartWindow
    NonceGraceBlocks,  \* CONTEXT_NONCE_GRACE_BLOCKS
    RoundBlocks,       \* CONTEXT_PROPOSAL_ROUND_BLOCKS
    MaxAttempts,       \* MAX_MUSIG2_ATTEMPTS_PER_EPOCH
    MaxPendingPerContext, MaxPendingContexts, MaxPendingPerEpoch,
    MaxProposals,      \* MAX_PENDING_CONTEXT_PROPOSALS_PER_EPOCH
    PriceGaps,         \* may price evidence be missing when a proposer needs it
    LibResults,        \* results of the secp256k1 calls to explore
    Flaky,             \* nodes that can lose all their peers
    MaxCrashes         \* bound: process restarts

ASSUME OrchestratorAssumption ==
    /\ Local \in [Nodes -> SUBSET Oracles]
    /\ \A m, n \in Nodes : m # n => Local[m] \cap Local[n] = {}
    /\ ChainSeeds \subseteq Seeds
    /\ EpochStart \in Nat /\ StartHeight \in Nat /\ MaxHeight \in Nat
    /\ ReorgDepths \subseteq Nat /\ MaxCrashes \in Nat
    /\ PreStartWindow \in Nat /\ NonceGraceBlocks \in Nat
    /\ RoundBlocks \in Nat \ {0} /\ MaxAttempts \in Nat \ {0}
    /\ MaxPendingPerContext \in Nat /\ MaxPendingContexts \in Nat
    /\ MaxPendingPerEpoch \in Nat /\ MaxProposals \in Nat
    /\ PriceGaps \in BOOLEAN /\ LibResults \subseteq BOOLEAN
    /\ Flaky \subseteq Nodes

VARIABLES
    sess,     \* sess[n]: the epoch's entry of m_signing_sessions
    maps,     \* maps[n]: the epoch's entries of the other maps
    tick,     \* tick[n]: the tick in progress and its local variables
    inbox,    \* inbox[n]: a partial signature between the handler's two looks
    msgs,     \* messages that reached a peer
    online,   \* nodes with at least one peer
    stale,    \* values whose price evidence has expired
    drawn,    \* history: every nonce ever generated
    made,     \* history: every partial signature ever made
    lost,     \* history: partial signatures a handler dropped though needed
    crashes   \* process restarts so far

vars == <<sess, maps, tick, inbox, msgs, online, stale, drawn, made, lost, crashes>>

NonceMsg == [type : {"nonce"}, attempt : Nat, oracle : Oracles, nonce : Nat]
ContextMsg == [type : {"context"}, attempt : Nat, proposer : Oracles,
               ctx : Context, evidence : NonceMap]
PsigMsg == [type : {"psig"}, attempt : Nat, ctx : Context, sig : PartialSig]

\* The nonce message of oracle id.
NonceRec(attempt, id, nonce) ==
    [type |-> "nonce", attempt |-> attempt, oracle |-> id, nonce |-> nonce]

Maps == [live : BOOLEAN, attempt : Nat, seed : Seeds, seeded : BOOLEAN,
         nonceTracker : SUBSET Oracles, ctxTracker : SUBSET Oracles,
         psigTracker : SUBSET Oracles, evidence : SUBSET NonceMsg,
         contexts : SUBSET ContextMsg, pending : SUBSET PsigMsg,
         unsentNonces : SUBSET Oracles, unsentCtx : SUBSET Context,
         unsentPsigs : SUBSET PsigMsg]

NoMaps == [live |-> FALSE, attempt |-> 0, seed |-> GenesisSeed, seeded |-> FALSE,
           nonceTracker |-> {}, ctxTracker |-> {}, psigTracker |-> {},
           evidence |-> {}, contexts |-> {}, pending |-> {},
           unsentNonces |-> {}, unsentCtx |-> {}, unsentPsigs |-> {}]

PCs == {"idle", "resend", "gen", "add", "sendnonce", "converge", "sendctx",
        "trim", "bind", "sign", "sendsig", "drain", "finish"}

Tick == [pc : PCs, height : Int, todo : SUBSET Oracles,
         chosen : SUBSET ContextMsg, out : SUBSET PsigMsg]

Idle(h) == [pc |-> "idle", height |-> h, todo |-> {}, chosen |-> {}, out |-> {}]

Init ==
    /\ sess = [n \in Nodes |-> NewSession(0, 0)]
    /\ maps = [n \in Nodes |-> NoMaps]
    /\ tick = [n \in Nodes |-> Idle(StartHeight)]
    /\ inbox = [n \in Nodes |-> {}]
    /\ msgs = {}
    /\ online = Nodes
    /\ stale = {}
    /\ drawn = {}
    /\ made = {}
    /\ lost = {}
    /\ crashes = 0

-----------------------------------------------------------------------------
(* Helpers.                                                                *)

\* m_sessions_mutex is free: no handler of n is between its two steps.
Unlocked(n) == inbox[n] = {}

SetSess(n, s) == sess' = [sess EXCEPT ![n] = s]
SetTick(n, t) == tick' = [tick EXCEPT ![n] = t]
SetMaps(n, m) == maps' = [maps EXCEPT ![n] = m]
Goto(n, pc) == SetTick(n, [tick[n] EXCEPT !.pc = pc])

\* Return from TickEpochSession.
Return(n) == SetTick(n, Idle(tick[n].height))

\* The first local id a loop over local_ids has not handled yet.
NextId(n) == CHOOSE id \in tick[n].todo : TRUE
Done(n) == tick[n].todo \ {NextId(n)}

\* Broadcast...: the message goes out only when some peer is connected.
Broadcast(n, ms) == msgs' = IF n \in online THEN msgs \cup ms ELSE msgs

\* Position in SortOracleIdsByEpochSeed.
Rank(sd, id) == Cardinality({j \in Oracles : Score[sd][j] < Score[sd][id]})

\* Mutant: each proposer waits one round longer.
IsEligibleContextProposer_Late(n, id) ==
    /\ tick[n].height >= EpochStart - 1
    /\ Rank(maps[n].seed, id) < (tick[n].height - (EpochStart - 1)) \div RoundBlocks

IsEligibleContextProposer(n, id) ==
    /\ tick[n].height >= EpochStart - 1
    /\ Rank(maps[n].seed, id) <= (tick[n].height - (EpochStart - 1)) \div RoundBlocks

\* A new session of node n, given the epoch's selection seed when known.
FreshSession(m, attempt, height) ==
    IF m.seeded THEN SetEpochSelectionSeed(NewSession(attempt, height), m.seed)
    ELSE NewSession(attempt, height)

-----------------------------------------------------------------------------
(* The block tick.                                                         *)

\* BlockConnected, OnBlockConnected and the head of TickEpochSession: record
\* the selection seed, get or create the session, restart a failed attempt.
SeedMaps(m, h, sd) ==
    IF h >= EpochStart - 1 THEN [m EXCEPT !.seed = sd, !.seeded = TRUE] ELSE m

\* GetOrCreateSigningSession, then the seed that SetEpochSelectionSeed hands
\* to an existing session.
GetOrCreate(n, m, h) ==
    IF ~ m.live THEN FreshSession(m, m.attempt, h)
    ELSE IF h >= EpochStart - 1 THEN SetEpochSelectionSeed(sess[n], m.seed)
    ELSE sess[n]

MayRestart(m, s) == s.state = "FAILED" /\ m.attempt + 1 < MaxAttempts

\* Mutants: evidence of the failed attempt survives; the attempt goes down.
RestartedMaps_KeepsEvidence(m) ==
    [NoMaps EXCEPT !.live = TRUE, !.attempt = m.attempt + 1, !.evidence = m.evidence,
                   !.seed = m.seed, !.seeded = m.seeded]

RestartedMaps_CountsDown(m) ==
    [NoMaps EXCEPT !.live = TRUE, !.attempt = m.attempt - 1,
                   !.seed = m.seed, !.seeded = m.seeded]

\* RestartEpochAttemptIfNeeded drops every map of the epoch but the seed.
RestartedMaps(m) ==
    [NoMaps EXCEPT !.live = TRUE, !.attempt = m.attempt + 1,
                   !.seed = m.seed, !.seeded = m.seeded]

BlockConnected(n, depth, sd) ==
    LET h == tick[n].height + 1 - depth
        m == SeedMaps(maps[n], h, sd)
        s == GetOrCreate(n, m, h)
    IN  /\ tick[n].pc = "idle" /\ Unlocked(n)
        /\ h <= MaxHeight /\ h > StartHeight
        /\ IF h < EpochStart - PreStartWindow
           THEN /\ SetTick(n, Idle(h))
                /\ UNCHANGED <<sess, maps>>
           ELSE /\ SetTick(n, [Idle(h) EXCEPT !.pc = "resend"])
                /\ IF MayRestart(m, s)
                   THEN /\ SetMaps(n, RestartedMaps(m))
                        /\ SetSess(n, FreshSession(m, m.attempt + 1, h))
                   ELSE /\ SetMaps(n, [m EXCEPT !.live = TRUE])
                        /\ SetSess(n, s)
        /\ UNCHANGED <<inbox, msgs, online, stale, drawn, made, lost, crashes>>

\* ResendUnsentNonces, ResendUnsentContexts and ResendUnsentPartialSigs: what
\* each of them still holds and would put on the wire.
HeldNonces(m) == {e \in m.evidence : e.oracle \in m.unsentNonces /\ e.attempt = m.attempt}
HeldContexts(m) == {c \in m.contexts : c.ctx \in m.unsentCtx /\ c.attempt = m.attempt}
HeldPsigs(m) == {p \in m.unsentPsigs : p.attempt = m.attempt}

Resend(n) ==
    LET m == maps[n]
        s == IF m.seeded THEN SetEpochSelectionSeed(sess[n], m.seed) ELSE sess[n]
    IN  /\ tick[n].pc = "resend" /\ Unlocked(n)
        /\ Broadcast(n, HeldNonces(m) \cup HeldContexts(m) \cup HeldPsigs(m))
        /\ SetMaps(n, IF n \in online
                      THEN [m EXCEPT !.unsentNonces = {}, !.unsentCtx = {}, !.unsentPsigs = {}]
                      ELSE [m EXCEPT !.unsentNonces = {e.oracle : e \in HeldNonces(m)},
                                     !.unsentCtx = {c.ctx : c \in HeldContexts(m)},
                                     !.unsentPsigs = HeldPsigs(m)])
        /\ SetSess(n, s)
        /\ SetTick(n, [tick[n] EXCEPT !.pc = "gen",
               !.todo = IF s.state \in {"CREATED", "NONCES_COLLECTING"}
                        THEN Local[n] \ m.nonceTracker ELSE {}])
        /\ UNCHANGED <<inbox, online, stale, drawn, made, lost, crashes>>

\* Mutant: the nonce is derived from the oracle id and not drawn afresh.
StepGenerateNonce_Derived(n) ==
    LET id == NextId(n)
    IN  /\ tick[n].pc = "gen" /\ tick[n].todo # {}
        /\ SetSess(n, GenerateNonce(sess[n], id, Oracles, id))
        /\ IF CanGenerateNonce(sess[n], id)
           THEN Goto(n, "add")
           ELSE SetTick(n, [tick[n] EXCEPT !.todo = Done(n)])
        /\ UNCHANGED <<maps, inbox, msgs, online, stale, drawn, made, lost, crashes>>

\* Step 1, for the next local id: GenerateNonce ...
StepGenerateNonce(n) ==
    LET id == NextId(n)
        nonce == Cardinality(drawn) + 1
    IN  /\ tick[n].pc = "gen" /\ tick[n].todo # {}
        /\ SetSess(n, GenerateNonce(sess[n], id, Oracles, nonce))
        /\ IF CanGenerateNonce(sess[n], id)
           THEN Goto(n, "add") /\ drawn' = drawn \cup {NonceRec(sess[n].attempt, id, nonce)}
           ELSE SetTick(n, [tick[n] EXCEPT !.todo = Done(n)]) /\ UNCHANGED drawn
        /\ UNCHANGED <<maps, inbox, msgs, online, stale, made, lost, crashes>>

\* Mutant: the nonce is not listed as unsent before it is sent.
StepStoreNonce_NotHeld(n) ==
    LET id == NextId(n)
        nonce == sess[n].sec[id]
        msg == NonceRec(sess[n].attempt, id, nonce)
        m == maps[n]
    IN  /\ tick[n].pc = "add" /\ Unlocked(n)
        /\ SetSess(n, AddPubnonce(sess[n], id, nonce))
        /\ SetMaps(n, [m EXCEPT
               !.nonceTracker = m.nonceTracker \cup {id},
               !.evidence = {e \in m.evidence : e.oracle # id} \cup {msg}])
        /\ Goto(n, "sendnonce")
        /\ UNCHANGED <<inbox, msgs, online, stale, drawn, made, lost, crashes>>

\* ... AddPubnonce, and the message is stored as unsent ...
StepStoreNonce(n) ==
    LET id == NextId(n)
        nonce == sess[n].sec[id]
        msg == NonceRec(sess[n].attempt, id, nonce)
        m == maps[n]
    IN  /\ tick[n].pc = "add" /\ Unlocked(n)
        /\ SetSess(n, AddPubnonce(sess[n], id, nonce))
        /\ SetMaps(n, [m EXCEPT
               !.nonceTracker = m.nonceTracker \cup {id},
               !.evidence = {e \in m.evidence : e.oracle # id} \cup {msg},
               !.unsentNonces = m.unsentNonces \cup {id}])
        /\ Goto(n, "sendnonce")
        /\ UNCHANGED <<inbox, msgs, online, stale, drawn, made, lost, crashes>>

\* ... then broadcast, and no longer unsent once a peer has it.
StepSendNonce(n) ==
    LET id == NextId(n)
        m == maps[n]
    IN  /\ tick[n].pc = "sendnonce" /\ Unlocked(n)
        /\ Broadcast(n, {NonceRec(sess[n].attempt, id, sess[n].sec[id])})
        /\ IF n \in online
           THEN SetMaps(n, [m EXCEPT !.unsentNonces = m.unsentNonces \ {id}])
           ELSE UNCHANGED maps
        /\ SetTick(n, [tick[n] EXCEPT !.pc = "gen", !.todo = Done(n)])
        /\ UNCHANGED <<sess, inbox, online, stale, drawn, made, lost, crashes>>

\* The loop of Step 1 is over.
StepNoncesDone(n) ==
    /\ tick[n].pc = "gen" /\ tick[n].todo = {}
    /\ Goto(n, IF sess[n].state = "NONCES_COMPLETE" THEN "converge" ELSE "drain")
    /\ UNCHANGED <<sess, maps, inbox, msgs, online, stale, drawn, made, lost, crashes>>

-----------------------------------------------------------------------------
(* Step 2: converge on one context.                                        *)

\* ValidateContextProposal.  Messages are authentic, so what is left to check
\* is the attempt, the seed, the freshness of the price evidence, the
\* participants against the evidence and the session's own nonces, and the
\* context id recomputed from the session.
ValidateContextProposal(n, c) ==
    LET s == sess[n]
        P == Holders(c.ctx.nonces)
    IN  /\ c.attempt = s.attempt
        /\ c.ctx.seed = s.seed
        /\ Cardinality(P) = MinSigners
        /\ c.ctx.msg \notin stale
        /\ P = {id \in Holders(c.evidence) :
                   Cardinality({j \in Holders(c.evidence) :
                       Score[s.seed][j] < Score[s.seed][id]}) < MinSigners}
        /\ Cardinality(Holders(s.pub)) >= MinSigners => Required(s) = P
        /\ P \subseteq Holders(s.pub)
        /\ ContextFor(s, P, c.ctx.msg) = c.ctx

ReadyProposals(n) ==
    {c \in maps[n].contexts : IsEligibleContextProposer(n, c.proposer)
                              /\ ValidateContextProposal(n, c)}

\* SelectReadyContextProposal: the best ranked proposer's.
SelectReadyContextProposal(n) ==
    {c \in ReadyProposals(n) : \A d \in ReadyProposals(n) :
        Rank(sess[n].seed, c.proposer) <= Rank(sess[n].seed, d.proposer)}

\* The local oracle BuildLocalContextProposal lets propose next.
MayPropose(n, id) ==
    /\ id \in Local[n]
    /\ id \notin maps[n].ctxTracker
    /\ IsEligibleContextProposer(n, id)

IsProposer(n, id) ==
    /\ MayPropose(n, id)
    /\ \A j \in Oracles : MayPropose(n, j) => Score[maps[n].seed][id] <= Score[maps[n].seed][j]

\* The stored nonce messages of this attempt for the oracles of P.
EvidenceFor(n, P) ==
    {e \in maps[n].evidence : e.oracle \in P /\ e.attempt = sess[n].attempt}

CanBuildProposal(n, id) ==
    /\ IsProposer(n, id)
    /\ Cardinality(Required(sess[n])) = MinSigners
    /\ {e.oracle : e \in EvidenceFor(n, Required(sess[n]))} = Required(sess[n])

\* The tick is past both of Step 2's early returns.
SeedKnown(n) == EpochStart > tick[n].height => maps[n].seeded
GraceOver(n) == tick[n].height >= sess[n].created + NonceGraceBlocks

\* Step 2 returns early: the seed is unknown or nonces may still come in.
StepWait(n) ==
    /\ tick[n].pc = "converge" /\ Unlocked(n)
    /\ ~ (SeedKnown(n) /\ GraceOver(n))
    /\ SetSess(n, IF SeedKnown(n) THEN SetEpochSelectionSeed(sess[n], maps[n].seed)
                  ELSE sess[n])
    /\ Return(n)
    /\ UNCHANGED <<maps, inbox, msgs, online, stale, drawn, made, lost, crashes>>

\* The session's seed is set again from the map before proposals are looked
\* at; Resend has set it already in this tick, and nothing changed it since.
StepChoose(n) ==
    /\ tick[n].pc = "converge" /\ Unlocked(n)
    /\ SeedKnown(n) /\ GraceOver(n)
    /\ \E c \in SelectReadyContextProposal(n) :
           SetTick(n, [tick[n] EXCEPT !.pc = "trim", !.chosen = {c}])
    /\ UNCHANGED <<sess, maps, inbox, msgs, online, stale, drawn, made, lost, crashes>>

\* BuildLocalContextProposal: store our own proposal and mark the proposer ...
StepPropose(n, id, v) ==
    LET s == sess[n]
        m == maps[n]
        P == Required(s)
        E == EvidenceFor(n, P)
        c == [type |-> "context", attempt |-> s.attempt, proposer |-> id,
              ctx |-> ContextFor(s, P, v),
              evidence |-> [j \in Oracles |->
                  IF j \in P THEN (CHOOSE e \in E : e.oracle = j).nonce ELSE 0]]
    IN  /\ tick[n].pc = "converge" /\ Unlocked(n)
        /\ SeedKnown(n) /\ GraceOver(n)
        /\ ReadyProposals(n) = {}
        /\ CanBuildProposal(n, id)
        /\ SetMaps(n, [m EXCEPT
               !.contexts = {d \in m.contexts : d.ctx # c.ctx} \cup {c},
               !.ctxTracker = m.ctxTracker \cup {id}])
        /\ SetTick(n, [tick[n] EXCEPT !.pc = "sendctx", !.chosen = {c}])
        /\ UNCHANGED <<sess, inbox, msgs, online, stale, drawn, made, lost, crashes>>

\* Mutant: a proposal that reached nobody is not remembered.
StepSendContext_Forgets(n) ==
    /\ tick[n].pc = "sendctx" /\ Unlocked(n)
    /\ Broadcast(n, tick[n].chosen)
    /\ SetMaps(n, [maps[n] EXCEPT !.unsentCtx = {}])
    /\ Return(n)
    /\ UNCHANGED <<sess, inbox, online, stale, drawn, made, lost, crashes>>

\* ... broadcast it, note whether anybody got it, and return.
StepSendContext(n) ==
    /\ tick[n].pc = "sendctx" /\ Unlocked(n)
    /\ Broadcast(n, tick[n].chosen)
    /\ SetMaps(n, [maps[n] EXCEPT !.unsentCtx =
           IF n \in online THEN {} ELSE {c.ctx : c \in tick[n].chosen}])
    /\ Return(n)
    /\ UNCHANGED <<sess, inbox, online, stale, drawn, made, lost, crashes>>

\* Nothing to choose and nothing to propose.
StepNoContext(n) ==
    /\ tick[n].pc = "converge" /\ Unlocked(n)
    /\ SeedKnown(n) /\ GraceOver(n)
    /\ ReadyProposals(n) = {}
    /\ PriceGaps \/ ~ \E id \in Oracles : CanBuildProposal(n, id)
    /\ Goto(n, "drain")
    /\ UNCHANGED <<sess, maps, inbox, msgs, online, stale, drawn, made, lost, crashes>>

\* Mutant: the key aggregation is not recomputed for the participants.
StepTrim_RosterKeys(n) ==
    /\ tick[n].pc = "trim"
    /\ \E c \in tick[n].chosen :
         LET P == Holders(c.ctx.nonces)
             s == SetSignedValues(sess[n], c.ctx.msg)
         IN  IF CanTrim(s, P)
             THEN SetSess(n, TrimNoncesToParticipants(s, P)) /\ Goto(n, "bind")
             ELSE SetSess(n, s) /\ Return(n)
    /\ UNCHANGED <<maps, inbox, msgs, online, stale, drawn, made, lost, crashes>>

\* Freeze the chosen participants: SetSignedValues, TrimNoncesToParticipants
\* (return if it fails) and SetKeyAggCache for those that are left.
StepTrim(n) ==
    /\ tick[n].pc = "trim"
    /\ \E c \in tick[n].chosen :
         LET P == Holders(c.ctx.nonces)
             s == SetSignedValues(sess[n], c.ctx.msg)
             t == TrimNoncesToParticipants(s, P)
         IN  IF CanTrim(s, P)
             THEN SetSess(n, SetKeyAggCache(t, Holders(t.pub))) /\ Goto(n, "bind")
             ELSE SetSess(n, s) /\ Return(n)
    /\ UNCHANGED <<maps, inbox, msgs, online, stale, drawn, made, lost, crashes>>

\* AggregateNonces, then the loop over the local ids that take part.
StepBind(n, ok) ==
    /\ tick[n].pc = "bind"
    /\ \E c \in tick[n].chosen : SetSess(n, AggregateNonces(sess[n], c.ctx.msg, ok))
    /\ SetTick(n, [tick[n] EXCEPT
           !.pc = IF ok THEN "sign" ELSE "drain",
           !.todo = (Local[n] \cap Holders(sess[n].pub)) \ maps[n].psigTracker])
    /\ UNCHANGED <<maps, inbox, msgs, online, stale, drawn, made, lost, crashes>>

\* CreatePartialSignature and AddPartialSignature for the next local id.
StepSign(n, ok) ==
    LET id == NextId(n)
        s == sess[n]
        sig == SignatureOf(s, id)
        msg == [type |-> "psig", attempt |-> s.attempt, ctx |-> s.ctx, sig |-> sig]
    IN  /\ tick[n].pc = "sign" /\ tick[n].todo # {}
        /\ CASE CanSign(s, id) /\ ok ->
                  /\ SetSess(n, AddPartialSignature(ConsumeNonce(s, id), sig))
                  /\ made' = made \cup {sig}
                  /\ SetTick(n, [tick[n] EXCEPT !.pc = "sendsig", !.out = {msg}])
             [] CanSign(s, id) /\ ~ ok ->
                  /\ SetSess(n, ConsumeNonce(s, id))
                  /\ SetTick(n, [tick[n] EXCEPT !.todo = Done(n)])
                  /\ UNCHANGED made
             [] OTHER ->
                  /\ SetTick(n, [tick[n] EXCEPT !.todo = Done(n)])
                  /\ UNCHANGED <<sess, made>>
        /\ UNCHANGED <<maps, inbox, msgs, online, stale, drawn, lost, crashes>>

\* Mutant: a partial signature that reached nobody is not kept.
StepSendPsig_Forgets(n) ==
    LET id == NextId(n)
    IN  /\ tick[n].pc = "sendsig" /\ Unlocked(n)
        /\ Broadcast(n, tick[n].out)
        /\ SetMaps(n, [maps[n] EXCEPT !.psigTracker = maps[n].psigTracker \cup {id}])
        /\ SetTick(n, [tick[n] EXCEPT !.pc = "sign", !.todo = Done(n), !.out = {}])
        /\ UNCHANGED <<sess, inbox, online, stale, drawn, made, lost, crashes>>

StepSendPsig(n) ==
    LET id == NextId(n)
        m == maps[n]
        others == {p \in m.unsentPsigs : p.sig.oracle # id}
    IN  /\ tick[n].pc = "sendsig" /\ Unlocked(n)
        /\ Broadcast(n, tick[n].out)
        /\ SetMaps(n, [m EXCEPT
               !.psigTracker = m.psigTracker \cup {id},
               !.unsentPsigs = IF n \in online THEN others ELSE others \cup tick[n].out])
        /\ SetTick(n, [tick[n] EXCEPT !.pc = "sign", !.todo = Done(n), !.out = {}])
        /\ UNCHANGED <<sess, inbox, online, stale, drawn, made, lost, crashes>>

StepSignDone(n) ==
    /\ tick[n].pc = "sign" /\ tick[n].todo = {}
    /\ Goto(n, "drain")
    /\ UNCHANGED <<sess, maps, inbox, msgs, online, stale, drawn, made, lost, crashes>>

-----------------------------------------------------------------------------
(* Steps 3 and 4: aggregate, check the timeout.                            *)

\* TryApplyRemotePartialSig: would message p be applied to session s?
Applies(s, p) ==
    /\ p.attempt = s.attempt
    /\ s.ctx # NoContext /\ p.ctx = s.ctx
    /\ CanAddPartial(s, p.sig) /\ Verifies(s, p.sig)

\* DrainPendingPartialSigsForEpoch takes the session context's buffer ...
StepDrain(n) ==
    LET s == sess[n]
        mine == {p \in maps[n].pending : s.state = "SIGNING" /\ p.ctx = s.ctx}
    IN  /\ tick[n].pc = "drain" /\ Unlocked(n)
        /\ SetMaps(n, [maps[n] EXCEPT !.pending = maps[n].pending \ mine])
        /\ SetTick(n, [tick[n] EXCEPT !.pc = "finish", !.out = mine])
        /\ UNCHANGED <<sess, inbox, msgs, online, stale, drawn, made, lost, crashes>>

\* ... and applies it; then AggregateSignature and CheckTimeout.
StepFinish(n, ok) ==
    LET s == sess[n]
        good == {p.sig : p \in {q \in tick[n].out : Applies(s, q)}}
        t == [s EXCEPT !.psigs = s.psigs \cup good]
    IN  /\ tick[n].pc = "finish"
        /\ SetSess(n, CheckTimeout(AggregateSignature(t, ok), tick[n].height))
        /\ Return(n)
        /\ UNCHANGED <<maps, inbox, msgs, online, stale, drawn, made, lost, crashes>>

-----------------------------------------------------------------------------
(* The message thread.                                                     *)

\* The session a handler works on: an existing one, or one created lazily
\* with the epoch's first block as its creation height.
LazySession(n) ==
    IF maps[n].live THEN sess[n] ELSE FreshSession(maps[n], maps[n].attempt, EpochStart)

\* AddNonceEvidenceToSession for the nonces of ev: known nonces stay, new ones
\* are added while the session takes nonces.
AddNonceEvidence(s, ev) ==
    LET t == InitializePassive(s, Oracles)
        u == [t EXCEPT !.pub = [id \in Oracles |->
                 IF ev[id] # 0 /\ CanAddPubnonce(t, id) THEN ev[id] ELSE t.pub[id]]]
    IN  IF u.pub # t.pub /\ Cardinality(Required(u)) >= MinSigners
        THEN [u EXCEPT !.state = "NONCES_COMPLETE"]
        ELSE u

\* The oracles of ev for which AddNonceEvidenceToSession returns true: already
\* a participant, or added by this call.
Accepted(s, ev) == Holders(ev) \cap Holders(AddNonceEvidence(s, ev).pub)

\* Replace the evidence of the oracles of P by the nonces of ev.
ReplaceEvidence(E, P, ev, attempt) ==
    {e \in E : e.oracle \notin P} \cup
    {NonceRec(attempt, id, ev[id]) : id \in P}

IngestRemoteNonce(n, m) ==
    LET s == LazySession(n)
        ev == [NoNonces EXCEPT ![m.oracle] = m.nonce]
    IN  /\ m.type = "nonce" /\ n \in online /\ Unlocked(n)
        /\ m.attempt = s.attempt
        /\ SetSess(n, AddNonceEvidence(s, ev))
        /\ SetMaps(n, [maps[n] EXCEPT !.live = TRUE,
               !.evidence = ReplaceEvidence(@, Accepted(s, ev), ev, m.attempt)])
        /\ UNCHANGED <<tick, inbox, msgs, online, stale, drawn, made, lost, crashes>>

\* The evidence is taken in score order up to the first nonce refused; the
\* proposal is stored only when none is.
EvidencePrefix(s, m) ==
    {id \in Holders(m.evidence) : \A j \in Holders(m.evidence) \ Accepted(s, m.evidence) :
        Score[m.ctx.seed][id] < Score[m.ctx.seed][j]}

\* m_pending_contexts keeps one proposal per proposer, up to the cap.
StoreProposal(C, m) ==
    LET kept == {c \in C : c.proposer # m.proposer}
    IN  IF Cardinality(kept) >= MaxProposals THEN kept
        ELSE {c \in kept : c.ctx # m.ctx} \cup {m}

IngestRemoteContext(n, m) ==
    LET s == LazySession(n)
        P == EvidencePrefix(s, m)
    IN  /\ m.type = "context" /\ n \in online /\ Unlocked(n)
        /\ maps[n].seeded => m.ctx.seed = maps[n].seed
        /\ m.attempt = s.attempt
        /\ SetSess(n, AddNonceEvidence(s, m.evidence))
        /\ SetMaps(n, [maps[n] EXCEPT !.live = TRUE,
               !.evidence = ReplaceEvidence(@, P, m.evidence, m.attempt),
               !.contexts = IF P = Holders(m.evidence) THEN StoreProposal(@, m) ELSE @])
        /\ UNCHANGED <<tick, inbox, msgs, online, stale, drawn, made, lost, crashes>>

\* IngestRemotePartialSig, first look: apply it (and aggregate) if it fits.
IngestRemotePartialSig(n, m, ok) ==
    LET s == LazySession(n)
        t == AddPartialSignatureVerified(s, m.sig)
    IN  /\ m.type = "psig" /\ n \in online /\ Unlocked(n)
        /\ m.attempt = s.attempt
        /\ SetMaps(n, [maps[n] EXCEPT !.live = TRUE])
        /\ IF Applies(s, m)
           THEN SetSess(n, AggregateSignature(t, ok)) /\ UNCHANGED inbox
           ELSE SetSess(n, s) /\ inbox' = [inbox EXCEPT ![n] = {m}]
        /\ UNCHANGED <<tick, msgs, online, stale, drawn, made, lost, crashes>>

\* Mutant: an early signature is dropped.
BufferPendingPartialSig_Drops(B, p) == B

\* BufferPendingPartialSig and its three caps.
BufferPendingPartialSig(B, p) ==
    LET same == {q \in B : q.ctx = p.ctx}
        others == {q \in B : ~ (q.ctx = p.ctx /\ q.sig.oracle = p.sig.oracle)}
    IN  IF \/ Cardinality(others) < Cardinality(B)
           \/ /\ Cardinality(B) < MaxPendingPerEpoch
              /\ Cardinality(same) < MaxPendingPerContext
              /\ same # {} \/ Cardinality({q.ctx : q \in B}) < MaxPendingContexts
        THEN others \cup {p}
        ELSE B

\* Second look, m_sessions_mutex still held: buffer it unless the session is
\* past collecting by now.
BufferOrDrop(n) ==
    LET early == sess[n].state \notin {"SIGNING", "COMPLETE", "FAILED"}
    IN  /\ inbox[n] # {}
        /\ \E p \in inbox[n] :
             /\ SetMaps(n, [maps[n] EXCEPT !.pending =
                    IF early THEN BufferPendingPartialSig(@, p) ELSE @])
             /\ lost' = IF ~ early /\ Applies(sess[n], p) THEN lost \cup {p} ELSE lost
        /\ inbox' = [inbox EXCEPT ![n] = {}]
        /\ UNCHANGED <<sess, tick, msgs, online, stale, drawn, made, crashes>>

-----------------------------------------------------------------------------
(* The environment.                                                        *)

\* The price messages behind a proposed value become too old.
Expire(v) ==
    /\ v \notin stale
    /\ stale' = stale \cup {v}
    /\ UNCHANGED <<sess, maps, tick, inbox, msgs, online, drawn, made, lost, crashes>>

\* A node loses its last peer or gets one again.
Toggle(n) ==
    /\ n \in Flaky
    /\ online' = IF n \in online THEN online \ {n} ELSE online \cup {n}
    /\ UNCHANGED <<sess, maps, tick, inbox, msgs, stale, drawn, made, lost, crashes>>

\* The process restarts: everything the orchestrator holds is in memory only.
Crash(n) ==
    /\ crashes < MaxCrashes
    /\ crashes' = crashes + 1
    /\ SetSess(n, NewSession(0, 0))
    /\ SetMaps(n, NoMaps)
    /\ SetTick(n, Idle(tick[n].height))
    /\ inbox' = [inbox EXCEPT ![n] = {}]
    /\ UNCHANGED <<msgs, online, stale, drawn, made, lost>>

TickStep(n) ==
    \/ Resend(n) \/ StepGenerateNonce(n) \/ StepStoreNonce(n) \/ StepSendNonce(n)
    \/ StepNoncesDone(n) \/ StepWait(n) \/ StepChoose(n) \/ StepNoContext(n)
    \/ \E id \in Oracles, v \in Values : StepPropose(n, id, v)
    \/ StepSendContext(n) \/ StepTrim(n)
    \/ \E ok \in LibResults : StepBind(n, ok) \/ StepSign(n, ok) \/ StepFinish(n, ok)
    \/ StepSendPsig(n) \/ StepSignDone(n) \/ StepDrain(n)

Ingest(n) ==
    \E m \in msgs : \/ IngestRemoteNonce(n, m)
                    \/ IngestRemoteContext(n, m)
                    \/ \E ok \in LibResults : IngestRemotePartialSig(n, m, ok)

NewBlock(n) == \E d \in ReorgDepths, sd \in ChainSeeds : BlockConnected(n, d, sd)

Environment == (\E v \in Values : Expire(v)) \/ (\E n \in Nodes : Toggle(n))

NodeStep(n) == NewBlock(n) \/ TickStep(n) \/ Ingest(n) \/ BufferOrDrop(n)

\* One life of every process, and lives cut short by restarts.
Next == Environment \/ \E n \in Nodes : NodeStep(n)
NextWithCrashes == Next \/ \E n \in Nodes : Crash(n)

Spec == Init /\ [][Next]_vars
CrashSpec == Init /\ [][NextWithCrashes]_vars

-----------------------------------------------------------------------------
(* Properties.                                                             *)

TypeOK ==
    /\ sess \in [Nodes -> Session]
    /\ maps \in [Nodes -> Maps]
    /\ tick \in [Nodes -> Tick]
    /\ inbox \in [Nodes -> SUBSET PsigMsg]
    /\ msgs \subseteq NonceMsg \cup ContextMsg \cup PsigMsg
    /\ online \subseteq Nodes
    /\ stale \subseteq Values
    /\ drawn \in SUBSET NonceMsg
    /\ made \subseteq PartialSig
    /\ lost \subseteq PsigMsg
    /\ crashes \in Nat

\* What a completed session hands to the miner (GetCompletedSession: aggregate
\* signature, participation bitmap, signed price and timestamp) passes the
\* validator: the aggregate is over exactly the bitmap's oracles, their keys
\* and nonces, and the values the bundle will carry ("must match for
\* verification", signing_orchestrator.cpp:1345).
CompletedBundleVerifies ==
    \A n \in Nodes : sess[n].state = "COMPLETE" =>
        IsValidAggregate(sess[n].agg, Signers(sess[n].psigs), sess[n].signed)

\* A secret nonce signs at most one message under one key set and one set of
\* nonces, over all attempts and restarts: CreatePartialSignature erases it and
\* a restarted attempt generates a new one.
NonceSignsOnce ==
    \A p, q \in made : p.nonce = q.nonce => p = q

\* Every map of an epoch belongs to the attempt the epoch is in: a restart of
\* the attempt leaves nothing of the old one behind, and no handler lets a
\* message of another attempt in.
AttemptCoherence ==
    \A n \in Nodes :
        LET m == maps[n]
        IN  /\ m.attempt < MaxAttempts
            /\ m.live => sess[n].attempt = m.attempt
            /\ \A x \in m.evidence \cup m.contexts \cup m.pending \cup m.unsentPsigs :
                   x.attempt = m.attempt

\* A nonce of ours that is marked as generated has reached a peer or is still
\* held, and what is held is the nonce the session signs with
\* (signing_orchestrator.h:192-196).
OwnNonceOutOrHeld ==
    \A n \in Nodes : \A id \in maps[n].nonceTracker :
        \E e \in maps[n].evidence :
            /\ e.oracle = id
            /\ e \in msgs \/ id \in maps[n].unsentNonces
            /\ sess[n].sec[id] \in {0, e.nonce}
            /\ sess[n].pub[id] \in {0, e.nonce}

\* A partial signature of ours cannot be made again, so once it is marked as
\* broadcast it has reached a peer or is held for the next tick
\* (signing_orchestrator.h:204-207).
OwnPsigOutOrHeld ==
    \A n \in Nodes : \A id \in maps[n].psigTracker :
        \E p \in msgs \cup maps[n].unsentPsigs :
            /\ p.type = "psig"
            /\ p.sig.oracle = id /\ p.ctx = sess[n].ctx

\* After a local oracle has proposed, some proposal of this attempt has reached
\* a peer or ours is offered again by the next tick: a proposal that was made
\* while no peer was connected is not forgotten (signing_orchestrator.h:198-202).
OwnContextOutOrHeld ==
    \A n \in Nodes : maps[n].ctxTracker # {} /\ tick[n].pc # "sendctx" =>
        \/ \E c \in msgs : c.type = "context" /\ c.attempt = maps[n].attempt
        \/ HeldContexts(maps[n]) # {}

\* When the threshold is a majority of the roster, two nodes that complete the
\* same attempt have signed the same context: an oracle signs one context per
\* attempt, so the two committees would have to be disjoint.
AttemptAgreement ==
    \A m, n \in Nodes :
        (/\ 2 * MinSigners > Cardinality(Oracles)
         /\ sess[m].state = "COMPLETE" /\ sess[n].state = "COMPLETE"
         /\ sess[m].attempt = sess[n].attempt)
        => sess[m].ctx = sess[n].ctx

\* What nodes and messages hide: the signatures made, and the statement whose
\* aggregate signature a node hands to the miner.
Promise == INSTANCE ThresholdSignature WITH
    signed <- {[oracle |-> p.oracle, on |-> p.bound] : p \in made},
    held <- [n \in Nodes |-> IF sess[n].state = "COMPLETE" THEN {sess[n].bound} ELSE {}]

\* The ceremony implements the abstract threshold signature: whatever attempts,
\* proposals, buffered and late messages did, a node completes at most once, and
\* only when every member of the committee in the participation bitmap has made
\* its signature, each with a nonce of its own (GetCompletedSession).
ImplementsThresholdSignature == Promise!Spec

\* A partial signature that arrives before the node signs is buffered, so that
\* faster peers' signatures are not lost (signing_orchestrator.cpp:416-419).
EarlyPsigNotLost == lost = {}
=============================================================================
