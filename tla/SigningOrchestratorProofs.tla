---------------------- MODULE SigningOrchestratorProofs ----------------------
(***************************************************************************)
(* What holds of the ceremony of one epoch for any number of nodes,        *)
(* oracles, attempts and heights: its types and that no secret nonce signs *)
(* twice, whatever restarts there are; and in one life of every process,   *)
(* with any forks and any results of the library calls, that what a        *)
(* completed session hands to the miner verifies.                          *)
(***************************************************************************)
EXTENDS SigningOrchestrator, FiniteSetTheorems, TLAPS

\* Most steps are first-order reasoning, which Zenon does; the others name SMT.
USE Zenon

-----------------------------------------------------------------------------
(* One session: what every operation of it preserves, its type and the     *)
(* relation between its nonces, its key set, its binding and its partial   *)
(* signatures (SessionInv).                                                *)
-----------------------------------------------------------------------------
\* A nonce map with the entries outside P dropped is a nonce map.
LEMMA KeepType ==
    ASSUME NEW m \in NonceMap, NEW P
    PROVE  Keep(m, P) \in NonceMap
  BY DEF Keep, NonceMap

\* The constructor makes a session.
LEMMA NewSessionType ==
    ASSUME NEW attempt \in Nat, NEW height \in Int
    PROVE  NewSession(attempt, height) \in Session
  BY SessionAssumption
  DEF NewSession, Session, SessionStates, NonceMap, NoNonces, NoBinding, Binding, NoContext, Context

\* Each operation of round 1 returns a session.
LEMMA NonceOpsType ==
    ASSUME NEW s \in Session, NEW id \in Oracles, NEW nonce \in Nat,
           NEW keys \in SUBSET Oracles, NEW sd \in Seeds
    PROVE  /\ InitializePassive(s, keys) \in Session
           /\ GenerateNonce(s, id, keys, nonce) \in Session
           /\ AddPubnonce(s, id, nonce) \in Session
           /\ SetEpochSelectionSeed(s, sd) \in Session
           /\ SetKeyAggCache(s, keys) \in Session
  BY DEF InitializePassive, GenerateNonce, AddPubnonce, SetEpochSelectionSeed,
         SetKeyAggCache, Session, SessionStates, NonceMap

\* Freezing the participants and binding the message returns a session.
LEMMA BindOpsType ==
    ASSUME NEW s \in Session, NEW P \in SUBSET Oracles, NEW v \in Values \cup {0},
           NEW ok \in BOOLEAN
    PROVE  /\ SetSignedValues(s, v) \in Session
           /\ TrimNoncesToParticipants(s, P) \in Session
           /\ ContextFor(s, P, v) \in Context
           /\ AggregateNonces(s, v, ok) \in Session
  <1>1. SetSignedValues(s, v) \in Session
    BY DEF SetSignedValues, Session
  <1>2. Keep(s.pub, P) \in NonceMap /\ Keep(s.pub, Holders(s.pub)) \in NonceMap
    BY KeepType DEF Session
  <1>3. TrimNoncesToParticipants(s, P) \in Session
    BY <1>2 DEF TrimNoncesToParticipants, Session
  <1>4. ContextFor(s, P, v) \in Context /\ ContextFor(s, Holders(s.pub), v) \in Context
    BY <1>2 DEF ContextFor, Context, Session
  <1>5. AggregateNonces(s, v, ok) \in Session
    BY <1>4 DEF AggregateNonces, Session, SessionStates, Binding
  <1> QED BY <1>1, <1>3, <1>4, <1>5

\* Each operation of round 2 returns a session or a partial signature.
LEMMA SignOpsType ==
    ASSUME NEW s \in Session, NEW id \in Oracles, NEW p \in PartialSig,
           NEW ok \in BOOLEAN, NEW height \in Int
    PROVE  /\ SignatureOf(s, id) \in PartialSig
           /\ ConsumeNonce(s, id) \in Session
           /\ AddPartialSignature(s, p) \in Session
           /\ AddPartialSignatureVerified(s, p) \in Session
           /\ AggregateSignature(s, ok) \in Session
           /\ CheckTimeout(s, height) \in Session
  BY DEF SignatureOf, ConsumeNonce, AddPartialSignature, AddPartialSignatureVerified,
         AggregateSignature, CheckTimeout, Session, SessionStates, PartialSig, NonceMap, NoNonces

-----------------------------------------------------------------------------
CollectingStates == {"CREATED", "NONCES_COLLECTING", "NONCES_COMPLETE"}
SignedStates == {"SIGNING", "COMPLETE"}

\* What holds of a session between two calls, when the caller freezes exactly
\* MinSigners participants and hands AggregateNonces the values it has stored.
\* The participants are frozen at the threshold; before SIGNING no partial
\* signature is stored; from SIGNING on the binding and the context are those
\* of the stored nonces, keys and values and every stored signature verifies
\* under the binding.
SessionInv(s) ==
    /\ s.frozen => Cardinality(Holders(s.pub)) = MinSigners
    /\ s.state \in CollectingStates => s.psigs = {}
    /\ s.state \in SignedStates =>
         /\ s.frozen
         /\ s.keys = Holders(s.pub)
         /\ s.bound = [nonces |-> s.pub, msg |-> s.signed, keys |-> s.keys]
         /\ s.ctx = [attempt |-> s.attempt, seed |-> s.ctx.seed,
                     msg |-> s.signed, nonces |-> s.pub]
         /\ \A p \in s.psigs : s.pub[p.oracle] # 0 /\ Verifies(s, p)
    /\ s.state = "COMPLETE" => s.agg = s.psigs /\ HasEnoughPartialSigs(s)

\* A new session has the invariant.
LEMMA NewSessionInv ==
    ASSUME NEW attempt, NEW height
    PROVE  SessionInv(NewSession(attempt, height))
  BY DEF NewSession, SessionInv, CollectingStates, SignedStates

\* Round 1 keeps the invariant: nothing it changes is changed once frozen.
LEMMA NonceOpsInv ==
    ASSUME NEW s \in Session, SessionInv(s), NEW id \in Oracles, NEW nonce \in Nat,
           NEW keys \in SUBSET Oracles, NEW sd \in Seeds
    PROVE  /\ SessionInv(InitializePassive(s, keys))
           /\ SessionInv(GenerateNonce(s, id, keys, nonce))
           /\ SessionInv(AddPubnonce(s, id, nonce))
           /\ SessionInv(SetEpochSelectionSeed(s, sd))
  BY DEF InitializePassive, GenerateNonce, CanGenerateNonce, AddPubnonce, CanAddPubnonce,
         SetEpochSelectionSeed, SessionInv, Session, CollectingStates, SignedStates,
         Verifies, HasEnoughPartialSigs

\* Storing the values, freezing MinSigners participants and aggregating their
\* keys keeps the invariant while the session is not bound.
LEMMA TrimInv ==
    ASSUME NEW s \in Session, SessionInv(s), s.state = "NONCES_COMPLETE",
           NEW P \in SUBSET Oracles, Cardinality(P) = MinSigners, NEW v \in Values \cup {0}
    PROVE  LET t == SetSignedValues(s, v)
               u == TrimNoncesToParticipants(t, P)
           IN  /\ SessionInv(t)
               /\ SessionInv(SetKeyAggCache(u, Holders(u.pub)))
  <1> DEFINE t == SetSignedValues(s, v)
             u == TrimNoncesToParticipants(t, P)
             w == SetKeyAggCache(u, Holders(u.pub))
  <1>1. SessionInv(t) /\ t \in Session /\ t.pub = s.pub /\ t.state = "NONCES_COMPLETE"
    BY BindOpsType DEF SetSignedValues, SessionInv, Session, CollectingStates, SignedStates
  <1>2. CASE ~ CanTrim(t, P)
    <2>1. u = t  BY <1>2 DEF TrimNoncesToParticipants
    <2> QED BY <1>1, <2>1 DEF SetKeyAggCache, SessionInv, Session, CollectingStates, SignedStates
  <1>3. CASE CanTrim(t, P)
    <2>1. Holders(Keep(t.pub, P)) = P
      BY <1>1, <1>3 DEF CanTrim, Holders, Keep, Session, NonceMap
    <2>2. u.pub = Keep(t.pub, P) /\ u.state = "NONCES_COMPLETE" /\ u.psigs = t.psigs
      BY <1>1, <1>3 DEF TrimNoncesToParticipants, Session
    <2>3. w.pub = u.pub /\ w.state = "NONCES_COMPLETE" /\ w.psigs = t.psigs
      BY <1>1, <1>3, <2>2 DEF SetKeyAggCache, TrimNoncesToParticipants, Session
    <2> QED BY <1>1, <2>1, <2>2, <2>3 DEF SessionInv, CollectingStates, SignedStates
  <1> QED BY <1>1, <1>2, <1>3

\* AggregateNonces of a frozen session, with the participants' keys and the
\* stored values, keeps the invariant.
LEMMA BindInv ==
    ASSUME NEW s \in Session, SessionInv(s), s.frozen, s.keys = Holders(s.pub),
           NEW ok \in BOOLEAN
    PROVE  SessionInv(AggregateNonces(s, s.signed, ok))
  <1>1. Keep(s.pub, Holders(s.pub)) = s.pub
    BY DEF Keep, Holders, Session, NonceMap
  <1>2. ContextFor(s, Holders(s.pub), s.signed) =
            [attempt |-> s.attempt, seed |-> s.seed, msg |-> s.signed, nonces |-> s.pub]
    BY <1>1 DEF ContextFor
  <1> QED BY <1>2, SMT DEF AggregateNonces, SessionInv, Session, CollectingStates, SignedStates, HasEnoughPartialSigs, Verifies

\* Signing with the nonce the session has published keeps the invariant.
LEMMA SignInv ==
    ASSUME NEW s \in Session, SessionInv(s), NEW id \in Oracles, CanSign(s, id),
           s.sec[id] = s.pub[id]
    PROVE  /\ SessionInv(ConsumeNonce(s, id))
           /\ SessionInv(AddPartialSignature(ConsumeNonce(s, id), SignatureOf(s, id)))
  <1> DEFINE t == ConsumeNonce(s, id)
             p == SignatureOf(s, id)
  <1>1. t.pub = s.pub /\ t.keys = s.keys /\ t.bound = s.bound /\ t.psigs = s.psigs
        /\ t.state = "SIGNING" /\ t.signed = s.signed /\ t.frozen = s.frozen /\ t \in Session
        /\ t.ctx = s.ctx /\ t.attempt = s.attempt
    BY DEF ConsumeNonce, CanSign, Session, NonceMap
  <1>2. SessionInv(t)
    BY <1>1, SMT DEF SessionInv, CanSign, CollectingStates, SignedStates, Verifies
  <1>3. Verifies(t, p) /\ t.pub[p.oracle] # 0
    BY <1>1 DEF Verifies, SignatureOf, CanSign
  <1>4. SessionInv([t EXCEPT !.psigs = t.psigs \cup {p}])
    BY <1>1, <1>2, <1>3 DEF SessionInv, Verifies, Session, CollectingStates, SignedStates
  <1> QED BY <1>2, <1>4 DEF AddPartialSignature

\* Taking in signatures that verify, aggregating and timing out keep it too.
LEMMA CollectInv ==
    ASSUME NEW s \in Session, SessionInv(s), NEW S \in SUBSET PartialSig,
           \A p \in S : CanAddPartial(s, p) /\ Verifies(s, p)
    PROVE  LET t == [s EXCEPT !.psigs = s.psigs \cup S] IN t \in Session /\ SessionInv(t)
  <1> DEFINE t == [s EXCEPT !.psigs = s.psigs \cup S]
  <1>1. t \in Session  BY DEF Session
  <1>2. CASE S = {}
    BY <1>1, <1>2 DEF SessionInv, Verifies, Session, CollectingStates, SignedStates, HasEnoughPartialSigs
  <1>3. CASE S # {}
    <2>1. s.state = "SIGNING"  BY <1>3 DEF CanAddPartial
    <2> QED BY <1>1, <2>1 DEF SessionInv, Verifies, CanAddPartial, Session, CollectingStates, SignedStates
  <1> QED BY <1>2, <1>3

\* Aggregating and timing out keep it.
LEMMA AggregateInv ==
    ASSUME NEW s \in Session, SessionInv(s), NEW ok \in BOOLEAN, NEW height \in Int
    PROVE  SessionInv(AggregateSignature(s, ok)) /\ SessionInv(CheckTimeout(s, height))
  BY DEF AggregateSignature, CheckTimeout, SessionInv, Verifies, Session, SessionStates,
         CollectingStates, SignedStates, HasEnoughPartialSigs

-----------------------------------------------------------------------------
\* A completed session whose invariant holds yields a bundle that the validator
\* accepts: its signatures are one of each participant, so the participation
\* bitmap is the frozen set, and the key set, the nonces and the message they
\* are bound to are that set's and the stored values.
THEOREM CompleteIsValid ==
    ASSUME NEW s \in Session, SessionInv(s), s.state = "COMPLETE"
    PROVE  IsValidAggregate(s.agg, Signers(s.psigs), s.signed)
  <1> DEFINE H == Holders(s.pub)
             I == Signers(s.psigs)
             f == [p \in s.psigs |-> p.oracle]
  <1>1. /\ s.agg = s.psigs /\ Cardinality(s.psigs) >= MinSigners
        /\ s.keys = H /\ Cardinality(H) = MinSigners
        /\ s.bound = [nonces |-> s.pub, msg |-> s.signed, keys |-> s.keys]
        /\ \A p \in s.psigs : s.pub[p.oracle] # 0 /\ p.nonce = s.pub[p.oracle]
                              /\ p.keys = s.keys /\ p.bound = s.bound
    BY DEF SessionInv, SignedStates, Verifies, HasEnoughPartialSigs
  <1>2. \A p \in s.psigs : p \in PartialSig
    BY DEF Session
  <1>3. I \subseteq H
    BY <1>1, <1>2 DEF Signers, Holders, PartialSig
  <1>4. IsFiniteSet(H)
    BY SessionAssumption, FS_Subset DEF Holders
  <1>5. IsFiniteSet(I) /\ Cardinality(I) <= Cardinality(H)
    BY <1>3, <1>4, FS_Subset
  <1>6. f \in Injection(s.psigs, I)
    <2>1. f \in [s.psigs -> I]  BY DEF Signers
    <2>2. ASSUME NEW p \in s.psigs, NEW q \in s.psigs, f[p] = f[q] PROVE p = q
      BY <1>1, <1>2, <2>2, SMT DEF PartialSig
    <2> QED BY <2>1, <2>2 DEF Injection, IsInjective
  <1>7. IsFiniteSet(s.psigs) /\ Cardinality(s.psigs) <= Cardinality(I)
    BY <1>5, <1>6, FS_Injection
  <1>8. Cardinality(I) \in Nat /\ Cardinality(s.psigs) \in Nat /\ MinSigners \in Nat /\ MinSigners >= 2
    BY <1>5, <1>7, <1>4, <1>1, SessionAssumption, FS_CardinalityType, SMT
  <1>9. Cardinality(I) = Cardinality(H)
    BY <1>1, <1>5, <1>7, <1>8, SMT
  <1>10. I = H
    BY <1>3, <1>4, <1>9, FS_Subset
  <1>11. s.psigs # {}
    BY <1>1, <1>8, FS_EmptySet, SMT
  <1>12. s.bound \in {p.bound : p \in s.psigs}
    BY <1>1, <1>11
  <1> QED BY <1>1, <1>10, <1>12, SMT DEF IsValidAggregate

-----------------------------------------------------------------------------
(* The ceremony.                                                           *)
-----------------------------------------------------------------------------

\* A loop over the local ids has an id to work on.
InLoop(n) == tick[n].pc \in {"add", "sendnonce", "sendsig"} => tick[n].todo # {}

TypeInv == TypeOK /\ IsFiniteSet(drawn) /\ \A n \in Nodes : InLoop(n)

-----------------------------------------------------------------------------
\* The id a loop works on is one of those it has to do.
LEMMA NextIdType ==
    ASSUME NEW n \in Nodes, tick[n].todo # {}
    PROVE  NextId(n) \in tick[n].todo
  BY DEF NextId

\* A fresh session: its type and what is empty in it.
LEMMA FreshSessionType ==
    ASSUME NEW m \in Maps, NEW attempt \in Nat, NEW height \in Int
    PROVE  /\ FreshSession(m, attempt, height) \in Session
           /\ FreshSession(m, attempt, height).attempt = attempt
           /\ FreshSession(m, attempt, height).sec = NoNonces
           /\ FreshSession(m, attempt, height).pub = NoNonces
           /\ SessionInv(FreshSession(m, attempt, height))
  <1> DEFINE s == NewSession(attempt, height)
  <1>1. s \in Session /\ SessionInv(s) /\ s.attempt = attempt /\ s.sec = NoNonces /\ s.pub = NoNonces
    BY NewSessionType, NewSessionInv DEF NewSession
  <1>2. m.seed \in Seeds  BY DEF Maps
  <1>3. SetEpochSelectionSeed(s, m.seed) \in Session /\ SessionInv(SetEpochSelectionSeed(s, m.seed))
    BY <1>1, <1>2 DEF SetEpochSelectionSeed, SessionInv, Session, Verifies, HasEnoughPartialSigs,
                      SignedStates, CollectingStates
  <1> QED BY <1>1, <1>3 DEF FreshSession, SetEpochSelectionSeed, NewSession

\* The session a handler works on is a session.
LEMMA LazySessionType ==
    ASSUME TypeOK, NEW n \in Nodes
    PROVE  LazySession(n) \in Session
  <1>1. maps[n] \in Maps /\ maps[n].attempt \in Nat /\ sess[n] \in Session /\ EpochStart \in Int
    BY OrchestratorAssumption, SMT DEF TypeOK, Maps
  <1> QED BY <1>1, FreshSessionType DEF LazySession

\* Taking in nonce evidence: what it returns and what it leaves alone.
LEMMA EvidenceType ==
    ASSUME NEW s \in Session, NEW ev \in NonceMap
    PROVE  LET u == AddNonceEvidence(s, ev)
           IN  /\ u \in Session
               /\ u.attempt = s.attempt /\ u.sec = s.sec /\ u.frozen = s.frozen
               /\ u.signed = s.signed /\ u.psigs = s.psigs /\ u.ctx = s.ctx
               /\ \A id \in Oracles : u.pub[id] \in {s.pub[id], ev[id]}
               /\ s.frozen => u.pub = s.pub
               /\ s.state = "NONCES_COMPLETE" => u.state = s.state /\ u.keys = s.keys
               /\ s.state \in {"SIGNING", "COMPLETE", "FAILED"} => u = s
  <1> DEFINE t == InitializePassive(s, Oracles)
             u == [t EXCEPT !.pub = [id \in Oracles |->
                     IF ev[id] # 0 /\ CanAddPubnonce(t, id) THEN ev[id] ELSE t.pub[id]]]
  <1>1. /\ t \in Session /\ t.pub = s.pub /\ t.frozen = s.frozen /\ t.attempt = s.attempt
        /\ t.sec = s.sec /\ t.signed = s.signed /\ t.psigs = s.psigs /\ t.ctx = s.ctx
        /\ s.state # "CREATED" => t = s
        /\ s.state = "CREATED" => t.state = "NONCES_COLLECTING"
    BY DEF InitializePassive, Session, SessionStates
  <1>2. /\ u \in Session /\ u.frozen = s.frozen /\ u.attempt = s.attempt /\ u.state = t.state
        /\ u.sec = s.sec /\ u.signed = s.signed /\ u.psigs = s.psigs /\ u.keys = t.keys /\ u.ctx = s.ctx
        /\ \A id \in Oracles : u.pub[id] \in {s.pub[id], ev[id]}
    BY <1>1 DEF Session, NonceMap
  <1>3. s.frozen \/ s.state \in {"SIGNING", "COMPLETE", "FAILED"} => u = t
    BY <1>1, SMT DEF CanAddPubnonce, Session, NonceMap
  <1>4. AddNonceEvidence(s, ev) = u \/
        (u.pub # t.pub /\ AddNonceEvidence(s, ev) = [u EXCEPT !.state = "NONCES_COMPLETE"])
    BY DEF AddNonceEvidence
  <1>5. CASE AddNonceEvidence(s, ev) = u
    BY <1>1, <1>2, <1>3, <1>5
  <1>6. CASE u.pub # t.pub /\ AddNonceEvidence(s, ev) = [u EXCEPT !.state = "NONCES_COMPLETE"]
    <2> DEFINE w == [u EXCEPT !.state = "NONCES_COMPLETE"]
    <2>1. /\ w \in Session /\ w.frozen = u.frozen /\ w.attempt = u.attempt
          /\ w.state = "NONCES_COMPLETE"
          /\ w.sec = u.sec /\ w.signed = u.signed /\ w.psigs = u.psigs /\ w.keys = u.keys
          /\ w.pub = u.pub /\ w.ctx = u.ctx
      BY <1>2 DEF Session, SessionStates
    <2>2. ~ s.frozen /\ s.state \notin {"SIGNING", "COMPLETE", "FAILED"}
      BY <1>3, <1>6
    <2>3. s.state = "NONCES_COMPLETE" => t = s
      BY <1>1
    <2> HIDE DEF w, u, t
    <2> QED BY <1>2, <1>6, <2>1, <2>2, <2>3 DEF w
  <1> HIDE DEF u, t
  <1> QED BY <1>4, <1>5, <1>6

-----------------------------------------------------------------------------
(* Type correctness, one lemma per group of actions.                       *)

\* The initial state is well typed.
LEMMA TypeInit == Init => TypeInv
  <1> SUFFICES ASSUME Init PROVE TypeInv  OBVIOUS
  <1>1. NewSession(0, 0) \in Session  BY NewSessionType, SMT
  <1>2. NoMaps \in Maps  BY SessionAssumption DEF NoMaps, Maps
  <1>3. Idle(StartHeight) \in Tick /\ Idle(StartHeight).pc = "idle"
    BY OrchestratorAssumption, SMT DEF Idle, Tick, PCs
  <1> QED BY <1>1, <1>2, <1>3, FS_EmptySet DEF Init, TypeInv, TypeOK, InLoop

\* BlockConnected keeps the types.
LEMMA TypeBlock ==
    ASSUME TypeInv, NEW n \in Nodes, NEW d \in ReorgDepths, NEW sd \in ChainSeeds,
           BlockConnected(n, d, sd)
    PROVE  TypeInv'
  <1> DEFINE h == tick[n].height + 1 - d
             m == SeedMaps(maps[n], h, sd)
             s == GetOrCreate(n, m, h)
  <1>1. h \in Int /\ sd \in Seeds
    BY OrchestratorAssumption, SMT DEF TypeInv, TypeOK, Tick
  <1>2. m \in Maps
    <2>1. maps[n] \in Maps  BY DEF TypeInv, TypeOK
    <2> QED BY <1>1, <2>1 DEF SeedMaps, Maps
  <1>3. s \in Session
    <2>1. sess[n] \in Session /\ m.seed \in Seeds /\ m.attempt \in Nat
      BY <1>2 DEF TypeInv, TypeOK, Maps
    <2>2. SetEpochSelectionSeed(sess[n], m.seed) \in Session
      BY <2>1 DEF SetEpochSelectionSeed, Session
    <2>3. FreshSession(m, m.attempt, h) \in Session
      BY <1>1, <1>2, <2>1, FreshSessionType
    <2> QED BY <2>1, <2>2, <2>3 DEF GetOrCreate
  <1>4. FreshSession(m, m.attempt + 1, h) \in Session
    BY <1>1, <1>2, FreshSessionType, SMT DEF Maps
  <1>5. RestartedMaps(m) \in Maps /\ [m EXCEPT !.live = TRUE] \in Maps
    <2> HIDE DEF m
    <2>1. m.seed \in Seeds /\ m.attempt + 1 \in Nat /\ m.seeded \in BOOLEAN
      BY <1>2, SMT DEF Maps
    <2>2. RestartedMaps(m) \in Maps
      BY <2>1 DEF RestartedMaps, NoMaps, Maps
    <2> QED BY <1>2, <2>2 DEF Maps
  <1>6. /\ Idle(h) \in Tick /\ [Idle(h) EXCEPT !.pc = "resend"] \in Tick
        /\ Idle(h).pc = "idle" /\ [Idle(h) EXCEPT !.pc = "resend"].pc = "resend"
    BY <1>1 DEF Idle, Tick, PCs
  <1> HIDE DEF h, m, s
  <1>7. sess' \in [Nodes -> Session] /\ maps' \in [Nodes -> Maps] /\ tick' \in [Nodes -> Tick]
    BY <1>3, <1>4, <1>5, <1>6 DEF BlockConnected, SetTick, SetSess, SetMaps, TypeInv, TypeOK, h, m, s
  <1>8. \A k \in Nodes : InLoop(k)'
    BY <1>6 DEF BlockConnected, SetTick, TypeInv, TypeOK, InLoop, h, m, s
  <1> QED BY <1>7, <1>8 DEF BlockConnected, TypeInv, TypeOK

\* Resending and the loop of Step 1 keep the types.
LEMMA TypeNonces ==
    ASSUME TypeInv, NEW n \in Nodes,
           \/ Resend(n) \/ StepGenerateNonce(n) \/ StepStoreNonce(n) \/ StepSendNonce(n)
           \/ StepNoncesDone(n)
    PROVE  TypeInv'
  <1>1. /\ sess[n] \in Session /\ maps[n] \in Maps /\ tick[n] \in Tick /\ Local[n] \subseteq Oracles
        /\ maps[n].seed \in Seeds
    BY OrchestratorAssumption DEF TypeInv, TypeOK, Maps
  <1>2. CASE Resend(n)
    <2>1. IF maps[n].seeded THEN SetEpochSelectionSeed(sess[n], maps[n].seed) \in Session
          ELSE sess[n] \in Session
      BY <1>1 DEF SetEpochSelectionSeed, Session
    <2>2. HeldNonces(maps[n]) \subseteq NonceMsg /\ HeldContexts(maps[n]) \subseteq ContextMsg
          /\ HeldPsigs(maps[n]) \subseteq PsigMsg
      BY <1>1 DEF HeldNonces, HeldContexts, HeldPsigs, Maps
    <2>3. {e.oracle : e \in HeldNonces(maps[n])} \subseteq Oracles
          /\ {c.ctx : c \in HeldContexts(maps[n])} \subseteq Context
      BY <2>2 DEF NonceMsg, ContextMsg
    <2>4. msgs' \subseteq NonceMsg \cup ContextMsg \cup PsigMsg
      BY <1>2, <2>2 DEF Resend, Broadcast, TypeInv, TypeOK
    <2>5. maps' \in [Nodes -> Maps]
      BY <1>1, <1>2, <2>2, <2>3 DEF Resend, SetMaps, TypeInv, TypeOK, Maps
    <2>6. sess' \in [Nodes -> Session]
      BY <1>2, <2>1 DEF Resend, SetSess, TypeInv, TypeOK
    <2>7. tick' \in [Nodes -> Tick] /\ \A k \in Nodes : InLoop(k)'
      BY <1>1, <1>2 DEF Resend, SetTick, TypeInv, TypeOK, Tick, PCs, InLoop
    <2> QED BY <1>2, <2>4, <2>5, <2>6, <2>7 DEF Resend, TypeInv, TypeOK
  <1>3. CASE StepGenerateNonce(n)
    <2> DEFINE id == NextId(n)
               x == Cardinality(drawn) + 1
    <2>1. id \in tick[n].todo /\ id \in Oracles
      BY <1>1, <1>3, NextIdType DEF StepGenerateNonce, Tick
    <2>2. x \in Nat  BY FS_CardinalityType, SMT DEF TypeInv
    <2>3. GenerateNonce(sess[n], id, Oracles, x) \in Session
      BY <1>1, <2>1, <2>2 DEF GenerateNonce, Session, SessionStates, NonceMap
    <2>4. NonceRec(sess[n].attempt, id, x) \in NonceMsg
      BY <1>1, <2>1, <2>2 DEF NonceRec, NonceMsg, Session
    <2>5. drawn' \subseteq NonceMsg /\ IsFiniteSet(drawn')
      BY <1>3, <2>4, FS_AddElement, SMT DEF StepGenerateNonce, TypeInv, TypeOK
    <2>6. sess' \in [Nodes -> Session]
      BY <1>3, <2>3 DEF StepGenerateNonce, SetSess, TypeInv, TypeOK
    <2>7. tick' \in [Nodes -> Tick] /\ \A k \in Nodes : InLoop(k)'
      <3>1. \/ SetTick(n, [tick[n] EXCEPT !.pc = "add"])
            \/ SetTick(n, [tick[n] EXCEPT !.todo = Done(n)])
        BY <1>3 DEF StepGenerateNonce, Goto
      <3>2. tick[n].pc = "gen" /\ tick[n].todo # {}
        BY <1>3 DEF StepGenerateNonce
      <3>3. [tick[n] EXCEPT !.pc = "add"] \in Tick
        BY <1>1 DEF Tick, PCs
      <3>4. [tick[n] EXCEPT !.todo = Done(n)] \in Tick
        BY <1>1 DEF Tick, Done
      <3> QED BY <1>1, <3>1, <3>2, <3>3, <3>4, SMTT(30) DEF SetTick, TypeInv, TypeOK, Tick, InLoop
    <2> QED BY <1>3, <2>5, <2>6, <2>7 DEF StepGenerateNonce, TypeInv, TypeOK
  <1>4. CASE StepStoreNonce(n)
    <2> DEFINE id == NextId(n)
               x == sess[n].sec[id]
    <2>1. id \in tick[n].todo /\ id \in Oracles
      BY <1>1, <1>4, NextIdType DEF StepStoreNonce, Tick, TypeInv, InLoop
    <2>2. x \in Nat  BY <1>1, <2>1 DEF Session, NonceMap
    <2>3. AddPubnonce(sess[n], id, x) \in Session
      BY <1>1, <2>1, <2>2 DEF AddPubnonce, Session, SessionStates, NonceMap
    <2>4. NonceRec(sess[n].attempt, id, x) \in NonceMsg
      BY <1>1, <2>1, <2>2 DEF NonceRec, NonceMsg, Session
    <2>5. maps' \in [Nodes -> Maps]
      BY <1>1, <1>4, <2>1, <2>4 DEF StepStoreNonce, SetMaps, TypeInv, TypeOK, Maps
    <2>6. sess' \in [Nodes -> Session]
      BY <1>4, <2>3 DEF StepStoreNonce, SetSess, TypeInv, TypeOK
    <2>7. tick' \in [Nodes -> Tick] /\ \A k \in Nodes : InLoop(k)'
      BY <1>1, <1>4, <2>1 DEF StepStoreNonce, Goto, SetTick, TypeInv, TypeOK, Tick, PCs, InLoop
    <2> QED BY <1>4, <2>5, <2>6, <2>7 DEF StepStoreNonce, TypeInv, TypeOK
  <1>5. CASE StepSendNonce(n)
    <2> DEFINE id == NextId(n)
    <2>1. id \in tick[n].todo /\ id \in Oracles
      BY <1>1, <1>5, NextIdType DEF StepSendNonce, Tick, TypeInv, InLoop
    <2>2. NonceRec(sess[n].attempt, id, sess[n].sec[id]) \in NonceMsg
      BY <1>1, <2>1 DEF NonceRec, NonceMsg, Session, NonceMap
    <2>3. msgs' \subseteq NonceMsg \cup ContextMsg \cup PsigMsg
      BY <1>5, <2>2 DEF StepSendNonce, Broadcast, TypeInv, TypeOK
    <2>4. maps' \in [Nodes -> Maps]
      BY <1>1, <1>5, SMT DEF StepSendNonce, SetMaps, TypeInv, TypeOK, Maps
    <2>5. tick' \in [Nodes -> Tick] /\ \A k \in Nodes : InLoop(k)'
      BY <1>1, <1>5 DEF StepSendNonce, SetTick, Done, TypeInv, TypeOK, Tick, PCs, InLoop
    <2> QED BY <1>5, <2>3, <2>4, <2>5 DEF StepSendNonce, TypeInv, TypeOK
  <1>6. CASE StepNoncesDone(n)
    BY <1>1, <1>6 DEF StepNoncesDone, Goto, SetTick, TypeInv, TypeOK, Tick, PCs, InLoop
  <1> QED BY <1>2, <1>3, <1>4, <1>5, <1>6

\* Step 2 up to the choice of a context keeps the types.
LEMMA TypeConverge ==
    ASSUME TypeInv, NEW n \in Nodes,
           \/ StepWait(n) \/ StepChoose(n) \/ StepNoContext(n) \/ StepSendContext(n)
           \/ \E id \in Oracles, v \in Values : StepPropose(n, id, v)
    PROVE  TypeInv'
  <1>1. /\ sess[n] \in Session /\ maps[n] \in Maps /\ tick[n] \in Tick
        /\ maps[n].seed \in Seeds /\ maps[n].contexts \subseteq ContextMsg
        /\ tick[n].chosen \subseteq ContextMsg
    BY DEF TypeInv, TypeOK, Maps, Tick
  <1>2. Idle(tick[n].height) \in Tick /\ Idle(tick[n].height).pc = "idle"
    BY <1>1 DEF Idle, Tick, PCs
  <1>3. CASE StepWait(n)
    <2>1. SetEpochSelectionSeed(sess[n], maps[n].seed) \in Session
      BY <1>1 DEF SetEpochSelectionSeed, Session
    <2>2. sess' \in [Nodes -> Session]
      BY <1>1, <1>3, <2>1 DEF StepWait, SetSess, TypeInv, TypeOK
    <2> QED BY <1>2, <1>3, <2>2 DEF StepWait, Return, SetTick, TypeInv, TypeOK, InLoop
  <1>4. CASE StepChoose(n)
    <2>1. PICK c \in SelectReadyContextProposal(n) :
             SetTick(n, [tick[n] EXCEPT !.pc = "trim", !.chosen = {c}])
      BY <1>4 DEF StepChoose
    <2>2. c \in ContextMsg
      BY <1>1, <2>1 DEF SelectReadyContextProposal, ReadyProposals
    <2>3. [tick[n] EXCEPT !.pc = "trim", !.chosen = {c}] \in Tick
      BY <1>1, <2>2 DEF Tick, PCs
    <2> QED BY <1>1, <1>4, <2>1, <2>3 DEF StepChoose, SetTick, TypeInv, TypeOK, InLoop, Tick
  <1>5. CASE StepNoContext(n)
    BY <1>1, <1>5 DEF StepNoContext, Goto, SetTick, TypeInv, TypeOK, Tick, PCs, InLoop
  <1>6. CASE StepSendContext(n)
    <2>1. {c.ctx : c \in tick[n].chosen} \subseteq Context
      BY <1>1 DEF ContextMsg
    <2>2. maps' \in [Nodes -> Maps]
      BY <1>1, <1>6, <2>1 DEF StepSendContext, SetMaps, TypeInv, TypeOK, Maps
    <2>3. msgs' \subseteq NonceMsg \cup ContextMsg \cup PsigMsg
      BY <1>1, <1>6 DEF StepSendContext, Broadcast, TypeInv, TypeOK
    <2> QED BY <1>2, <1>6, <2>2, <2>3 DEF StepSendContext, Return, SetTick, TypeInv, TypeOK, InLoop
  <1>7. ASSUME NEW id \in Oracles, NEW v \in Values, StepPropose(n, id, v) PROVE TypeInv'
    <2> DEFINE P == Required(sess[n])
               E == EvidenceFor(n, P)
               ev == [j \in Oracles |->
                        IF j \in P THEN (CHOOSE e \in E : e.oracle = j).nonce ELSE 0]
               c == [type |-> "context", attempt |-> sess[n].attempt, proposer |-> id,
                     ctx |-> ContextFor(sess[n], P, v), evidence |-> ev]
    <2>1. P \in SUBSET Oracles  BY DEF Required, Holders
    <2>2. ContextFor(sess[n], P, v) \in Context
      BY <1>1, <2>1, BindOpsType
    <2>3. \A j \in P : \E e \in E : e.oracle = j
      BY <1>7 DEF StepPropose, CanBuildProposal
    <2>4. E \subseteq NonceMsg
      BY <1>1 DEF EvidenceFor, Maps
    <2>5. ev \in NonceMap
      BY <2>3, <2>4 DEF NonceMap, NonceMsg
    <2>6. c \in ContextMsg
      BY <1>1, <2>2, <2>5 DEF ContextMsg, Session
    <2> HIDE DEF c
    <2>7. SetMaps(n, [maps[n] EXCEPT
               !.contexts = {d \in maps[n].contexts : d.ctx # c.ctx} \cup {c},
               !.ctxTracker = maps[n].ctxTracker \cup {id}])
          /\ SetTick(n, [tick[n] EXCEPT !.pc = "sendctx", !.chosen = {c}])
      BY <1>7 DEF StepPropose, c
    <2>8. maps' \in [Nodes -> Maps]
      BY <1>1, <2>6, <2>7 DEF SetMaps, TypeInv, TypeOK, Maps
    <2>9. tick' \in [Nodes -> Tick] /\ \A k \in Nodes : InLoop(k)'
      BY <1>1, <2>6, <2>7 DEF SetTick, TypeInv, TypeOK, Tick, PCs, InLoop
    <2> QED BY <1>7, <2>8, <2>9 DEF StepPropose, TypeInv, TypeOK
  <1> QED BY <1>3, <1>4, <1>5, <1>6, <1>7

\* Freezing, binding and signing keep the types.
LEMMA TypeSign ==
    ASSUME TypeInv, NEW n \in Nodes, NEW ok \in BOOLEAN,
           \/ StepTrim(n) \/ StepBind(n, ok) \/ StepSign(n, ok) \/ StepSendPsig(n)
           \/ StepSignDone(n)
    PROVE  TypeInv'
  <1>1. /\ sess[n] \in Session /\ maps[n] \in Maps /\ tick[n] \in Tick
        /\ tick[n].chosen \subseteq ContextMsg /\ tick[n].out \subseteq PsigMsg
        /\ tick[n].todo \subseteq Oracles /\ Local[n] \subseteq Oracles
    BY OrchestratorAssumption DEF TypeInv, TypeOK, Tick
  <1>2. Idle(tick[n].height) \in Tick /\ Idle(tick[n].height).pc = "idle"
    BY <1>1 DEF Idle, Tick, PCs
  <1>3. \A c \in tick[n].chosen : Holders(c.ctx.nonces) \subseteq Oracles /\ c.ctx.msg \in Values \cup {0}
    BY <1>1 DEF Holders, ContextMsg, Context
  <1>4. CASE StepTrim(n)
    <2>1. PICK c \in tick[n].chosen :
             LET P == Holders(c.ctx.nonces)
                 s == SetSignedValues(sess[n], c.ctx.msg)
                 t == TrimNoncesToParticipants(s, P)
             IN  IF CanTrim(s, P)
                 THEN SetSess(n, SetKeyAggCache(t, Holders(t.pub))) /\ Goto(n, "bind")
                 ELSE SetSess(n, s) /\ Return(n)
      BY <1>4 DEF StepTrim
    <2> DEFINE P == Holders(c.ctx.nonces)
               s == SetSignedValues(sess[n], c.ctx.msg)
               t == TrimNoncesToParticipants(s, P)
    <2>2. s \in Session  BY <1>1, <1>3 DEF SetSignedValues, Session
    <2> HIDE DEF s
    <2>3. t \in Session  BY <1>3, <2>2, BindOpsType
    <2> HIDE DEF t
    <2>4. SetKeyAggCache(t, Holders(t.pub)) \in Session
      BY <2>3 DEF SetKeyAggCache, Holders, Session
    <2>5. sess' \in [Nodes -> Session]
      BY <2>1, <2>2, <2>4 DEF SetSess, TypeInv, TypeOK, s, t
    <2>6. Goto(n, "bind") \/ Return(n)  BY <2>1
    <2>7. tick' \in [Nodes -> Tick] /\ \A k \in Nodes : InLoop(k)'
      BY <1>1, <1>2, <2>6, SMT DEF Goto, Return, SetTick, TypeInv, TypeOK, Tick, PCs, InLoop
    <2> QED BY <1>4, <2>5, <2>7 DEF StepTrim, TypeInv, TypeOK
  <1>5. CASE StepBind(n, ok)
    <2>1. PICK c \in tick[n].chosen : SetSess(n, AggregateNonces(sess[n], c.ctx.msg, ok))
      BY <1>5 DEF StepBind
    <2>2. AggregateNonces(sess[n], c.ctx.msg, ok) \in Session
      BY <1>1, <1>3, BindOpsType
    <2>3. sess' \in [Nodes -> Session]
      BY <2>1, <2>2 DEF SetSess, TypeInv, TypeOK
    <2>4. tick' \in [Nodes -> Tick] /\ \A k \in Nodes : InLoop(k)'
      BY <1>1, <1>5 DEF StepBind, SetTick, TypeInv, TypeOK, Tick, PCs, InLoop
    <2> QED BY <1>5, <2>3, <2>4 DEF StepBind, TypeInv, TypeOK
  <1>6. CASE StepSign(n, ok)
    <2> DEFINE id == NextId(n)
               sig == SignatureOf(sess[n], id)
               msg == [type |-> "psig", attempt |-> sess[n].attempt, ctx |-> sess[n].ctx, sig |-> sig]
               t == ConsumeNonce(sess[n], id)
    <2>1. tick[n].pc = "sign" /\ tick[n].todo # {} /\ id \in Oracles
      BY <1>1, <1>6, NextIdType DEF StepSign
    <2>2. sig \in PartialSig
      BY <1>1, <2>1 DEF SignatureOf, PartialSig, Session, NonceMap
    <2>3. msg \in PsigMsg
      BY <1>1, <2>2 DEF PsigMsg, Session
    <2>4. t \in Session
      BY <1>1, <2>1 DEF ConsumeNonce, Session, NonceMap
    <2> HIDE DEF sig, t
    <2>5. AddPartialSignature(t, sig) \in Session
      BY <2>2, <2>4 DEF AddPartialSignature, Session
    <2> HIDE DEF msg
    <2>6. \/ /\ SetSess(n, AddPartialSignature(t, sig))
             /\ made' = made \cup {sig}
             /\ SetTick(n, [tick[n] EXCEPT !.pc = "sendsig", !.out = {msg}])
          \/ /\ SetSess(n, t) /\ UNCHANGED made
             /\ SetTick(n, [tick[n] EXCEPT !.todo = Done(n)])
          \/ /\ UNCHANGED <<sess, made>>
             /\ SetTick(n, [tick[n] EXCEPT !.todo = Done(n)])
      BY <1>1, <1>6 DEF StepSign, sig, t, msg
    <2>7. sess' \in [Nodes -> Session] /\ made' \subseteq PartialSig
      BY <2>2, <2>4, <2>5, <2>6 DEF SetSess, TypeInv, TypeOK
    <2>8. [tick[n] EXCEPT !.pc = "sendsig", !.out = {msg}] \in Tick
          /\ [tick[n] EXCEPT !.todo = Done(n)] \in Tick
      BY <1>1, <2>3 DEF Tick, PCs, Done
    <2>9. PICK t2 \in Tick : SetTick(n, t2) /\ (t2.pc = "sign" \/ t2.todo # {})
      <3>1. [tick[n] EXCEPT !.pc = "sendsig", !.out = {msg}].todo # {}
            /\ [tick[n] EXCEPT !.todo = Done(n)].pc = "sign"
        BY <1>1, <2>1 DEF Tick
      <3> QED BY <2>6, <2>8, <3>1
    <2>10. tick' \in [Nodes -> Tick] /\ \A k \in Nodes : InLoop(k)'
      BY <2>9 DEF SetTick, TypeInv, TypeOK, InLoop
    <2> QED BY <1>6, <2>7, <2>10 DEF StepSign, TypeInv, TypeOK
  <1>7. CASE StepSendPsig(n)
    <2>1. maps' \in [Nodes -> Maps]
      <3>1. NextId(n) \in Oracles
        BY <1>1, <1>7, NextIdType DEF StepSendPsig, TypeInv, InLoop
      <3> QED BY <1>1, <1>7, <3>1 DEF StepSendPsig, SetMaps, TypeInv, TypeOK, Maps
    <2>2. msgs' \subseteq NonceMsg \cup ContextMsg \cup PsigMsg
      BY <1>1, <1>7 DEF StepSendPsig, Broadcast, TypeInv, TypeOK
    <2>3. tick' \in [Nodes -> Tick] /\ \A k \in Nodes : InLoop(k)'
      BY <1>1, <1>7 DEF StepSendPsig, SetTick, Done, TypeInv, TypeOK, Tick, PCs, InLoop
    <2> QED BY <1>7, <2>1, <2>2, <2>3 DEF StepSendPsig, TypeInv, TypeOK
  <1>8. CASE StepSignDone(n)
    BY <1>1, <1>8 DEF StepSignDone, Goto, SetTick, TypeInv, TypeOK, Tick, PCs, InLoop
  <1> QED BY <1>4, <1>5, <1>6, <1>7, <1>8

\* Steps 3 and 4 keep the types.
LEMMA TypeFinish ==
    ASSUME TypeInv, NEW n \in Nodes, NEW ok \in BOOLEAN,
           StepDrain(n) \/ StepFinish(n, ok)
    PROVE  TypeInv'
  <1>1. /\ sess[n] \in Session /\ maps[n] \in Maps /\ tick[n] \in Tick
        /\ tick[n].out \subseteq PsigMsg /\ maps[n].pending \subseteq PsigMsg
        /\ tick[n].height \in Int
    BY DEF TypeInv, TypeOK, Tick, Maps
  <1>2. Idle(tick[n].height) \in Tick /\ Idle(tick[n].height).pc = "idle"
    BY <1>1 DEF Idle, Tick, PCs
  <1>3. CASE StepDrain(n)
    <2>1. maps' \in [Nodes -> Maps]
      BY <1>1, <1>3 DEF StepDrain, SetMaps, TypeInv, TypeOK, Maps
    <2>2. tick' \in [Nodes -> Tick] /\ \A k \in Nodes : InLoop(k)'
      <3> DEFINE mine == {p \in maps[n].pending : sess[n].state = "SIGNING" /\ p.ctx = sess[n].ctx}
                 t == [tick[n] EXCEPT !.pc = "finish", !.out = mine]
      <3>1. t \in Tick /\ t.pc = "finish"  BY <1>1 DEF Tick, PCs
      <3>2. SetTick(n, t)  BY <1>3 DEF StepDrain
      <3> HIDE DEF t
      <3> QED BY <3>1, <3>2 DEF SetTick, TypeInv, TypeOK, InLoop
    <2> QED BY <1>3, <2>1, <2>2 DEF StepDrain, TypeInv, TypeOK
  <1>4. CASE StepFinish(n, ok)
    <2> DEFINE good == {p.sig : p \in {q \in tick[n].out : Applies(sess[n], q)}}
               t == [sess[n] EXCEPT !.psigs = sess[n].psigs \cup good]
               u == AggregateSignature(t, ok)
    <2>1. good \subseteq PartialSig  BY <1>1 DEF PsigMsg
    <2>2. t \in Session  BY <1>1, <2>1 DEF Session
    <2> HIDE DEF t
    <2>3. u \in Session  BY <1>1, <2>2 DEF AggregateSignature, Session, SessionStates
    <2> HIDE DEF u
    <2>4. CheckTimeout(u, tick[n].height) \in Session
      BY <2>3 DEF CheckTimeout, Session, SessionStates, NonceMap, NoNonces
    <2>5. sess' \in [Nodes -> Session]
      BY <1>4, <2>4 DEF StepFinish, SetSess, TypeInv, TypeOK, t, u
    <2> QED BY <1>2, <1>4, <2>5 DEF StepFinish, Return, SetTick, TypeInv, TypeOK, InLoop
  <1> QED BY <1>3, <1>4

\* The message handlers keep the types.
LEMMA TypeIngest ==
    ASSUME TypeInv, NEW n \in Nodes, NEW m \in msgs, NEW ok \in BOOLEAN,
           \/ IngestRemoteNonce(n, m) \/ IngestRemoteContext(n, m)
           \/ IngestRemotePartialSig(n, m, ok)
    PROVE  TypeInv'
  <1> DEFINE s == LazySession(n)
  <1>1. /\ maps[n] \in Maps /\ maps[n].evidence \subseteq NonceMsg
        /\ maps[n].contexts \subseteq ContextMsg
    BY DEF TypeInv, TypeOK, Maps
  <1>2. s \in Session  BY LazySessionType DEF TypeInv
  <1>3. /\ m.type = "nonce" => m \in NonceMsg
        /\ m.type = "context" => m \in ContextMsg
        /\ m.type = "psig" => m \in PsigMsg
    BY DEF TypeInv, TypeOK, NonceMsg, ContextMsg, PsigMsg
  <1> HIDE DEF s
  <1>4. ASSUME NEW E \in SUBSET NonceMsg, NEW P \in SUBSET Oracles, NEW ev \in NonceMap,
               NEW a \in Nat
        PROVE  ReplaceEvidence(E, P, ev, a) \subseteq NonceMsg
    BY SMT DEF ReplaceEvidence, NonceRec, NonceMsg, NonceMap
  <1>5. CASE IngestRemoteNonce(n, m)
    <2> DEFINE ev == [NoNonces EXCEPT ![m.oracle] = m.nonce]
               E == ReplaceEvidence(maps[n].evidence, Accepted(s, ev), ev, m.attempt)
    <2>1. m \in NonceMsg  BY <1>3, <1>5 DEF IngestRemoteNonce
    <2>2. ev \in NonceMap  BY <2>1 DEF NoNonces, NonceMap, NonceMsg
    <2> HIDE DEF ev
    <2>3. AddNonceEvidence(s, ev) \in Session  BY <1>2, <2>2, EvidenceType
    <2>4. Accepted(s, ev) \subseteq Oracles  BY DEF Accepted, Holders
    <2>5. E \subseteq NonceMsg  BY <1>1, <1>4, <2>1, <2>2, <2>4 DEF NonceMsg
    <2> HIDE DEF E
    <2>6. SetSess(n, AddNonceEvidence(s, ev))
          /\ SetMaps(n, [maps[n] EXCEPT !.live = TRUE, !.evidence = E])
      BY <1>1, <1>5 DEF IngestRemoteNonce, E, ev, s, Maps
    <2>7. sess' \in [Nodes -> Session]  BY <2>3, <2>6 DEF SetSess, TypeInv, TypeOK
    <2>8. maps' \in [Nodes -> Maps]  BY <1>1, <2>5, <2>6 DEF SetMaps, TypeInv, TypeOK, Maps
    <2> QED BY <1>5, <2>7, <2>8 DEF IngestRemoteNonce, TypeInv, TypeOK, InLoop
  <1>6. CASE IngestRemoteContext(n, m)
    <2> DEFINE P == EvidencePrefix(s, m)
               E == ReplaceEvidence(maps[n].evidence, P, m.evidence, m.attempt)
               C == IF P = Holders(m.evidence) THEN StoreProposal(maps[n].contexts, m)
                    ELSE maps[n].contexts
    <2>1. m \in ContextMsg /\ m.evidence \in NonceMap /\ m.attempt \in Nat
      BY <1>3, <1>6 DEF IngestRemoteContext, ContextMsg
    <2>2. AddNonceEvidence(s, m.evidence) \in Session  BY <1>2, <2>1, EvidenceType
    <2>3. P \subseteq Oracles  BY DEF EvidencePrefix, Holders
    <2>4. E \subseteq NonceMsg  BY <1>1, <1>4, <2>1, <2>3
    <2>5. C \subseteq ContextMsg  BY <1>1, <2>1 DEF StoreProposal
    <2>6. SetSess(n, AddNonceEvidence(s, m.evidence))
          /\ SetMaps(n, [maps[n] EXCEPT !.live = TRUE, !.evidence = E, !.contexts = C])
      BY <1>1, <1>6 DEF IngestRemoteContext, s, Maps
    <2> HIDE DEF E, C, P
    <2>7. sess' \in [Nodes -> Session]  BY <2>2, <2>6 DEF SetSess, TypeInv, TypeOK
    <2>8. maps' \in [Nodes -> Maps]  BY <1>1, <2>4, <2>5, <2>6 DEF SetMaps, TypeInv, TypeOK, Maps
    <2> QED BY <1>6, <2>7, <2>8 DEF IngestRemoteContext, TypeInv, TypeOK, InLoop
  <1>7. CASE IngestRemotePartialSig(n, m, ok)
    <2> DEFINE t == AddPartialSignatureVerified(s, m.sig)
    <2>1. m \in PsigMsg /\ m.sig \in PartialSig
      BY <1>3, <1>7 DEF IngestRemotePartialSig, PsigMsg
    <2>2. t \in Session  BY <1>2, <2>1 DEF AddPartialSignatureVerified, Session
    <2> HIDE DEF t
    <2>3. AggregateSignature(t, ok) \in Session
      BY <2>2 DEF AggregateSignature, Session, SessionStates
    <2>4. \/ SetSess(n, AggregateSignature(t, ok)) /\ UNCHANGED inbox
          \/ SetSess(n, s) /\ inbox' = [inbox EXCEPT ![n] = {m}]
      BY <1>7 DEF IngestRemotePartialSig, s, t
    <2>5. sess' \in [Nodes -> Session] /\ inbox' \in [Nodes -> SUBSET PsigMsg]
      BY <1>2, <2>1, <2>3, <2>4, SMT DEF SetSess, TypeInv, TypeOK
    <2>6. maps' \in [Nodes -> Maps]
      BY <1>1, <1>7 DEF IngestRemotePartialSig, SetMaps, TypeInv, TypeOK, Maps
    <2> QED BY <1>7, <2>5, <2>6 DEF IngestRemotePartialSig, TypeInv, TypeOK, InLoop
  <1> QED BY <1>5, <1>6, <1>7

\* Buffering, restarts and the environment keep the types.
LEMMA TypeRest ==
    ASSUME TypeInv, NEW n \in Nodes, BufferOrDrop(n) \/ Toggle(n) \/ Crash(n)
    PROVE  TypeInv'
  <1>1. maps[n] \in Maps /\ maps[n].pending \subseteq PsigMsg /\ inbox[n] \subseteq PsigMsg
    BY DEF TypeInv, TypeOK, Maps
  <1>2. CASE BufferOrDrop(n)
    <2> DEFINE early == sess[n].state \notin {"SIGNING", "COMPLETE", "FAILED"}
               New(p) == IF early THEN BufferPendingPartialSig(maps[n].pending, p)
                         ELSE maps[n].pending
    <2>1. PICK p \in inbox[n] : /\ SetMaps(n, [maps[n] EXCEPT !.pending = New(p)])
                                /\ lost' = lost \/ lost' = lost \cup {p}
      BY <1>1, <1>2 DEF BufferOrDrop, Maps
    <2>2. BufferPendingPartialSig(maps[n].pending, p) \subseteq PsigMsg
      BY <1>1 DEF BufferPendingPartialSig
    <2>3. maps' \in [Nodes -> Maps] /\ lost' \subseteq PsigMsg
      BY <1>1, <2>1, <2>2 DEF SetMaps, TypeInv, TypeOK, Maps
    <2> QED BY <1>2, <2>3 DEF BufferOrDrop, TypeInv, TypeOK, InLoop
  <1>3. CASE Toggle(n)
    BY <1>3 DEF Toggle, TypeInv, TypeOK, InLoop
  <1>4. CASE Crash(n)
    <2>1. NewSession(0, 0) \in Session  BY NewSessionType, SMT
    <2>2. NoMaps \in Maps  BY SessionAssumption DEF NoMaps, Maps
    <2>3. Idle(tick[n].height) \in Tick /\ Idle(tick[n].height).pc = "idle"
      BY DEF Idle, Tick, PCs, TypeInv, TypeOK
    <2> QED BY <1>4, <2>1, <2>2, <2>3, SMTT(30)
        DEF Crash, SetSess, SetMaps, SetTick, TypeInv, TypeOK, InLoop
  <1> QED BY <1>2, <1>3, <1>4

\* Every step keeps the types.
LEMMA TypeStep == TypeInv /\ [NextWithCrashes]_vars => TypeInv'
  <1> SUFFICES ASSUME TypeInv, [NextWithCrashes]_vars PROVE TypeInv'  OBVIOUS
  <1>1. CASE UNCHANGED vars
    BY <1>1 DEF vars, TypeInv, TypeOK, InLoop
  <1>2. ASSUME NEW v \in Values, Expire(v) PROVE TypeInv'
    BY <1>2 DEF Expire, TypeInv, TypeOK, InLoop
  <1>3. ASSUME NEW n \in Nodes, Toggle(n) \/ Crash(n) \/ BufferOrDrop(n) PROVE TypeInv'
    BY <1>3, TypeRest
  <1>4. ASSUME NEW n \in Nodes, NewBlock(n) PROVE TypeInv'
    BY <1>4, TypeBlock DEF NewBlock
  <1>5. ASSUME NEW n \in Nodes, Ingest(n) PROVE TypeInv'
    <2>1. PICK m \in msgs, ok \in BOOLEAN :
             \/ IngestRemoteNonce(n, m) \/ IngestRemoteContext(n, m)
             \/ IngestRemotePartialSig(n, m, ok)
      BY <1>5, OrchestratorAssumption DEF Ingest
    <2> QED BY <2>1, TypeIngest
  <1>6. ASSUME NEW n \in Nodes, TickStep(n) PROVE TypeInv'
    <2>1. CASE \/ Resend(n) \/ StepGenerateNonce(n) \/ StepStoreNonce(n) \/ StepSendNonce(n)
               \/ StepNoncesDone(n)
      BY <2>1, TypeNonces
    <2>2. CASE \/ StepWait(n) \/ StepChoose(n) \/ StepNoContext(n) \/ StepSendContext(n)
               \/ \E id \in Oracles, v \in Values : StepPropose(n, id, v)
      BY <2>2, TypeConverge
    <2>3. CASE StepTrim(n) \/ StepSendPsig(n) \/ StepSignDone(n) \/ StepDrain(n)
      <3>1. TRUE \in BOOLEAN  OBVIOUS
      <3> QED BY <2>3, <3>1, TypeSign, TypeFinish
    <2>4. CASE \E ok \in LibResults : StepBind(n, ok) \/ StepSign(n, ok) \/ StepFinish(n, ok)
      <3>1. PICK ok \in BOOLEAN : StepBind(n, ok) \/ StepSign(n, ok) \/ StepFinish(n, ok)
        BY <2>4, OrchestratorAssumption
      <3> QED BY <3>1, TypeSign, TypeFinish
    <2> QED BY <1>6, <2>1, <2>2, <2>3, <2>4 DEF TickStep
  <1> QED BY <1>1, <1>2, <1>3, <1>4, <1>5, <1>6 DEF NextWithCrashes, Next, Environment, NodeStep

\* Every variable of the ceremony keeps its type, with and without restarts.
THEOREM TypeCorrect == CrashSpec => []TypeOK
  <1>1. CrashSpec => []TypeInv
    BY TypeInit, TypeStep, PTL DEF CrashSpec
  <1>2. TypeInv => TypeOK  BY DEF TypeInv
  <1> QED BY <1>1, <1>2, PTL

-----------------------------------------------------------------------------
(* No secret nonce signs twice.                                            *)

\* Nonces are numbered as they are drawn; the secret nonces held anywhere are
\* distinct, and none of them has signed yet.
NonceInv ==
    /\ \A d \in drawn : d.nonce <= Cardinality(drawn)
    /\ \A p \in made : p.nonce <= Cardinality(drawn)
    /\ \A n \in Nodes, i \in Oracles : sess[n].sec[i] # 0 =>
         /\ sess[n].sec[i] <= Cardinality(drawn)
         /\ \A p \in made : p.nonce # sess[n].sec[i]
         /\ \A k \in Nodes, j \in Oracles : sess[k].sec[j] = sess[n].sec[i] => k = n /\ j = i
    /\ NonceSignsOnce

\* What a step leaves of the secret nonces when it neither draws nor signs.
Forgets ==
    /\ UNCHANGED <<drawn, made>>
    /\ \A n \in Nodes : sess'[n].sec = sess[n].sec \/ sess'[n].sec = NoNonces

\* Such a step keeps the invariant.
LEMMA ForgetKeeps ==
    ASSUME TypeInv, NonceInv, Forgets
    PROVE  NonceInv'
  <1>1. \A n \in Nodes, i \in Oracles : sess'[n].sec[i] # 0 => sess'[n].sec[i] = sess[n].sec[i]
    BY DEF Forgets, NoNonces
  <1>2. drawn' = drawn /\ made' = made  BY DEF Forgets
  <1> QED BY <1>1, <1>2, SMTT(30) DEF NonceInv, NonceSignsOnce

\* The session a handler works on has the node's secret nonces or none.
LEMMA LazySec ==
    ASSUME TypeInv, NEW n \in Nodes
    PROVE  LazySession(n).sec = sess[n].sec \/ LazySession(n).sec = NoNonces
  <1>1. maps[n] \in Maps /\ maps[n].attempt \in Nat /\ EpochStart \in Int
    BY OrchestratorAssumption, SMT DEF TypeInv, TypeOK, Maps
  <1> QED BY <1>1, FreshSessionType DEF LazySession

\* A block keeps the secret nonces of the session or starts one without any.
LEMMA ForgetBlock ==
    ASSUME TypeInv, NEW n \in Nodes, NEW d \in ReorgDepths, NEW sd \in ChainSeeds,
           BlockConnected(n, d, sd)
    PROVE  Forgets
  <1> DEFINE h == tick[n].height + 1 - d
             m == SeedMaps(maps[n], h, sd)
             s == GetOrCreate(n, m, h)
  <1>1. h \in Int /\ sd \in Seeds /\ maps[n] \in Maps /\ sess[n] \in Session
    BY OrchestratorAssumption, SMT DEF TypeInv, TypeOK, Tick
  <1>2. m \in Maps /\ m.attempt \in Nat
    BY <1>1 DEF SeedMaps, Maps
  <1> HIDE DEF h, m
  <1>3. FreshSession(m, m.attempt, h).sec = NoNonces /\ FreshSession(m, m.attempt + 1, h).sec = NoNonces
    BY <1>1, <1>2, FreshSessionType, SMT
  <1>4. s.sec = sess[n].sec \/ s.sec = NoNonces
    BY <1>1, <1>3 DEF GetOrCreate, SetEpochSelectionSeed, Session
  <1> HIDE DEF s
  <1>5. \/ UNCHANGED sess
        \/ SetSess(n, FreshSession(m, m.attempt + 1, h))
        \/ SetSess(n, s)
    BY DEF BlockConnected, h, m, s
  <1>6. UNCHANGED <<drawn, made>>  BY DEF BlockConnected
  <1> QED BY <1>3, <1>4, <1>5, <1>6 DEF Forgets, SetSess, TypeInv, TypeOK

\* All steps of a tick but the draw and the signature only forget.
LEMMA ForgetTick ==
    ASSUME TypeInv, NEW n \in Nodes, NEW ok \in BOOLEAN,
           \/ Resend(n) \/ StepStoreNonce(n) \/ StepSendNonce(n) \/ StepNoncesDone(n)
           \/ StepWait(n) \/ StepChoose(n) \/ StepNoContext(n) \/ StepSendContext(n)
           \/ \E id \in Oracles, v \in Values : StepPropose(n, id, v)
           \/ StepTrim(n) \/ StepBind(n, ok) \/ StepSendPsig(n) \/ StepSignDone(n)
           \/ StepDrain(n) \/ StepFinish(n, ok)
    PROVE  Forgets
  <1>1. sess \in [Nodes -> Session] /\ sess[n] \in Session
    BY DEF TypeInv, TypeOK
  <1>2. CASE \/ StepSendNonce(n) \/ StepNoncesDone(n) \/ StepChoose(n) \/ StepNoContext(n)
             \/ StepSendContext(n) \/ StepSendPsig(n) \/ StepSignDone(n) \/ StepDrain(n)
             \/ \E id \in Oracles, v \in Values : StepPropose(n, id, v)
    BY <1>2 DEF Forgets, StepSendNonce, StepNoncesDone, StepChoose, StepNoContext, StepSendContext,
                StepSendPsig, StepSignDone, StepDrain, StepPropose
  <1>3. CASE Resend(n) \/ StepWait(n)
    BY <1>1, <1>3, SMT DEF Forgets, Resend, StepWait, SetSess, SetEpochSelectionSeed, Session
  <1>4. CASE StepStoreNonce(n)
    <2>1. \A id, x : AddPubnonce(sess[n], id, x).sec = sess[n].sec
      BY <1>1 DEF AddPubnonce, Session
    <2>2. \E id, x : SetSess(n, AddPubnonce(sess[n], id, x))
      BY <1>4 DEF StepStoreNonce
    <2>3. UNCHANGED <<drawn, made>>  BY <1>4 DEF StepStoreNonce
    <2> QED BY <1>1, <2>1, <2>2, <2>3, SMT DEF Forgets, SetSess
  <1>5. CASE StepTrim(n)
    <2>1. \A v : SetSignedValues(sess[n], v).sec = sess[n].sec
      BY <1>1 DEF SetSignedValues, Session
    <2>2. \A v, P, K : SetKeyAggCache(TrimNoncesToParticipants(SetSignedValues(sess[n], v), P), K).sec
                       = sess[n].sec
      BY <1>1 DEF SetSignedValues, TrimNoncesToParticipants, SetKeyAggCache, Session
    <2>3. \/ \E v : SetSess(n, SetSignedValues(sess[n], v))
          \/ \E v, P, K : SetSess(n, SetKeyAggCache(
                 TrimNoncesToParticipants(SetSignedValues(sess[n], v), P), K))
      BY <1>5 DEF StepTrim
    <2>4. UNCHANGED <<drawn, made>>  BY <1>5 DEF StepTrim
    <2> QED BY <1>1, <2>1, <2>2, <2>3, <2>4, SMT DEF Forgets, SetSess
  <1>6. CASE StepBind(n, ok)
    <2>1. \A v : AggregateNonces(sess[n], v, ok).sec = sess[n].sec
      BY <1>1 DEF AggregateNonces, Session
    <2>2. \E v : SetSess(n, AggregateNonces(sess[n], v, ok))
      BY <1>6 DEF StepBind
    <2>3. UNCHANGED <<drawn, made>>  BY <1>6 DEF StepBind
    <2> QED BY <1>1, <2>1, <2>2, <2>3 DEF Forgets, SetSess
  <1>7. CASE StepFinish(n, ok)
    BY <1>1, <1>7 DEF Forgets, StepFinish, SetSess, AggregateSignature, CheckTimeout, Session
  <1> QED BY <1>2, <1>3, <1>4, <1>5, <1>6, <1>7

\* The handlers only forget.
LEMMA ForgetIngest ==
    ASSUME TypeInv, NEW n \in Nodes, NEW m \in msgs, NEW ok \in BOOLEAN,
           \/ IngestRemoteNonce(n, m) \/ IngestRemoteContext(n, m)
           \/ IngestRemotePartialSig(n, m, ok)
    PROVE  Forgets
  <1> DEFINE s == LazySession(n)
  <1>1. s \in Session /\ (s.sec = sess[n].sec \/ s.sec = NoNonces) /\ sess \in [Nodes -> Session]
    BY LazySec, LazySessionType DEF TypeInv, TypeOK
  <1> HIDE DEF s
  <1>2. \A ev : AddNonceEvidence(s, ev).sec = s.sec
    BY <1>1 DEF AddNonceEvidence, InitializePassive, Session
  <1>3. \A sig : AggregateSignature(AddPartialSignatureVerified(s, sig), ok).sec = s.sec
    BY <1>1 DEF AggregateSignature, AddPartialSignatureVerified, Session
  <1>4. \/ \E ev : SetSess(n, AddNonceEvidence(s, ev))
        \/ \E sig : SetSess(n, AggregateSignature(AddPartialSignatureVerified(s, sig), ok))
        \/ SetSess(n, s)
    BY DEF IngestRemoteNonce, IngestRemoteContext, IngestRemotePartialSig, s
  <1>5. UNCHANGED <<drawn, made>>
    BY DEF IngestRemoteNonce, IngestRemoteContext, IngestRemotePartialSig
  <1> QED BY <1>1, <1>2, <1>3, <1>4, <1>5 DEF Forgets, SetSess

\* A nonce drawn is one more than all drawn before.
LEMMA DrawKeeps ==
    ASSUME TypeInv, NonceInv, NEW n \in Nodes, StepGenerateNonce(n)
    PROVE  NonceInv'
  <1> DEFINE id == NextId(n)
             x == Cardinality(drawn) + 1
             r == NonceRec(sess[n].attempt, id, x)
  <1>1. sess \in [Nodes -> Session] /\ sess[n] \in Session /\ id \in Oracles /\ made' = made
        /\ made \subseteq PartialSig /\ drawn \subseteq NonceMsg
    BY NextIdType DEF StepGenerateNonce, TypeInv, TypeOK, Tick
  <1>2. Cardinality(drawn) \in Nat /\ IsFiniteSet(drawn)
    BY FS_CardinalityType DEF TypeInv
  <1>3. CASE ~ CanGenerateNonce(sess[n], id)
    <2>1. Forgets
      BY <1>1, <1>3 DEF StepGenerateNonce, GenerateNonce, SetSess, Forgets
    <2> QED BY <2>1, ForgetKeeps
  <1>4. CASE CanGenerateNonce(sess[n], id)
    <2>1. drawn' = drawn \cup {r}
      BY <1>4 DEF StepGenerateNonce
    <2>2. r \notin drawn /\ r.nonce = x
      <3>1. r.nonce = x  BY DEF NonceRec
      <3>2. \A d \in drawn : d.nonce <= Cardinality(drawn)  BY DEF NonceInv
      <3>3. ~ x <= Cardinality(drawn)  BY <1>2, SMT
      <3> QED BY <3>1, <3>2, <3>3
    <2>3. Cardinality(drawn') = x
      BY <1>2, <2>1, <2>2, FS_AddElement
    <2>4. sess' = [sess EXCEPT ![n] = GenerateNonce(sess[n], id, Oracles, x)]
      BY DEF StepGenerateNonce, SetSess
    <2>5. GenerateNonce(sess[n], id, Oracles, x).sec = [sess[n].sec EXCEPT ![id] = x]
      BY <1>1, <1>4 DEF GenerateNonce, Session
    <2>6. \A k \in Nodes, j \in Oracles : sess[k].sec \in NonceMap /\ sess[k].sec[j] \in Nat
      BY <1>1 DEF Session, NonceMap
    <2>7. \A k \in Nodes, j \in Oracles :
             sess'[k].sec[j] = IF k = n /\ j = id THEN x ELSE sess[k].sec[j]
      BY <1>1, <2>4, <2>5, <2>6 DEF NonceMap
    <2>8. \A k \in Nodes, j \in Oracles : sess[k].sec[j] <= Cardinality(drawn)
      BY <1>2, <2>6, SMTT(30) DEF NonceInv
    <2>9. \A p \in made : p.nonce \in Nat /\ p.nonce <= Cardinality(drawn)
      BY <1>1 DEF NonceInv, PartialSig
    <2>10. \A d \in drawn' : d.nonce <= Cardinality(drawn')
      BY <1>1, <1>2, <2>1, <2>2, <2>3, SMTT(60) DEF NonceInv, NonceMsg
    <2>11. \A p \in made' : p.nonce <= Cardinality(drawn')
      BY <1>1, <1>2, <2>3, <2>9, SMT
    <2>12. ASSUME NEW k \in Nodes, NEW j \in Oracles, sess'[k].sec[j] # 0
           PROVE  /\ sess'[k].sec[j] <= Cardinality(drawn')
                  /\ \A p \in made' : p.nonce # sess'[k].sec[j]
                  /\ \A l \in Nodes, i \in Oracles :
                         sess'[l].sec[i] = sess'[k].sec[j] => l = k /\ i = j
      <3>1. x \in Nat /\ x > Cardinality(drawn)  BY <1>2, SMT
      <3> HIDE DEF x
      <3>2. sess'[k].sec[j] <= Cardinality(drawn')
        BY <1>2, <2>3, <2>6, <2>7, <2>8, <3>1, SMT
      <3>3. CASE k = n /\ j = id
        <4>1. sess'[k].sec[j] = x  BY <2>7, <3>3
        <4>2. \A p \in made' : p.nonce # x  BY <1>1, <1>2, <2>9, <3>1, SMT
        <4>3. \A l \in Nodes, i \in Oracles : sess[l].sec[i] # x  BY <1>2, <2>6, <2>8, <3>1, SMT
        <4> QED BY <2>7, <3>2, <3>3, <4>1, <4>2, <4>3, SMT
      <3>4. CASE ~ (k = n /\ j = id)
        <4>1. sess'[k].sec[j] = sess[k].sec[j]  BY <2>7, <3>4
        <4>2. sess[k].sec[j] # x  BY <1>2, <2>6, <2>8, <3>1, SMT
        <4>3. /\ \A p \in made : p.nonce # sess[k].sec[j]
              /\ \A l \in Nodes, i \in Oracles :
                     sess[l].sec[i] = sess[k].sec[j] => l = k /\ i = j
          BY <2>12, <4>1 DEF NonceInv
        <4> QED BY <1>1, <2>7, <3>2, <4>1, <4>2, <4>3, SMT
      <3> QED BY <3>3, <3>4
    <2> QED BY <1>1, <2>10, <2>11, <2>12 DEF NonceInv, NonceSignsOnce
  <1> QED BY <1>3, <1>4

\* A nonce that signs is erased in the same step.
LEMMA SignKeeps ==
    ASSUME TypeInv, NonceInv, NEW n \in Nodes, NEW ok \in BOOLEAN, StepSign(n, ok)
    PROVE  NonceInv'
  <1> DEFINE id == NextId(n)
             sig == SignatureOf(sess[n], id)
             t == ConsumeNonce(sess[n], id)
  <1>1. sess \in [Nodes -> Session] /\ sess[n] \in Session /\ id \in Oracles /\ drawn' = drawn
    BY NextIdType DEF StepSign, TypeInv, TypeOK, Tick
  <1>2. t.sec = [sess[n].sec EXCEPT ![id] = 0] /\ AddPartialSignature(t, sig).sec = t.sec
    BY <1>1 DEF ConsumeNonce, AddPartialSignature, Session
  <1>3. sig.nonce = sess[n].sec[id]  BY DEF SignatureOf
  <1> HIDE DEF t, sig
  <1>4. \/ /\ CanSign(sess[n], id) /\ made' = made \cup {sig}
           /\ sess' = [sess EXCEPT ![n] = AddPartialSignature(t, sig)]
        \/ made' = made /\ sess' = [sess EXCEPT ![n] = t]
        \/ made' = made /\ sess' = sess
    BY DEF StepSign, SetSess, sig, t
  <1>5. \A k \in Nodes : sess[k].sec \in NonceMap
    BY <1>1 DEF Session
  <1>6. CASE CanSign(sess[n], id) /\ made' = made \cup {sig}
             /\ sess' = [sess EXCEPT ![n] = AddPartialSignature(t, sig)]
    <2>1. \A k \in Nodes, j \in Oracles :
             sess'[k].sec[j] = IF k = n /\ j = id THEN 0 ELSE sess[k].sec[j]
      BY <1>1, <1>2, <1>5, <1>6 DEF NonceMap
    <2>2. sess[n].sec[id] # 0 /\ made' = made \cup {sig}
      BY <1>6 DEF CanSign
    <2> QED BY <1>1, <1>3, <2>1, <2>2, SMTT(60) DEF NonceInv, NonceSignsOnce
  <1>7. CASE made' = made /\ sess' = [sess EXCEPT ![n] = t]
    <2>1. \A k \in Nodes, j \in Oracles :
             sess'[k].sec[j] = IF k = n /\ j = id THEN 0 ELSE sess[k].sec[j]
      BY <1>1, <1>2, <1>5, <1>7 DEF NonceMap
    <2> QED BY <1>1, <1>7, <2>1, SMTT(60) DEF NonceInv, NonceSignsOnce
  <1>8. CASE made' = made /\ sess' = sess
    BY <1>1, <1>8, SMTT(30) DEF NonceInv, NonceSignsOnce
  <1> QED BY <1>4, <1>6, <1>7, <1>8

\* Every step keeps the invariant, restarts included.
LEMMA NonceStep == TypeInv /\ NonceInv /\ [NextWithCrashes]_vars => NonceInv'
  <1> SUFFICES ASSUME TypeInv, NonceInv, [NextWithCrashes]_vars PROVE NonceInv'  OBVIOUS
  <1>1. CASE UNCHANGED vars
    BY <1>1, SMTT(30) DEF vars, NonceInv, NonceSignsOnce
  <1>2. ASSUME \/ \E v \in Values : Expire(v)
               \/ \E n \in Nodes : Toggle(n) \/ BufferOrDrop(n)
        PROVE  NonceInv'
    BY <1>2, ForgetKeeps DEF Expire, Toggle, BufferOrDrop, Forgets
  <1>3. ASSUME NEW n \in Nodes, Crash(n) PROVE NonceInv'
    <2>1. Forgets
      BY <1>3 DEF Crash, SetSess, NewSession, Forgets, TypeInv, TypeOK
    <2> QED BY <2>1, ForgetKeeps
  <1>4. ASSUME NEW n \in Nodes, NewBlock(n) PROVE NonceInv'
    BY <1>4, ForgetBlock, ForgetKeeps DEF NewBlock
  <1>5. ASSUME NEW n \in Nodes, Ingest(n) PROVE NonceInv'
    <2>1. PICK m \in msgs, ok \in BOOLEAN :
             \/ IngestRemoteNonce(n, m) \/ IngestRemoteContext(n, m)
             \/ IngestRemotePartialSig(n, m, ok)
      BY <1>5, OrchestratorAssumption DEF Ingest
    <2> QED BY <2>1, ForgetIngest, ForgetKeeps
  <1>6. ASSUME NEW n \in Nodes, TickStep(n) PROVE NonceInv'
    <2>1. PICK ok \in BOOLEAN :
             \/ StepGenerateNonce(n) \/ StepSign(n, ok)
             \/ Resend(n) \/ StepStoreNonce(n) \/ StepSendNonce(n) \/ StepNoncesDone(n)
             \/ StepWait(n) \/ StepChoose(n) \/ StepNoContext(n) \/ StepSendContext(n)
             \/ \E id \in Oracles, v \in Values : StepPropose(n, id, v)
             \/ StepTrim(n) \/ StepBind(n, ok) \/ StepSendPsig(n) \/ StepSignDone(n)
             \/ StepDrain(n) \/ StepFinish(n, ok)
      BY <1>6, OrchestratorAssumption DEF TickStep
    <2>2. CASE StepGenerateNonce(n)  BY <2>2, DrawKeeps
    <2>3. CASE StepSign(n, ok)  BY <2>3, SignKeeps
    <2> QED BY <2>1, <2>2, <2>3, ForgetTick, ForgetKeeps
  <1> QED BY <1>1, <1>2, <1>3, <1>4, <1>5, <1>6 DEF NextWithCrashes, Next, Environment, NodeStep

\* No secret nonce ever makes two different partial signatures: over any number
\* of attempts, timeouts, forks and restarts of any process
\* (CreatePartialSignature erases the nonce it signs with and GenerateNonce
\* never returns an old one).
THEOREM NeverSignsTwice == CrashSpec => []NonceSignsOnce
  <1>1. Init => NonceInv
    BY SMTT(30) DEF Init, NonceInv, NonceSignsOnce, NewSession, NoNonces
  <1>2. CrashSpec => [](TypeInv /\ NonceInv)
    BY <1>1, TypeInit, TypeStep, NonceStep, PTL DEF CrashSpec
  <1>3. NonceInv => NonceSignsOnce  BY DEF NonceInv
  <1> QED BY <1>2, <1>3, PTL

-----------------------------------------------------------------------------
(* What a completed session hands to the miner verifies.                   *)
(*                                                                         *)
(* The argument.  A session is bound only after its participants were      *)
(* frozen at the threshold and their keys aggregated, and to the values it *)
(* stores (TickGood).  What it signs with is the nonce it has published:   *)
(* an oracle draws one nonce per attempt (UniqueNonces), and every nonce   *)
(* stored or sent anywhere was drawn for that attempt and oracle           *)
(* (Published).  So every signature it stores verifies (SessionInv), and   *)
(* MinSigners of them are one of each participant (CompleteIsValid).       *)
-----------------------------------------------------------------------------
\* What an assignment to a node's part of the state leaves there and elsewhere.
LEMMA Assign ==
    ASSUME TypeInv, NEW n \in Nodes, NEW x
    PROVE  /\ SetSess(n, x) => sess'[n] = x /\ \A k \in Nodes \ {n} : sess'[k] = sess[k]
           /\ SetMaps(n, x) => maps'[n] = x /\ \A k \in Nodes \ {n} : maps'[k] = maps[k]
           /\ SetTick(n, x) => tick'[n] = x /\ \A k \in Nodes \ {n} : tick'[k] = tick[k]
           /\ inbox' = [inbox EXCEPT ![n] = x] =>
                  inbox'[n] = x /\ \A k \in Nodes \ {n} : inbox'[k] = inbox[k]
  BY DEF SetSess, SetMaps, SetTick, TypeInv, TypeOK

\* Every nonce of m was drawn, by the oracle it is listed for, in the attempt.
NoncesDrawn(D, attempt, m) ==
    \A id \in Oracles : m[id] # 0 => NonceRec(attempt, id, m[id]) \in D

\* An oracle draws one nonce in an attempt.
UniqueNonces(D) ==
    \A d, e \in D : d.attempt = e.attempt /\ d.oracle = e.oracle => d = e

\* The id a loop of tick t works on.
Current(t) == CHOOSE id \in t.todo : TRUE

\* Where the tick is, what it has established so far.
TickGood(n, s, m, t) ==
    /\ s.attempt = m.attempt
    /\ t.pc # "idle" => m.live
    /\ \A c, d \in t.chosen : c = d
    /\ t.pc \in {"gen", "add", "sendnonce"} => t.todo \subseteq Local[n]
    /\ t.pc \in {"gen", "add"} => t.todo \cap m.nonceTracker = {}
    /\ t.pc = "sendnonce" => (t.todo \ {Current(t)}) \cap m.nonceTracker = {}
    /\ t.pc \in {"add", "sendnonce"} => t.todo # {} /\ s.sec[Current(t)] # 0
    /\ t.pc \in {"converge", "sendctx", "trim", "bind"} => s.state = "NONCES_COMPLETE"
    /\ t.pc = "trim" => \A c \in t.chosen : Cardinality(Holders(c.ctx.nonces)) = MinSigners
    /\ t.pc = "bind" =>
         s.frozen /\ s.keys = Holders(s.pub) /\ \A c \in t.chosen : s.signed = c.ctx.msg

\* All the nonces a node knows of were drawn.
Published(s, m, t, D) ==
    /\ NoncesDrawn(D, s.attempt, s.pub)
    /\ NoncesDrawn(D, s.attempt, s.sec)
    /\ m.evidence \subseteq D
    /\ \A c \in m.contexts \cup t.chosen : NoncesDrawn(D, c.attempt, c.evidence)

\* The nonces drawn by a local oracle are of earlier attempts, but for the
\* tracked ones and the one in hand.
Accounted(n, s, m, t, D) ==
    \A d \in D : d.oracle \in Local[n] =>
        \/ d.attempt < s.attempt
        \/ /\ d.attempt = s.attempt /\ m.live
           /\ d.oracle \in m.nonceTracker \/ (t.pc = "add" /\ d.oracle = Current(t))

NodeGood(n, s, m, t, D) ==
    /\ SessionInv(s)
    /\ TickGood(n, s, m, t)
    /\ Published(s, m, t, D)
    /\ Accounted(n, s, m, t, D)

\* All the nonces on the wire were drawn.
MsgsGood(M, D) ==
    \A m \in M : /\ m.type = "nonce" => m \in D
                 /\ m.type = "context" => NoncesDrawn(D, m.attempt, m.evidence)

BundleInv ==
    /\ UniqueNonces(drawn)
    /\ \A d \in drawn : d.nonce # 0
    /\ MsgsGood(msgs, drawn)
    /\ \A n \in Nodes : NodeGood(n, sess[n], maps[n], tick[n], drawn)

-----------------------------------------------------------------------------
\* A step of node n leaves the other nodes alone.
LEMMA Frame ==
    ASSUME TypeInv, BundleInv, NEW n \in Nodes, NEW s, NEW m, NEW t,
           SetSess(n, s), SetMaps(n, m), SetTick(n, t),
           drawn' = drawn, MsgsGood(msgs', drawn), NodeGood(n, s, m, t, drawn)
    PROVE  BundleInv'
  <1>1. \A k \in Nodes : NodeGood(k, sess'[k], maps'[k], tick'[k], drawn)
    BY DEF BundleInv, SetSess, SetMaps, SetTick, TypeInv, TypeOK
  <1> QED BY <1>1 DEF BundleInv

\* A part of the node's state that a step does not touch.
LEMMA Same ==
    ASSUME TypeInv, NEW n \in Nodes
    PROVE  /\ UNCHANGED sess => SetSess(n, sess[n])
           /\ UNCHANGED maps => SetMaps(n, maps[n])
           /\ UNCHANGED tick => SetTick(n, tick[n])
  BY DEF SetSess, SetMaps, SetTick, TypeInv, TypeOK

\* The types of a node's state.
LEMMA NodeTypes ==
    ASSUME TypeInv, BundleInv, NEW n \in Nodes
    PROVE  /\ sess[n] \in Session /\ maps[n] \in Maps /\ tick[n] \in Tick
           /\ Local[n] \subseteq Oracles /\ maps[n].attempt \in Nat /\ sess[n].attempt \in Nat
           /\ maps[n].seed \in Seeds /\ drawn \subseteq NonceMsg
           /\ NodeGood(n, sess[n], maps[n], tick[n], drawn)
           /\ NextId(n) = Current(tick[n])
  BY OrchestratorAssumption DEF TypeInv, TypeOK, Maps, Session, BundleInv, NextId, Current

\* A session with no nonces has no nonce that was not drawn.
LEMMA NothingDrawn ==
    ASSUME NEW D, NEW attempt PROVE NoncesDrawn(D, attempt, NoNonces)
  BY DEF NoncesDrawn, NoNonces

\* Setting the seed of a session.
LEMMA SeedGood ==
    ASSUME NEW s \in Session, SessionInv(s), NEW sd \in Seeds
    PROVE  LET u == SetEpochSelectionSeed(s, sd)
           IN  /\ u \in Session /\ SessionInv(u) /\ u.attempt = s.attempt /\ u.sec = s.sec
               /\ u.pub = s.pub /\ u.state = s.state /\ u.frozen = s.frozen
               /\ u.keys = s.keys /\ u.signed = s.signed
  BY DEF SetEpochSelectionSeed, SessionInv, Session, Verifies, HasEnoughPartialSigs,
         SignedStates, CollectingStates

\* The parts of the maps that the invariant is about.
SameMaps(m, m2) ==
    /\ m2.live = m.live /\ m2.attempt = m.attempt /\ m2.nonceTracker = m.nonceTracker
    /\ m2.evidence = m.evidence /\ m2.contexts = m.contexts

\* A tick that is idle, resending or past the context keeps no promise about
\* the session but the attempt; the session may forget secret nonces.
LEMMA Relaxed ==
    ASSUME NEW n \in Nodes, NEW s, NEW m, NEW t, NEW s2, NEW m2, NEW t2, NEW D,
           NodeGood(n, s, m, t, D), t.pc # "add", SessionInv(s2), SameMaps(m, m2),
           s2.attempt = s.attempt, s2.pub = s.pub, NoncesDrawn(D, s.attempt, s2.sec),
           t2.chosen = t.chosen \/ t2.chosen = {},
           \/ t2.pc = "idle"
           \/ t.pc # "idle" /\ t2.pc \in {"resend", "sign", "sendsig", "drain", "finish"}
    PROVE  NodeGood(n, s2, m2, t2, D)
  <1>1. TickGood(n, s2, m2, t2)  BY DEF NodeGood, TickGood, SameMaps
  <1>2. Published(s2, m2, t2, D)  BY DEF NodeGood, Published, SameMaps
  <1>3. Accounted(n, s2, m2, t2, D)  BY DEF NodeGood, Accounted, SameMaps
  <1> QED BY <1>1, <1>2, <1>3 DEF NodeGood

\* The instances of it that leave the session, or also the maps, alone.
LEMMA RelaxedTick ==
    ASSUME NEW n \in Nodes, NEW s, NEW m, NEW t, NEW m2, NEW t2, NEW D,
           NodeGood(n, s, m, t, D), t.pc # "add", SameMaps(m, m2),
           t2.chosen = t.chosen \/ t2.chosen = {},
           \/ t2.pc = "idle"
           \/ t.pc # "idle" /\ t2.pc \in {"resend", "sign", "sendsig", "drain", "finish"}
    PROVE  NodeGood(n, s, m2, t2, D)
  <1>1. SessionInv(s) /\ NoncesDrawn(D, s.attempt, s.sec)
    BY DEF NodeGood, Published
  <1> QED BY <1>1, Relaxed

-----------------------------------------------------------------------------
\* A block: a fresh session knows no nonces, and all nonces drawn so far are
\* then of earlier attempts.
LEMMA BundleBlock ==
    ASSUME TypeInv, BundleInv, NEW n \in Nodes, NEW d \in ReorgDepths, NEW sd \in ChainSeeds,
           BlockConnected(n, d, sd)
    PROVE  BundleInv'
  <1> DEFINE h == tick[n].height + 1 - d
             m == SeedMaps(maps[n], h, sd)
             s == GetOrCreate(n, m, h)
             t == [Idle(h) EXCEPT !.pc = "resend"]
             T == tick[n]
             D == drawn
  <1>1. h \in Int /\ sd \in Seeds
    BY OrchestratorAssumption, SMT DEF TypeInv, TypeOK, Tick
  <1>2. /\ m \in Maps /\ m.attempt = maps[n].attempt /\ m.live = maps[n].live
        /\ m.evidence = maps[n].evidence /\ m.contexts = maps[n].contexts
        /\ m.nonceTracker = maps[n].nonceTracker
    BY <1>1, NodeTypes DEF SeedMaps, Maps
  <1>3. T.pc = "idle" /\ drawn' = drawn /\ msgs' = msgs /\ MsgsGood(msgs, drawn)
    BY DEF BlockConnected, BundleInv
  <1>4. /\ Idle(h).pc = "idle" /\ Idle(h).chosen = {}
        /\ t.pc = "resend" /\ t.chosen = {}
    BY DEF Idle
  <1>5. m.attempt \in Nat /\ m.seed \in Seeds  BY <1>2 DEF Maps
  <1> HIDE DEF h, m, t
  <1>6. CASE SetTick(n, Idle(h)) /\ UNCHANGED <<sess, maps>>
    <2>1. NodeGood(n, sess[n], maps[n], Idle(h), D)
      BY <1>3, <1>4, NodeTypes, RelaxedTick DEF SameMaps
    <2> QED BY <1>3, <1>6, <2>1, Frame, Same
  <1>7. CASE SetTick(n, t) /\ SetMaps(n, RestartedMaps(m)) /\ SetSess(n, FreshSession(m, m.attempt + 1, h))
    <2> DEFINE s2 == FreshSession(m, m.attempt + 1, h)
               m2 == RestartedMaps(m)
    <2>1. s2.attempt = m.attempt + 1 /\ s2.sec = NoNonces /\ s2.pub = NoNonces /\ SessionInv(s2)
      BY <1>1, <1>2, <1>5, FreshSessionType, SMT
    <2>2. m2.live /\ m2.attempt = m.attempt + 1 /\ m2.evidence = {} /\ m2.contexts = {}
      BY <1>2 DEF RestartedMaps, NoMaps, Maps
    <2> HIDE DEF s2, m2
    <2>3. TickGood(n, s2, m2, t)  BY <1>4, <2>1, <2>2 DEF TickGood
    <2>4. Published(s2, m2, t, D)  BY <1>4, <2>1, <2>2, NothingDrawn DEF Published
    <2>5. Accounted(n, s2, m2, t, D)
      BY <1>2, <1>5, <2>1, NodeTypes, SMT DEF Accounted, NodeGood, TickGood, NonceMsg
    <2>6. NodeGood(n, s2, m2, t, D)  BY <2>1, <2>3, <2>4, <2>5 DEF NodeGood
    <2> QED BY <1>3, <1>7, <2>6, Frame DEF s2, m2
  <1>8. CASE SetTick(n, t) /\ SetMaps(n, [m EXCEPT !.live = TRUE]) /\ SetSess(n, s)
    <2> DEFINE m2 == [m EXCEPT !.live = TRUE]
    <2>1. /\ m2.live /\ m2.attempt = m.attempt /\ m2.evidence = m.evidence
          /\ m2.contexts = m.contexts /\ m2.nonceTracker = m.nonceTracker
      BY <1>2 DEF Maps
    <2> HIDE DEF m2
    <2>2. CASE m.live
      <3>1. s = sess[n] \/ s = SetEpochSelectionSeed(sess[n], m.seed)
        BY <2>2 DEF GetOrCreate
      <3>2. /\ SessionInv(s) /\ s.attempt = sess[n].attempt /\ s.sec = sess[n].sec
            /\ s.pub = sess[n].pub
        BY <1>5, <3>1, SeedGood, NodeTypes, SMT DEF NodeGood
      <3> HIDE DEF s
      <3>3. TickGood(n, s, m2, t)
        BY <1>2, <1>4, <2>1, <3>2, NodeTypes, SMTT(30) DEF TickGood, NodeGood
      <3>4. Published(s, m2, t, D)
        BY <1>2, <1>4, <2>1, <3>2, NodeTypes DEF Published, NodeGood
      <3>5. Accounted(n, s, m2, t, D)
        BY <1>2, <1>3, <2>1, <3>2, NodeTypes DEF Accounted, NodeGood
      <3> QED BY <1>3, <1>8, <3>2, <3>3, <3>4, <3>5, Frame DEF NodeGood, m2
    <2>3. CASE ~ m.live
      <3>1. s = FreshSession(m, m.attempt, h)
        BY <2>3 DEF GetOrCreate
      <3>2. s.attempt = m.attempt /\ s.sec = NoNonces /\ s.pub = NoNonces /\ SessionInv(s)
        BY <1>1, <1>2, <1>5, <3>1, FreshSessionType, SMT
      <3> HIDE DEF s
      <3>3. TickGood(n, s, m2, t)
        BY <1>4, <2>1, <3>2 DEF TickGood
      <3>4. Published(s, m2, t, D)
        BY <1>2, <1>4, <2>1, <3>2, NodeTypes, NothingDrawn, SMT DEF Published, NodeGood
      <3>5. Accounted(n, s, m2, t, D)
        BY <1>2, <2>3, <3>2, NodeTypes DEF Accounted, NodeGood, TickGood
      <3> QED BY <1>3, <1>8, <3>2, <3>3, <3>4, <3>5, Frame DEF NodeGood, m2
    <2> QED BY <2>2, <2>3
  <1> QED BY <1>6, <1>7, <1>8 DEF BlockConnected, h, m, s, t

\* Resending, and the loop of Step 1 apart from the draw.
LEMMA BundleResend ==
    ASSUME TypeInv, BundleInv, NEW n \in Nodes, Resend(n)
    PROVE  BundleInv'
  <1> DEFINE m == maps[n]
             s == IF m.seeded THEN SetEpochSelectionSeed(sess[n], m.seed) ELSE sess[n]
             m2 == IF n \in online
                   THEN [m EXCEPT !.unsentNonces = {}, !.unsentCtx = {}, !.unsentPsigs = {}]
                   ELSE [m EXCEPT !.unsentNonces = {e.oracle : e \in HeldNonces(m)},
                                  !.unsentCtx = {c.ctx : c \in HeldContexts(m)},
                                  !.unsentPsigs = HeldPsigs(m)]
             t == [tick[n] EXCEPT !.pc = "gen",
                     !.todo = IF s.state \in {"CREATED", "NONCES_COLLECTING"}
                              THEN Local[n] \ m.nonceTracker ELSE {}]
  <1>1. SetMaps(n, m2) /\ SetSess(n, s) /\ SetTick(n, t) /\ drawn' = drawn /\ tick[n].pc = "resend"
    BY DEF Resend
  <1>2. /\ SessionInv(s) /\ s.attempt = sess[n].attempt /\ s.sec = sess[n].sec /\ s.pub = sess[n].pub
    BY NodeTypes, SeedGood DEF NodeGood
  <1>3. SameMaps(m, m2)
    BY NodeTypes DEF Maps, SameMaps
  <1>4. /\ t.pc = "gen" /\ t.chosen = tick[n].chosen /\ t.todo \subseteq Local[n]
        /\ t.todo \cap m.nonceTracker = {}
    BY NodeTypes DEF Tick
  <1>5. MsgsGood(msgs', drawn)
    <2>1. msgs' \subseteq msgs \cup HeldNonces(m) \cup HeldContexts(m) \cup HeldPsigs(m)
      BY DEF Resend, Broadcast
    <2>2. /\ \A x \in HeldNonces(m) : x \in drawn /\ x.type = "nonce"
          /\ \A x \in HeldContexts(m) : x.type = "context" /\ NoncesDrawn(drawn, x.attempt, x.evidence)
          /\ \A x \in HeldPsigs(m) : x.type = "psig"
      BY NodeTypes DEF HeldNonces, HeldContexts, HeldPsigs, Maps, NonceMsg, ContextMsg, PsigMsg,
                       NodeGood, Published
    <2> QED BY <2>1, <2>2 DEF BundleInv, MsgsGood
  <1> HIDE DEF s, m2, t
  <1>6. TickGood(n, s, m2, t)
    BY <1>1, <1>2, <1>3, <1>4, NodeTypes, SMTT(60) DEF TickGood, NodeGood, SameMaps
  <1>7. Published(s, m2, t, drawn)
    BY <1>2, <1>3, <1>4, NodeTypes DEF Published, NodeGood, SameMaps
  <1>8. Accounted(n, s, m2, t, drawn)
    BY <1>1, <1>2, <1>3, NodeTypes DEF Accounted, NodeGood, SameMaps
  <1> QED BY <1>1, <1>2, <1>5, <1>6, <1>7, <1>8, Frame DEF NodeGood

\* A draw: the oracle has drawn nothing in this attempt before, because its id
\* is neither tracked nor in hand.
LEMMA BundleDraw ==
    ASSUME TypeInv, BundleInv, NEW n \in Nodes, StepGenerateNonce(n)
    PROVE  BundleInv'
  <1> DEFINE id == NextId(n)
             x == Cardinality(drawn) + 1
             r == NonceRec(sess[n].attempt, id, x)
             s == GenerateNonce(sess[n], id, Oracles, x)
             m == maps[n]
             t == [tick[n] EXCEPT !.pc = "add"]
             u == [tick[n] EXCEPT !.todo = Done(n)]
  <1>1. /\ tick[n].pc = "gen" /\ tick[n].todo # {} /\ id \in tick[n].todo /\ id \in Oracles
        /\ id \in Local[n] /\ id = Current(tick[n]) /\ x \in Nat /\ x # 0
        /\ tick[n].todo \subseteq Local[n] /\ tick[n].todo \cap m.nonceTracker = {}
        /\ m.live /\ sess[n].attempt = m.attempt
    BY NextIdType, NodeTypes, FS_CardinalityType, SMT
    DEF StepGenerateNonce, Tick, NodeGood, TickGood, TypeInv
  <1>2. SetSess(n, s) /\ maps' = maps /\ msgs' = msgs /\ MsgsGood(msgs, drawn)
    BY DEF StepGenerateNonce, BundleInv
  <1>3. SessionInv(s)
    BY <1>1, NodeTypes, NonceOpsInv, SessionAssumption DEF NodeGood
  <1>4. CASE ~ CanGenerateNonce(sess[n], id)
    <2>1. s = sess[n]  BY <1>4 DEF GenerateNonce
    <2>2. SetTick(n, u) /\ drawn' = drawn  BY <1>4 DEF StepGenerateNonce
    <2>3. u.pc = "gen" /\ u.todo \subseteq tick[n].todo /\ u.chosen = tick[n].chosen
      BY <1>1, NodeTypes DEF Tick, Done
    <2> HIDE DEF u
    <2>4. NodeGood(n, sess[n], m, u, drawn)
      <3>1. SessionInv(sess[n])  BY <1>1, <2>3, NodeTypes DEF NodeGood
      <3>2. TickGood(n, sess[n], m, u)  BY <1>1, <2>3, NodeTypes, SMTT(60) DEF NodeGood, TickGood
      <3>3. Published(sess[n], m, u, drawn)  BY <1>1, <2>3, NodeTypes DEF NodeGood, Published
      <3>4. Accounted(n, sess[n], m, u, drawn)  BY <1>1, <2>3, NodeTypes DEF NodeGood, Accounted
      <3> QED BY <3>1, <3>2, <3>3, <3>4 DEF NodeGood
    <2> QED BY <1>2, <2>1, <2>2, <2>4, Frame, Same
  <1>5. CASE CanGenerateNonce(sess[n], id)
    <2>1. /\ s.attempt = sess[n].attempt /\ s.pub = sess[n].pub
          /\ s.sec = [sess[n].sec EXCEPT ![id] = x] /\ sess[n].sec \in NonceMap
      BY <1>5, NodeTypes DEF GenerateNonce, Session
    <2>2. SetTick(n, t) /\ drawn' = drawn \cup {r}  BY <1>5 DEF StepGenerateNonce, Goto
    <2>3. t.pc = "add" /\ t.todo = tick[n].todo /\ t.chosen = tick[n].chosen /\ Current(t) = id
      BY <1>1, NodeTypes DEF Tick, Current
    <2>4. r.attempt = sess[n].attempt /\ r.oracle = id /\ r.nonce = x
      BY DEF NonceRec
    <2>5. \A d \in drawn : d.oracle = id => d.attempt < sess[n].attempt
      BY <1>1, NodeTypes DEF NodeGood, Accounted
    <2>6. \A d \in drawn : d.attempt \in Nat
      BY NodeTypes DEF NonceMsg
    <2>7. UniqueNonces(drawn')
      <3>1. sess[n].attempt \in Nat  BY NodeTypes
      <3> HIDE DEF r
      <3> QED BY <2>2, <2>4, <2>5, <2>6, <3>1, SMT DEF UniqueNonces, BundleInv
    <2>8. \A d \in drawn' : d.nonce # 0
      BY <1>1, <2>2, <2>4 DEF BundleInv
    <2>9. \A a, f : NoncesDrawn(drawn, a, f) => NoncesDrawn(drawn', a, f)
      BY <2>2 DEF NoncesDrawn
    <2>10. MsgsGood(msgs', drawn')
      BY <1>2, <2>2, <2>9 DEF MsgsGood
    <2> HIDE DEF s, t, r, x, id
    <2>11. TickGood(n, s, m, t)
      <3>1. \A c, d \in t.chosen : c = d  BY <2>3, NodeTypes, SMT DEF NodeGood, TickGood
      <3>2. s.sec[id] = x  BY <1>1, <2>1 DEF NonceMap
      <3> QED BY <1>1, <2>1, <2>3, <3>1, <3>2 DEF TickGood
    <2>12. NoncesDrawn(drawn', s.attempt, s.sec)
      <3>1. NoncesDrawn(drawn, s.attempt, sess[n].sec)
        BY <2>1, NodeTypes DEF NodeGood, Published
      <3>2. \A j \in Oracles : s.sec[j] = IF j = id THEN x ELSE sess[n].sec[j]
        BY <1>1, <2>1 DEF NonceMap
      <3>3. NonceRec(s.attempt, id, x) \in drawn'
        BY <2>1, <2>2 DEF r
      <3> QED BY <2>2, <3>1, <3>2, <3>3 DEF NoncesDrawn
    <2>13. Published(s, m, t, drawn')
      BY <2>1, <2>2, <2>3, <2>9, <2>12, NodeTypes DEF Published, NodeGood
    <2>14. Accounted(n, s, m, t, drawn')
      BY <1>1, <2>1, <2>2, <2>3, <2>4, NodeTypes DEF Accounted, NodeGood
    <2>15. NodeGood(n, s, m, t, drawn')
      BY <1>3, <2>11, <2>13, <2>14 DEF NodeGood
    <2>16. ASSUME NEW k \in Nodes, k # n
           PROVE  NodeGood(k, sess[k], maps[k], tick[k], drawn')
      <3>1. NodeGood(k, sess[k], maps[k], tick[k], drawn)  BY NodeTypes
      <3>2. id \notin Local[k]  BY <1>1, <2>16, OrchestratorAssumption
      <3>3. Published(sess[k], maps[k], tick[k], drawn')
        BY <2>2, <2>9, <3>1 DEF NodeGood, Published
      <3>4. Accounted(k, sess[k], maps[k], tick[k], drawn')
        BY <2>2, <2>4, <3>1, <3>2 DEF NodeGood, Accounted
      <3> QED BY <3>1, <3>3, <3>4 DEF NodeGood
    <2>17. \A k \in Nodes : NodeGood(k, sess'[k], maps'[k], tick'[k], drawn')
      BY <1>2, <2>2, <2>15, <2>16 DEF SetSess, SetTick, TypeInv, TypeOK
    <2> QED BY <2>7, <2>8, <2>10, <2>17 DEF BundleInv
  <1> QED BY <1>4, <1>5

-----------------------------------------------------------------------------
(* The steps of a tick from the storing of a nonce to the signatures.      *)

\* Storing and sending the nonce in hand.
LEMMA BundleStore ==
    ASSUME TypeInv, BundleInv, NEW n \in Nodes, StepStoreNonce(n)
    PROVE  BundleInv'
  <1> DEFINE id == NextId(n)
             x == sess[n].sec[id]
             r == NonceRec(sess[n].attempt, id, x)
             s == AddPubnonce(sess[n], id, x)
             m == maps[n]
             m2 == [m EXCEPT
               !.nonceTracker = m.nonceTracker \cup {id},
               !.evidence = {e \in m.evidence : e.oracle # id} \cup {r},
               !.unsentNonces = m.unsentNonces \cup {id}]
             t == [tick[n] EXCEPT !.pc = "sendnonce"]
  <1>1. /\ tick[n].pc = "add" /\ tick[n].todo # {} /\ id \in tick[n].todo /\ id \in Oracles
        /\ id = Current(tick[n]) /\ x # 0 /\ x \in Nat
        /\ tick[n].todo \subseteq Local[n] /\ tick[n].todo \cap m.nonceTracker = {}
        /\ m.live /\ sess[n].attempt = m.attempt
    <2>1. tick[n].pc = "add"  BY DEF StepStoreNonce
    <2>2. id = Current(tick[n])  BY NodeTypes
    <2>3. /\ tick[n].todo # {} /\ x # 0 /\ tick[n].todo \subseteq Local[n]
          /\ tick[n].todo \cap m.nonceTracker = {} /\ m.live /\ sess[n].attempt = m.attempt
      BY <2>1, <2>2, NodeTypes DEF NodeGood, TickGood
    <2>4. id \in tick[n].todo /\ id \in Oracles
      BY <2>3, NextIdType, NodeTypes
    <2>5. x \in Nat  BY <2>4, NodeTypes DEF Session, NonceMap
    <2> QED BY <2>1, <2>2, <2>3, <2>4, <2>5
  <1>2. SetSess(n, s) /\ SetMaps(n, m2) /\ SetTick(n, t) /\ drawn' = drawn /\ msgs' = msgs
        /\ MsgsGood(msgs, drawn)
    BY DEF StepStoreNonce, BundleInv, Goto
  <1>3. SessionInv(s)
    BY <1>1, NodeTypes, NonceOpsInv, SessionAssumption DEF NodeGood
  <1>4. /\ s.attempt = sess[n].attempt /\ s.sec = sess[n].sec
        /\ \A j \in Oracles : s.pub[j] = sess[n].pub[j] \/ (j = id /\ s.pub[j] = x)
    <2> DEFINE pub2 == [sess[n].pub EXCEPT ![id] = x]
               w == [sess[n] EXCEPT !.pub = pub2]
    <2>1. \A j \in Oracles : pub2[j] = sess[n].pub[j] \/ (j = id /\ pub2[j] = x)
      BY <1>1, NodeTypes DEF Session, NonceMap
    <2> HIDE DEF pub2, x
    <2>2. w.attempt = sess[n].attempt /\ w.sec = sess[n].sec /\ w.pub = pub2
      BY NodeTypes DEF Session
    <2>3. [w EXCEPT !.state = "NONCES_COMPLETE"].pub = w.pub
          /\ [w EXCEPT !.state = "NONCES_COMPLETE"].sec = w.sec
          /\ [w EXCEPT !.state = "NONCES_COMPLETE"].attempt = w.attempt
      BY NodeTypes DEF Session
    <2>4. s = sess[n] \/ s = w \/ s = [w EXCEPT !.state = "NONCES_COMPLETE"]
      BY DEF AddPubnonce, pub2
    <2> HIDE DEF w, s
    <2> QED BY <2>1, <2>2, <2>3, <2>4
  <1>5. r \in drawn
    BY <1>1, NodeTypes DEF NodeGood, Published, NoncesDrawn
  <1>6. /\ m2.live = m.live /\ m2.attempt = m.attempt /\ m2.evidence \subseteq m.evidence \cup {r}
        /\ m2.contexts = m.contexts /\ m2.nonceTracker = m.nonceTracker \cup {id}
    BY NodeTypes DEF Maps
  <1>7. t.pc = "sendnonce" /\ t.todo = tick[n].todo /\ t.chosen = tick[n].chosen /\ Current(t) = id
    BY <1>1, NodeTypes DEF Tick, Current
  <1>8. NoncesDrawn(drawn, s.attempt, s.pub)
    BY <1>4, <1>5, NodeTypes DEF NodeGood, Published, NoncesDrawn
  <1> HIDE DEF s, m2, t, r, id
  <1>9. TickGood(n, s, m2, t)
    <2>1. \A c, d \in t.chosen : c = d  BY <1>7, NodeTypes, SMTT(30) DEF NodeGood, TickGood
    <2> QED BY <1>1, <1>4, <1>6, <1>7, <2>1 DEF TickGood, x
  <1>10. Published(s, m2, t, drawn)
    BY <1>4, <1>5, <1>6, <1>7, <1>8, NodeTypes DEF Published, NodeGood
  <1>11. Accounted(n, s, m2, t, drawn)
    BY <1>1, <1>4, <1>6, NodeTypes DEF Accounted, NodeGood
  <1> QED BY <1>2, <1>3, <1>9, <1>10, <1>11, Frame DEF NodeGood

\* Sending the nonce and leaving the loop.
LEMMA BundleSendNonce ==
    ASSUME TypeInv, BundleInv, NEW n \in Nodes, StepSendNonce(n) \/ StepNoncesDone(n)
    PROVE  BundleInv'
  <1> DEFINE id == NextId(n)
             m == maps[n]
             T == tick[n]
  <1>0. TickGood(n, sess[n], m, T)
    BY NodeTypes DEF NodeGood
  <1>1. CASE StepSendNonce(n)
    <2> DEFINE r == NonceRec(sess[n].attempt, id, sess[n].sec[id])
               m2 == IF n \in online THEN [m EXCEPT !.unsentNonces = m.unsentNonces \ {id}] ELSE m
               t == [T EXCEPT !.pc = "gen", !.todo = Done(n)]
    <2>1. /\ T.pc = "sendnonce" /\ T.todo # {} /\ id \in Oracles /\ id = Current(T)
          /\ sess[n].sec[id] # 0 /\ T.todo \subseteq Local[n] /\ m.live
          /\ Done(n) \cap m.nonceTracker = {}
      BY <1>1, NextIdType, NodeTypes DEF StepSendNonce, Tick, NodeGood, TickGood, Done
    <2>2. SetMaps(n, m2) /\ SetSess(n, sess[n]) /\ SetTick(n, t) /\ drawn' = drawn
      BY <1>1, Same DEF StepSendNonce
    <2>3. r \in drawn
      BY <2>1, NodeTypes DEF NodeGood, Published, NoncesDrawn
    <2>4. MsgsGood(msgs', drawn)
      BY <1>1, <2>3, SMT DEF StepSendNonce, Broadcast, MsgsGood, BundleInv, NonceRec
    <2>5. t.pc = "gen" /\ t.todo = Done(n) /\ t.chosen = T.chosen /\ t.todo \subseteq T.todo
      BY NodeTypes DEF Tick, Done
    <2>6. SameMaps(m, m2)
      BY NodeTypes DEF Maps, SameMaps
    <2> HIDE DEF m2, t
    <2>7. NodeGood(n, sess[n], m2, t, drawn)
      <3>1. SessionInv(sess[n])  BY <2>1, <2>5, <2>6, NodeTypes DEF NodeGood
      <3>2. TickGood(n, sess[n], m2, t)
        <4>1. sess[n].attempt = m.attempt /\ \A c, d \in t.chosen : c = d
          BY <1>0, <2>5 DEF TickGood
        <4> QED BY <2>1, <2>5, <2>6, <4>1 DEF TickGood, SameMaps
      <3>3. Published(sess[n], m2, t, drawn)  BY <2>1, <2>5, <2>6, NodeTypes DEF NodeGood, Published, SameMaps
      <3>4. Accounted(n, sess[n], m2, t, drawn)  BY <2>1, <2>5, <2>6, NodeTypes DEF NodeGood, Accounted, SameMaps
      <3> QED BY <3>1, <3>2, <3>3, <3>4 DEF NodeGood
    <2> QED BY <2>2, <2>4, <2>7, Frame
  <1>2. CASE StepNoncesDone(n)
    <2> DEFINE t == [T EXCEPT !.pc = IF sess[n].state = "NONCES_COMPLETE" THEN "converge" ELSE "drain"]
    <2>1. /\ SetMaps(n, m) /\ SetSess(n, sess[n]) /\ SetTick(n, t) /\ drawn' = drawn /\ msgs' = msgs
          /\ T.pc = "gen" /\ m.live
      BY <1>2, Same, NodeTypes DEF StepNoncesDone, Goto, NodeGood, TickGood
    <2>2. /\ t.pc = "drain" \/ (t.pc = "converge" /\ sess[n].state = "NONCES_COMPLETE")
          /\ t.chosen = T.chosen
      BY NodeTypes DEF Tick
    <2> HIDE DEF t
    <2>3. NodeGood(n, sess[n], m, t, drawn)
      <3>1. SessionInv(sess[n])  BY <2>1, <2>2, NodeTypes DEF NodeGood
      <3>2. TickGood(n, sess[n], m, t)
        <4>1. sess[n].attempt = m.attempt /\ \A c, d \in t.chosen : c = d
          BY <1>0, <2>2 DEF TickGood
        <4> QED BY <2>1, <2>2, <4>1 DEF TickGood
      <3>3. Published(sess[n], m, t, drawn)  BY <2>1, <2>2, NodeTypes DEF NodeGood, Published
      <3>4. Accounted(n, sess[n], m, t, drawn)  BY <2>1, <2>2, NodeTypes DEF NodeGood, Accounted
      <3> QED BY <3>1, <3>2, <3>3, <3>4 DEF NodeGood
    <2> QED BY <2>1, <2>3, Frame DEF BundleInv
  <1> QED BY <1>1, <1>2

-----------------------------------------------------------------------------
\* Converging: a chosen proposal has MinSigners participants, one we propose
\* carries only nonces we have evidence of.
LEMMA BundleConverge ==
    ASSUME TypeInv, BundleInv, NEW n \in Nodes,
           \/ StepWait(n) \/ StepChoose(n) \/ StepNoContext(n) \/ StepSendContext(n)
           \/ \E id \in Oracles, v \in Values : StepPropose(n, id, v)
    PROVE  BundleInv'
  <1> DEFINE m == maps[n]
             T == tick[n]
             t0 == Idle(T.height)
  <1>1. t0.pc = "idle" /\ t0.chosen = {}  BY DEF Idle
  <1>2. MsgsGood(msgs, drawn)  BY DEF BundleInv
  <1> HIDE DEF t0
  <1>3. CASE StepWait(n)
    <2> DEFINE s == IF SeedKnown(n) THEN SetEpochSelectionSeed(sess[n], m.seed) ELSE sess[n]
    <2>1. SetSess(n, s) /\ SetMaps(n, m) /\ SetTick(n, t0) /\ T.pc = "converge"
          /\ drawn' = drawn /\ msgs' = msgs
      BY <1>3, Same DEF StepWait, Return, t0
    <2>2. /\ SessionInv(s) /\ s.attempt = sess[n].attempt /\ s.sec = sess[n].sec /\ s.pub = sess[n].pub
      BY NodeTypes, SeedGood DEF NodeGood
    <2> HIDE DEF s
    <2>3. NodeGood(n, s, m, t0, drawn)
      <3>1. NoncesDrawn(drawn, sess[n].attempt, s.sec)  BY <1>1, <2>1, <2>2, NodeTypes DEF NodeGood, Published
      <3>2. SameMaps(m, m)  BY DEF SameMaps
      <3> QED BY <3>1, <3>2, <1>1, <2>1, <2>2, NodeTypes, Relaxed
    <2> QED BY <1>2, <2>1, <2>3, Frame
  <1>4. CASE StepChoose(n)
    <2>1. PICK c \in SelectReadyContextProposal(n) :
             SetTick(n, [T EXCEPT !.pc = "trim", !.chosen = {c}])
      BY <1>4 DEF StepChoose
    <2> DEFINE t == [T EXCEPT !.pc = "trim", !.chosen = {c}]
    <2>2. SetSess(n, sess[n]) /\ SetMaps(n, m) /\ SetTick(n, t) /\ T.pc = "converge"
          /\ drawn' = drawn /\ msgs' = msgs
      BY <1>4, <2>1, Same DEF StepChoose
    <2>3. c \in m.contexts /\ Cardinality(Holders(c.ctx.nonces)) = MinSigners
      BY <2>1 DEF SelectReadyContextProposal, ReadyProposals, ValidateContextProposal
    <2>4. t.pc = "trim" /\ t.chosen = {c}
      BY NodeTypes DEF Tick
    <2> HIDE DEF t
    <2>5. NodeGood(n, sess[n], m, t, drawn)
      <3>1. SessionInv(sess[n])  BY <2>2, <2>3, <2>4, NodeTypes DEF NodeGood
      <3>2. TickGood(n, sess[n], m, t)  BY <2>2, <2>3, <2>4, NodeTypes DEF NodeGood, TickGood
      <3>3. Published(sess[n], m, t, drawn)  BY <2>2, <2>3, <2>4, NodeTypes DEF NodeGood, Published
      <3>4. Accounted(n, sess[n], m, t, drawn)  BY <2>2, <2>3, <2>4, NodeTypes DEF NodeGood, Accounted
      <3> QED BY <3>1, <3>2, <3>3, <3>4 DEF NodeGood
    <2> QED BY <1>2, <2>2, <2>5, Frame
  <1>5. CASE StepNoContext(n)
    <2> DEFINE t == [T EXCEPT !.pc = "drain"]
    <2>1. SetSess(n, sess[n]) /\ SetMaps(n, m) /\ SetTick(n, t) /\ T.pc = "converge" /\ m.live
          /\ drawn' = drawn /\ msgs' = msgs
      BY <1>5, Same, NodeTypes DEF StepNoContext, Goto, NodeGood, TickGood
    <2>2. t.pc = "drain" /\ t.chosen = T.chosen  BY NodeTypes DEF Tick
    <2> HIDE DEF t
    <2>3. SameMaps(m, m)  BY SMT DEF SameMaps
    <2>4. NodeGood(n, sess[n], m, T, drawn)  BY NodeTypes
    <2>5. NodeGood(n, sess[n], m, t, drawn)  BY <2>1, <2>2, <2>3, <2>4, RelaxedTick
    <2> QED BY <1>2, <2>1, <2>5, Frame
  <1>6. CASE StepSendContext(n)
    <2> DEFINE m2 == [m EXCEPT !.unsentCtx =
                        IF n \in online THEN {} ELSE {c.ctx : c \in T.chosen}]
    <2>1. SetSess(n, sess[n]) /\ SetMaps(n, m2) /\ SetTick(n, t0) /\ T.pc = "sendctx"
          /\ drawn' = drawn
      BY <1>6, Same DEF StepSendContext, Return, t0
    <2>2. MsgsGood(msgs', drawn)
      <3>1. \A c \in T.chosen : c.type = "context" /\ NoncesDrawn(drawn, c.attempt, c.evidence)
        BY NodeTypes DEF Tick, ContextMsg, NodeGood, Published
      <3>2. msgs' \subseteq msgs \cup T.chosen
        BY <1>6 DEF StepSendContext, Broadcast
      <3> QED BY <1>2, <3>1, <3>2 DEF MsgsGood
    <2>3. SameMaps(m, m2)
      BY NodeTypes DEF Maps, SameMaps
    <2> HIDE DEF m2
    <2>4. NodeGood(n, sess[n], m2, t0, drawn)
      BY <1>1, <2>1, <2>3, NodeTypes, RelaxedTick
    <2> QED BY <2>1, <2>2, <2>4, Frame
  <1>7. ASSUME NEW id \in Oracles, NEW v \in Values, StepPropose(n, id, v) PROVE BundleInv'
    <2> DEFINE P == Required(sess[n])
               E == EvidenceFor(n, P)
               ev == [j \in Oracles |->
                        IF j \in P THEN (CHOOSE e \in E : e.oracle = j).nonce ELSE 0]
               c == [type |-> "context", attempt |-> sess[n].attempt, proposer |-> id,
                     ctx |-> ContextFor(sess[n], P, v), evidence |-> ev]
               m2 == [m EXCEPT !.contexts = {d \in m.contexts : d.ctx # c.ctx} \cup {c},
                               !.ctxTracker = m.ctxTracker \cup {id}]
               t == [T EXCEPT !.pc = "sendctx", !.chosen = {c}]
    <2>1. SetSess(n, sess[n]) /\ SetMaps(n, m2) /\ SetTick(n, t) /\ T.pc = "converge"
          /\ drawn' = drawn /\ msgs' = msgs
      BY <1>7, Same DEF StepPropose
    <2>2. \A j \in P : \E e \in E : e.oracle = j
      BY <1>7 DEF StepPropose, CanBuildProposal
    <2>3. \A e \in E : e \in drawn /\ e = NonceRec(sess[n].attempt, e.oracle, e.nonce)
      BY NodeTypes, SMT DEF EvidenceFor, NodeGood, Published, NonceMsg, NonceRec
    <2>4. NoncesDrawn(drawn, sess[n].attempt, ev)
      BY <2>2, <2>3 DEF NoncesDrawn
    <2>5. c.attempt = sess[n].attempt /\ c.evidence = ev  OBVIOUS
    <2> HIDE DEF ev, c
    <2>6. /\ m2.live = m.live /\ m2.attempt = m.attempt /\ m2.evidence = m.evidence
          /\ m2.contexts \subseteq m.contexts \cup {c} /\ m2.nonceTracker = m.nonceTracker
      BY NodeTypes DEF Maps
    <2>7. t.pc = "sendctx" /\ t.chosen = {c}
      BY NodeTypes DEF Tick
    <2> HIDE DEF m2, t
    <2>8. NodeGood(n, sess[n], m2, t, drawn)
      <3>1. SessionInv(sess[n])  BY <2>1, <2>4, <2>5, <2>6, <2>7, NodeTypes DEF NodeGood
      <3>2. TickGood(n, sess[n], m2, t)  BY <2>1, <2>4, <2>5, <2>6, <2>7, NodeTypes DEF NodeGood, TickGood, SameMaps
      <3>3. Published(sess[n], m2, t, drawn)  BY <2>1, <2>4, <2>5, <2>6, <2>7, NodeTypes DEF NodeGood, Published, SameMaps
      <3>4. Accounted(n, sess[n], m2, t, drawn)  BY <2>1, <2>4, <2>5, <2>6, <2>7, NodeTypes DEF NodeGood, Accounted, SameMaps
      <3> QED BY <3>1, <3>2, <3>3, <3>4 DEF NodeGood
    <2> QED BY <1>2, <2>1, <2>8, Frame
  <1> QED BY <1>3, <1>4, <1>5, <1>6, <1>7

\* Freezing, binding and signing.
LEMMA BundleSign ==
    ASSUME TypeInv, BundleInv, NEW n \in Nodes, NEW ok \in BOOLEAN,
           \/ StepTrim(n) \/ StepBind(n, ok) \/ StepSign(n, ok)
    PROVE  BundleInv'
  <1> DEFINE m == maps[n]
             T == tick[n]
             t0 == Idle(T.height)
  <1>1. t0.pc = "idle" /\ t0.chosen = {}  BY DEF Idle
  <1>2. MsgsGood(msgs, drawn)  BY DEF BundleInv
  <1>3. sess[n] \in Session /\ NodeGood(n, sess[n], m, T, drawn) /\ T \in Tick /\ T.chosen \subseteq ContextMsg
    BY NodeTypes DEF Tick
  <1> HIDE DEF t0
  <1>4. CASE StepTrim(n)
    <2>1. PICK c \in T.chosen :
             LET P == Holders(c.ctx.nonces)
                 s == SetSignedValues(sess[n], c.ctx.msg)
                 u == TrimNoncesToParticipants(s, P)
             IN  IF CanTrim(s, P)
                 THEN SetSess(n, SetKeyAggCache(u, Holders(u.pub))) /\ Goto(n, "bind")
                 ELSE SetSess(n, s) /\ Return(n)
      BY <1>4 DEF StepTrim
    <2> DEFINE P == Holders(c.ctx.nonces)
               v == c.ctx.msg
               s == SetSignedValues(sess[n], v)
               u == TrimNoncesToParticipants(s, P)
               w == SetKeyAggCache(u, Holders(u.pub))
               t == [T EXCEPT !.pc = "bind"]
    <2>2. SetMaps(n, m) /\ T.pc = "trim" /\ drawn' = drawn /\ msgs' = msgs
      BY <1>4, Same DEF StepTrim
    <2>3. /\ P \in SUBSET Oracles /\ v \in Values \cup {0} /\ Cardinality(P) = MinSigners
          /\ sess[n].state = "NONCES_COMPLETE" /\ SessionInv(sess[n])
      BY <1>3, <2>2 DEF ContextMsg, Context, Holders, NodeGood, TickGood
    <2>4. SessionInv(s) /\ SessionInv(w)
      BY <1>3, <2>3, TrimInv
    <2>5. /\ s.attempt = sess[n].attempt /\ s.sec = sess[n].sec /\ s.pub = sess[n].pub
          /\ s.state = sess[n].state /\ s.signed = v /\ s \in Session
      BY <1>3, <2>3 DEF SetSignedValues, Session
    <2>6. CASE ~ CanTrim(s, P)
      <3>1. SetSess(n, s) /\ SetTick(n, t0)
        BY <2>1, <2>6 DEF Return, t0
      <3> HIDE DEF s, P
      <3>2. NodeGood(n, s, m, t0, drawn)
        <4>1. NoncesDrawn(drawn, sess[n].attempt, s.sec)  BY <1>1, <1>3, <2>2, <2>4, <2>5 DEF NodeGood, Published
        <4>2. SameMaps(m, m)  BY DEF SameMaps
        <4> QED BY <4>1, <4>2, <1>1, <1>3, <2>2, <2>4, <2>5, Relaxed
      <3> QED BY <1>2, <2>2, <3>1, <3>2, Frame
    <2>7. CASE CanTrim(s, P)
      <3>1. SetSess(n, w) /\ SetTick(n, t)
        BY <2>1, <2>7 DEF Goto
      <3> HIDE DEF s, P
      <3>2. u.frozen /\ u.pub = Keep(s.pub, P) /\ u.attempt = s.attempt /\ u.sec = s.sec
            /\ u.state = s.state /\ u.signed = v /\ u \in Session
        BY <2>3, <2>5, <2>7, BindOpsType DEF TrimNoncesToParticipants, Session
      <3> HIDE DEF u
      <3>3. w.frozen /\ w.pub = u.pub /\ w.attempt = s.attempt /\ w.sec = s.sec
            /\ w.state = s.state /\ w.signed = v /\ w.keys = Holders(w.pub)
        BY <3>2 DEF SetKeyAggCache, Session
      <3>4. NoncesDrawn(drawn, w.attempt, w.pub)
        <4>1. \A id \in Oracles : w.pub[id] = 0 \/ w.pub[id] = sess[n].pub[id]
          <5>1. w.pub = Keep(sess[n].pub, P)  BY <2>5, <3>2, <3>3
          <5> HIDE DEF w
          <5> QED BY <5>1 DEF Keep
        <4>2. w.attempt = sess[n].attempt  BY <2>5, <3>3
        <4>3. NoncesDrawn(drawn, sess[n].attempt, sess[n].pub)
          BY <1>3 DEF NodeGood, Published
        <4> QED BY <4>1, <4>2, <4>3 DEF NoncesDrawn
      <3>5. t.pc = "bind" /\ t.chosen = T.chosen
        BY <1>3 DEF Tick
      <3>6. \A d \in t.chosen : v = d.ctx.msg
        <4>1. \A d \in T.chosen : c = d  BY <1>3, <2>1 DEF NodeGood, TickGood
        <4> QED BY <3>5, <4>1
      <3> HIDE DEF w, t
      <3> HIDE DEF v
      <3>7. TickGood(n, w, m, t)
        BY <1>3, <2>2, <2>3, <2>5, <3>3, <3>5, <3>6 DEF NodeGood, TickGood
      <3>8. Published(w, m, t, drawn) /\ Accounted(n, w, m, t, drawn)
        BY <1>3, <2>2, <2>5, <3>3, <3>4, <3>5 DEF NodeGood, Published, Accounted
      <3>9. NodeGood(n, w, m, t, drawn)
        BY <2>4, <3>7, <3>8 DEF NodeGood
      <3> QED BY <1>2, <2>2, <3>1, <3>9, Frame
    <2> QED BY <2>6, <2>7
  <1>5. CASE StepBind(n, ok)
    <2>1. PICK c \in T.chosen : SetSess(n, AggregateNonces(sess[n], c.ctx.msg, ok))
      BY <1>5 DEF StepBind
    <2> DEFINE s == AggregateNonces(sess[n], c.ctx.msg, ok)
               t == [T EXCEPT !.pc = IF ok THEN "sign" ELSE "drain",
                       !.todo = (Local[n] \cap Holders(sess[n].pub)) \ m.psigTracker]
    <2>2. SetMaps(n, m) /\ SetTick(n, t) /\ T.pc = "bind" /\ drawn' = drawn /\ msgs' = msgs
      BY <1>5, Same DEF StepBind
    <2>3. /\ sess[n].frozen /\ sess[n].keys = Holders(sess[n].pub) /\ sess[n].signed = c.ctx.msg
          /\ SessionInv(sess[n]) /\ m.live
      BY <1>3, <2>1, <2>2 DEF NodeGood, TickGood
    <2>4. SessionInv(s)  BY <1>3, <2>3, BindInv
    <2>5. s.attempt = sess[n].attempt /\ s.sec = sess[n].sec /\ s.pub = sess[n].pub
      BY <1>3 DEF AggregateNonces, Session
    <2>6. t.pc \in {"sign", "drain"} /\ t.chosen = T.chosen
      BY <1>3 DEF Tick
    <2> HIDE DEF s, t
    <2>7. NodeGood(n, s, m, t, drawn)
      <3>1. NoncesDrawn(drawn, sess[n].attempt, s.sec)  BY <1>3, <2>2, <2>3, <2>4, <2>5, <2>6 DEF NodeGood, Published
      <3>2. SameMaps(m, m)  BY SMT DEF SameMaps
      <3> QED BY <3>1, <3>2, <1>3, <2>2, <2>3, <2>4, <2>5, <2>6, Relaxed
    <2> QED BY <1>2, <2>1, <2>2, <2>7, Frame DEF s
  <1>6. CASE StepSign(n, ok)
    <2> DEFINE id == NextId(n)
               sig == SignatureOf(sess[n], id)
               msg == [type |-> "psig", attempt |-> sess[n].attempt, ctx |-> sess[n].ctx, sig |-> sig]
               s == ConsumeNonce(sess[n], id)
               w == AddPartialSignature(s, sig)
               t == [T EXCEPT !.pc = "sendsig", !.out = {msg}]
               u == [T EXCEPT !.todo = Done(n)]
    <2>1. SetMaps(n, m) /\ T.pc = "sign" /\ T.todo # {} /\ drawn' = drawn /\ msgs' = msgs
      BY <1>6, Same DEF StepSign
    <2>2. m.live /\ id \in Oracles
      BY <1>3, <2>1, NextIdType DEF NodeGood, TickGood, Tick
    <2>3. t.pc = "sendsig" /\ t.chosen = T.chosen /\ u.pc = "sign" /\ u.chosen = T.chosen
      BY <1>3, <2>1 DEF Tick
    <2>4. CASE ~ CanSign(sess[n], id)
      <3>1. SetSess(n, sess[n]) /\ SetTick(n, u)
        BY <1>6, <2>4, Same DEF StepSign
      <3>2. SameMaps(m, m)  BY DEF SameMaps
      <3> HIDE DEF u, t
      <3>3. NodeGood(n, sess[n], m, u, drawn)
        BY <1>3, <2>1, <2>2, <2>3, <3>2, RelaxedTick
      <3> QED BY <1>2, <2>1, <3>1, <3>3, Frame
    <2>5. CASE CanSign(sess[n], id)
      <3>1. \/ SetSess(n, s) /\ SetTick(n, u)
            \/ SetSess(n, w) /\ SetTick(n, t)
        BY <1>6, <2>5 DEF StepSign
      <3>2. sess[n].sec[id] = sess[n].pub[id]
        <4>1. /\ NonceRec(sess[n].attempt, id, sess[n].sec[id]) \in drawn
              /\ NonceRec(sess[n].attempt, id, sess[n].pub[id]) \in drawn
          BY <1>3, <2>2, <2>5 DEF CanSign, NodeGood, Published, NoncesDrawn
        <4>2. UniqueNonces(drawn)  BY DEF BundleInv
        <4> QED BY <4>1, <4>2 DEF UniqueNonces, NonceRec
      <3>3. SessionInv(s) /\ SessionInv(w)
        BY <1>3, <2>2, <2>5, <3>2, SignInv DEF NodeGood
      <3>4. /\ s.attempt = sess[n].attempt /\ s.pub = sess[n].pub
            /\ s.sec = [sess[n].sec EXCEPT ![id] = 0]
            /\ w.attempt = s.attempt /\ w.pub = s.pub /\ w.sec = s.sec
        BY <1>3 DEF ConsumeNonce, AddPartialSignature, Session
      <3>5. \A j \in Oracles : s.sec[j] = 0 \/ s.sec[j] = sess[n].sec[j]
        BY <1>3, <3>4 DEF Session, NonceMap
      <3> HIDE DEF s, w, t, u
      <3>6. NoncesDrawn(drawn, s.attempt, s.sec)
        BY <1>3, <3>4, <3>5 DEF NodeGood, Published, NoncesDrawn
      <3>7. TickGood(n, s, m, u) /\ TickGood(n, w, m, t)
        BY <1>3, <2>1, <2>2, <2>3, <3>4 DEF NodeGood, TickGood
      <3>8. Published(s, m, u, drawn) /\ Published(w, m, t, drawn)
        BY <1>3, <2>3, <3>4, <3>6 DEF NodeGood, Published
      <3>9. Accounted(n, s, m, u, drawn) /\ Accounted(n, w, m, t, drawn)
        BY <1>3, <2>1, <2>2, <2>3, <3>4 DEF NodeGood, Accounted
      <3>10. NodeGood(n, s, m, u, drawn) /\ NodeGood(n, w, m, t, drawn)
        BY <3>3, <3>7, <3>8, <3>9 DEF NodeGood
      <3> QED BY <1>2, <2>1, <3>1, <3>10, Frame
    <2> QED BY <2>4, <2>5
  <1> QED BY <1>4, <1>5, <1>6

-----------------------------------------------------------------------------
(* The end of the tick, the handlers, and the theorem.                     *)

\* The rest of the tick.
LEMMA BundleFinish ==
    ASSUME TypeInv, BundleInv, NEW n \in Nodes, NEW ok \in BOOLEAN,
           \/ StepSendPsig(n) \/ StepSignDone(n) \/ StepDrain(n) \/ StepFinish(n, ok)
    PROVE  BundleInv'
  <1> DEFINE m == maps[n]
             T == tick[n]
  <1>1. MsgsGood(msgs, drawn)  BY DEF BundleInv
  <1>2. sess[n] \in Session /\ NodeGood(n, sess[n], m, T, drawn) /\ T \in Tick /\ m \in Maps
    BY NodeTypes
  <1>3. CASE StepSendPsig(n)
    <2> DEFINE id == NextId(n)
               others == {p \in m.unsentPsigs : p.sig.oracle # id}
               m2 == [m EXCEPT !.psigTracker = m.psigTracker \cup {id},
                        !.unsentPsigs = IF n \in online THEN others ELSE others \cup T.out]
               t == [T EXCEPT !.pc = "sign", !.todo = Done(n), !.out = {}]
    <2>1. SetSess(n, sess[n]) /\ SetMaps(n, m2) /\ SetTick(n, t) /\ T.pc = "sendsig" /\ drawn' = drawn
      BY <1>3, Same DEF StepSendPsig
    <2>2. MsgsGood(msgs', drawn)
      <3>1. \A p \in T.out : p.type = "psig"  BY <1>2 DEF Tick, PsigMsg
      <3>2. msgs' \subseteq msgs \cup T.out  BY <1>3 DEF StepSendPsig, Broadcast
      <3> QED BY <1>1, <3>1, <3>2 DEF MsgsGood
    <2>3. SameMaps(m, m2)
      BY <1>2 DEF Maps, SameMaps
    <2>4. t.pc = "sign" /\ t.chosen = T.chosen  BY <1>2 DEF Tick
    <2> HIDE DEF m2, t
    <2>5. NodeGood(n, sess[n], m2, t, drawn)
      BY <1>2, <2>1, <2>3, <2>4, RelaxedTick
    <2> QED BY <2>1, <2>2, <2>5, Frame
  <1>4. CASE StepSignDone(n)
    <2> DEFINE t == [T EXCEPT !.pc = "drain"]
    <2>1. SetSess(n, sess[n]) /\ SetMaps(n, m) /\ SetTick(n, t) /\ T.pc = "sign" /\ m.live
          /\ drawn' = drawn /\ msgs' = msgs
      BY <1>2, <1>4, Same DEF StepSignDone, Goto, NodeGood, TickGood
    <2>2. t.pc = "drain" /\ t.chosen = T.chosen  BY <1>2 DEF Tick
    <2> HIDE DEF t
    <2>3. SameMaps(m, m)  BY DEF SameMaps
    <2>4. NodeGood(n, sess[n], m, t, drawn)  BY <1>2, <2>1, <2>2, <2>3, RelaxedTick
    <2> QED BY <1>1, <2>1, <2>4, Frame
  <1>5. CASE StepDrain(n)
    <2> DEFINE mine == {p \in m.pending : sess[n].state = "SIGNING" /\ p.ctx = sess[n].ctx}
               m2 == [m EXCEPT !.pending = m.pending \ mine]
               t == [T EXCEPT !.pc = "finish", !.out = mine]
    <2>1. SetSess(n, sess[n]) /\ SetMaps(n, m2) /\ SetTick(n, t) /\ T.pc = "drain"
          /\ drawn' = drawn /\ msgs' = msgs
      BY <1>5, Same DEF StepDrain
    <2>2. SameMaps(m, m2)
      BY <1>2 DEF Maps, SameMaps
    <2>3. t.pc = "finish" /\ t.chosen = T.chosen  BY <1>2 DEF Tick
    <2> HIDE DEF m2, t
    <2>4. NodeGood(n, sess[n], m2, t, drawn)
      BY <1>2, <2>1, <2>2, <2>3, RelaxedTick
    <2> QED BY <1>1, <2>1, <2>4, Frame
  <1>6. CASE StepFinish(n, ok)
    <2> DEFINE S == {p.sig : p \in {q \in T.out : Applies(sess[n], q)}}
               a == [sess[n] EXCEPT !.psigs = sess[n].psigs \cup S]
               b == AggregateSignature(a, ok)
               s == CheckTimeout(b, T.height)
               t == Idle(T.height)
    <2>1. SetSess(n, s) /\ SetMaps(n, m) /\ SetTick(n, t) /\ T.pc = "finish"
          /\ drawn' = drawn /\ msgs' = msgs
      BY <1>6, Same DEF StepFinish, Return
    <2>2. S \in SUBSET PartialSig /\ \A p \in S : CanAddPartial(sess[n], p) /\ Verifies(sess[n], p)
      <3>1. \A q \in T.out : q.sig \in PartialSig
        BY <1>2 DEF Tick, PsigMsg
      <3>2. \A p \in S : \E q \in T.out : p = q.sig /\ Applies(sess[n], q)
        OBVIOUS
      <3> HIDE DEF S
      <3> QED BY <3>1, <3>2 DEF Applies
    <2> HIDE DEF S
    <2>3. a \in Session /\ SessionInv(a)
      BY <1>2, <2>2, CollectInv DEF NodeGood
    <2>4. a.attempt = sess[n].attempt /\ a.sec = sess[n].sec /\ a.pub = sess[n].pub
      BY <1>2 DEF Session
    <2> HIDE DEF a
    <2>5. /\ b \in Session /\ SessionInv(b) /\ b.attempt = a.attempt
          /\ b.sec = a.sec /\ b.pub = a.pub
      <3>1. b \in Session  BY <2>3 DEF AggregateSignature, Session, SessionStates
      <3>2. SessionInv(b)  BY <2>3, AggregateInv, SMT
      <3> QED BY <2>3, <3>1, <3>2 DEF AggregateSignature, Session
    <2> HIDE DEF b
    <2>6. /\ SessionInv(s) /\ s.attempt = b.attempt /\ s.pub = b.pub
          /\ s.sec = b.sec \/ s.sec = NoNonces
      <3>1. T.height \in Int  BY <1>2 DEF Tick
      <3>2. SessionInv(s)  BY <2>5, <3>1, AggregateInv
      <3> QED BY <2>5, <3>2 DEF CheckTimeout, Session
    <2>7. t.pc = "idle" /\ t.chosen = {}  BY DEF Idle
    <2>8. NoncesDrawn(drawn, s.attempt, s.sec)
      BY <1>2, <2>4, <2>5, <2>6, NothingDrawn DEF NodeGood, Published
    <2> HIDE DEF s, t
    <2>9. NodeGood(n, s, m, t, drawn)
      <3>1. NoncesDrawn(drawn, sess[n].attempt, s.sec)  BY <1>2, <2>1, <2>4, <2>5, <2>6, <2>7, <2>8 DEF NodeGood, Published
      <3>2. SameMaps(m, m)  BY SMT DEF SameMaps
      <3> QED BY <3>1, <3>2, <1>2, <2>1, <2>4, <2>5, <2>6, <2>7, <2>8, Relaxed
    <2> QED BY <1>1, <2>1, <2>9, Frame
  <1> QED BY <1>3, <1>4, <1>5, <1>6

-----------------------------------------------------------------------------
\* The session a handler works on is as good as the node's, with the epoch
\* live from then on.
LEMMA LazyGood ==
    ASSUME TypeInv, BundleInv, NEW n \in Nodes, NEW m2,
           m2.live, m2.attempt = maps[n].attempt, m2.nonceTracker = maps[n].nonceTracker,
           m2.evidence \subseteq drawn,
           \A c \in m2.contexts : NoncesDrawn(drawn, c.attempt, c.evidence)
    PROVE  LazySession(n) \in Session /\ NodeGood(n, LazySession(n), m2, tick[n], drawn)
  <1> DEFINE s == LazySession(n)
  <1>1. s \in Session  BY LazySessionType DEF TypeInv
  <1>2. CASE maps[n].live
    <2>1. s = sess[n]  BY <1>2 DEF LazySession
    <2> HIDE DEF s
    <2>2. NodeGood(n, s, m2, tick[n], drawn)
      <3>1. SessionInv(s)  BY <1>2, <2>1, NodeTypes DEF NodeGood
      <3>2. TickGood(n, s, m2, tick[n])  BY <1>2, <2>1, NodeTypes DEF NodeGood, TickGood
      <3>3. Published(s, m2, tick[n], drawn)  BY <1>2, <2>1, NodeTypes DEF NodeGood, Published
      <3>4. Accounted(n, s, m2, tick[n], drawn)  BY <1>2, <2>1, NodeTypes DEF NodeGood, Accounted
      <3> QED BY <3>1, <3>2, <3>3, <3>4 DEF NodeGood
    <2> QED BY <1>1, <2>2 DEF s
  <1>3. CASE ~ maps[n].live
    <2>1. s = FreshSession(maps[n], maps[n].attempt, EpochStart) /\ EpochStart \in Int
      BY <1>3, OrchestratorAssumption, SMT DEF LazySession
    <2>2. s.attempt = maps[n].attempt /\ s.sec = NoNonces /\ s.pub = NoNonces /\ SessionInv(s)
      <3>1. maps[n] \in Maps /\ maps[n].attempt \in Nat  BY NodeTypes
      <3> DEFINE f == FreshSession(maps[n], maps[n].attempt, EpochStart)
      <3>2. f.attempt = maps[n].attempt /\ f.sec = NoNonces /\ f.pub = NoNonces /\ SessionInv(f)
        BY <2>1, <3>1, FreshSessionType
      <3>3. s = f  BY <2>1
      <3> QED BY <3>2, <3>3
    <2>3. tick[n].pc = "idle"  BY <1>3, NodeTypes DEF NodeGood, TickGood
    <2> HIDE DEF s
    <2>4. TickGood(n, s, m2, tick[n])
      BY <2>2, <2>3, NodeTypes DEF NodeGood, TickGood
    <2>5. Published(s, m2, tick[n], drawn)
      BY <2>2, NothingDrawn, NodeTypes DEF NodeGood, Published
    <2>6. Accounted(n, s, m2, tick[n], drawn)
      BY <1>3, <2>2, NodeTypes DEF NodeGood, Accounted, TickGood
    <2> QED BY <1>1, <2>2, <2>4, <2>5, <2>6 DEF NodeGood, s
  <1> QED BY <1>2, <1>3

\* Taking in drawn nonces.
LEMMA EvidenceGood ==
    ASSUME NEW n \in Nodes, NEW s \in Session, NEW ev \in NonceMap, NEW m, NEW t, NEW D,
           NodeGood(n, s, m, t, D), NoncesDrawn(D, s.attempt, ev)
    PROVE  NodeGood(n, AddNonceEvidence(s, ev), m, t, D)
  <1> DEFINE u == AddNonceEvidence(s, ev)
  <1>1. /\ u \in Session /\ u.attempt = s.attempt /\ u.sec = s.sec /\ u.frozen = s.frozen
        /\ u.signed = s.signed /\ u.psigs = s.psigs
        /\ \A id \in Oracles : u.pub[id] \in {s.pub[id], ev[id]}
        /\ s.frozen => u.pub = s.pub
        /\ s.state = "NONCES_COMPLETE" => u.state = s.state /\ u.keys = s.keys
        /\ s.state \in {"SIGNING", "COMPLETE", "FAILED"} => u = s
    BY EvidenceType
  <1>2. s.state \in CollectingStates => u.state \in CollectingStates
    BY <1>1 DEF AddNonceEvidence, InitializePassive, CollectingStates, Session
  <1> HIDE DEF u
  <1>3. s.state \in CollectingStates \/ s.state \in {"SIGNING", "COMPLETE", "FAILED"}
    BY DEF Session, SessionStates, CollectingStates
  <1>4. SessionInv(u)
    BY <1>1, <1>2, <1>3 DEF NodeGood, SessionInv, CollectingStates, SignedStates
  <1>5. NoncesDrawn(D, u.attempt, u.pub)
    BY <1>1 DEF NoncesDrawn, NodeGood, Published
  <1>6. TickGood(n, u, m, t)
    BY <1>1 DEF NodeGood, TickGood
  <1> QED BY <1>1, <1>4, <1>5, <1>6 DEF NodeGood, Published, Accounted, u

\* The handlers: what comes off the wire was drawn, and a partial signature is
\* stored only if it verifies.
LEMMA BundleIngest ==
    ASSUME TypeInv, BundleInv, NEW n \in Nodes, NEW m \in msgs, NEW ok \in BOOLEAN,
           \/ IngestRemoteNonce(n, m) \/ IngestRemoteContext(n, m)
           \/ IngestRemotePartialSig(n, m, ok)
    PROVE  BundleInv'
  <1> DEFINE s == LazySession(n)
             M == maps[n]
  <1>1. /\ MsgsGood(msgs, drawn) /\ SetTick(n, tick[n]) /\ drawn' = drawn /\ msgs' = msgs
        /\ M \in Maps /\ M.evidence \subseteq drawn
        /\ \A c \in M.contexts : NoncesDrawn(drawn, c.attempt, c.evidence)
    BY Same, NodeTypes DEF BundleInv, NodeGood, Published, IngestRemoteNonce, IngestRemoteContext,
                           IngestRemotePartialSig
  <1>2. m \in NonceMsg \cup ContextMsg \cup PsigMsg  BY DEF TypeInv, TypeOK
  <1> HIDE DEF s
  <1>3. CASE IngestRemoteNonce(n, m)
    <2> DEFINE ev == [NoNonces EXCEPT ![m.oracle] = m.nonce]
               m2 == [M EXCEPT !.live = TRUE,
                        !.evidence = ReplaceEvidence(@, Accepted(s, ev), ev, m.attempt)]
    <2>1. m.attempt = s.attempt /\ SetSess(n, AddNonceEvidence(s, ev)) /\ SetMaps(n, m2)
      BY <1>3 DEF IngestRemoteNonce, s
    <2>2. m \in NonceMsg /\ m \in drawn
      BY <1>1, <1>2, <1>3 DEF IngestRemoteNonce, MsgsGood, NonceMsg, ContextMsg, PsigMsg
    <2>3. ev \in NonceMap /\ \A id \in Oracles : ev[id] # 0 => id = m.oracle /\ ev[id] = m.nonce
      BY <2>2 DEF NonceMsg, NonceMap, NoNonces
    <2>4. NonceRec(m.attempt, m.oracle, m.nonce) = m
      BY <2>2 DEF NonceRec, NonceMsg
    <2>5. NoncesDrawn(drawn, m.attempt, ev)
      BY <2>2, <2>3, <2>4 DEF NoncesDrawn
    <2> HIDE DEF ev
    <2>6. /\ m2.live /\ m2.attempt = M.attempt /\ m2.nonceTracker = M.nonceTracker
          /\ m2.contexts = M.contexts
          /\ m2.evidence = ReplaceEvidence(M.evidence, Accepted(s, ev), ev, m.attempt)
      BY <1>1 DEF Maps
    <2>7. m2.evidence \subseteq drawn
      BY <1>1, <2>5, <2>6 DEF ReplaceEvidence, Accepted, Holders, NoncesDrawn
    <2> HIDE DEF m2
    <2>8. s \in Session /\ NodeGood(n, s, m2, tick[n], drawn)
      BY <1>1, <2>6, <2>7, LazyGood DEF s
    <2>9. NodeGood(n, AddNonceEvidence(s, ev), m2, tick[n], drawn)
      BY <2>1, <2>3, <2>5, <2>8, EvidenceGood
    <2> QED BY <1>1, <2>1, <2>9, Frame
  <1>4. CASE IngestRemoteContext(n, m)
    <2> DEFINE P == EvidencePrefix(s, m)
               ev == m.evidence
               m2 == [M EXCEPT !.live = TRUE,
                        !.evidence = ReplaceEvidence(@, P, ev, m.attempt),
                        !.contexts = IF P = Holders(ev) THEN StoreProposal(@, m) ELSE @]
    <2>1. m.attempt = s.attempt /\ SetSess(n, AddNonceEvidence(s, ev)) /\ SetMaps(n, m2)
      BY <1>4 DEF IngestRemoteContext, s
    <2>2. m \in ContextMsg /\ NoncesDrawn(drawn, m.attempt, ev) /\ ev \in NonceMap
      BY <1>1, <1>2, <1>4 DEF IngestRemoteContext, MsgsGood, NonceMsg, ContextMsg, PsigMsg
    <2>3. \A id \in P : id \in Oracles /\ ev[id] # 0
      BY DEF EvidencePrefix, Holders
    <2> HIDE DEF P
    <2>4. /\ m2.live /\ m2.attempt = M.attempt /\ m2.nonceTracker = M.nonceTracker
          /\ m2.contexts \in {M.contexts, StoreProposal(M.contexts, m)}
          /\ m2.evidence = ReplaceEvidence(M.evidence, P, ev, m.attempt)
      BY <1>1 DEF Maps
    <2>5. m2.evidence \subseteq drawn
      BY <1>1, <2>2, <2>3, <2>4 DEF ReplaceEvidence, NoncesDrawn
    <2>6. \A c \in m2.contexts : NoncesDrawn(drawn, c.attempt, c.evidence)
      BY <1>1, <2>2, <2>4, SMT DEF StoreProposal
    <2> HIDE DEF m2
    <2>7. s \in Session /\ NodeGood(n, s, m2, tick[n], drawn)
      BY <2>4, <2>5, <2>6, LazyGood DEF s
    <2>8. NodeGood(n, AddNonceEvidence(s, ev), m2, tick[n], drawn)
      BY <2>1, <2>2, <2>7, EvidenceGood
    <2> QED BY <1>1, <2>1, <2>8, Frame
  <1>5. CASE IngestRemotePartialSig(n, m, ok)
    <2> DEFINE a == AddPartialSignatureVerified(s, m.sig)
               b == AggregateSignature(a, ok)
               m2 == [M EXCEPT !.live = TRUE]
    <2>1. /\ SetMaps(n, m2)
          /\ SetSess(n, s) \/ (Applies(s, m) /\ SetSess(n, b))
      BY <1>5 DEF IngestRemotePartialSig, s
    <2>2. m \in PsigMsg /\ m.sig \in PartialSig
      BY <1>2, <1>5 DEF IngestRemotePartialSig, NonceMsg, ContextMsg, PsigMsg
    <2>3. /\ m2.live /\ m2.attempt = M.attempt /\ m2.nonceTracker = M.nonceTracker
          /\ m2.contexts = M.contexts /\ m2.evidence = M.evidence
      BY <1>1 DEF Maps
    <2> HIDE DEF m2
    <2>4. s \in Session /\ NodeGood(n, s, m2, tick[n], drawn)
      BY <1>1, <2>3, LazyGood DEF s
    <2>5. CASE SetSess(n, s)
      BY <1>1, <2>1, <2>4, <2>5, Frame
    <2>6. CASE Applies(s, m) /\ SetSess(n, b)
      <3>1. CanAddPartial(s, m.sig) /\ Verifies(s, m.sig) /\ s.state = "SIGNING"
        BY <2>6 DEF Applies, CanAddPartial
      <3>2. a = [s EXCEPT !.psigs = s.psigs \cup {m.sig}]
        BY <3>1 DEF AddPartialSignatureVerified
      <3>3. a \in Session /\ SessionInv(a)
        BY <2>2, <2>4, <3>1, <3>2, CollectInv DEF NodeGood
      <3>4. a.attempt = s.attempt /\ a.sec = s.sec /\ a.pub = s.pub
        BY <2>4, <3>2 DEF Session
      <3> HIDE DEF a
      <3>5. SessionInv(b)
        <4>1. 0 \in Int  BY SMT
        <4> QED BY <3>3, <4>1, AggregateInv
      <3>6. b.attempt = a.attempt /\ b.sec = a.sec /\ b.pub = a.pub
        BY <3>3 DEF AggregateSignature, Session
      <3> HIDE DEF b
      <3>7. tick[n].pc \notin {"converge", "sendctx", "trim", "bind"}
        BY <2>4, <3>1 DEF NodeGood, TickGood
      <3>8. NodeGood(n, b, m2, tick[n], drawn)
        <4>1. SessionInv(b)  BY <2>4, <3>4, <3>5, <3>6, <3>7 DEF NodeGood
        <4>2. TickGood(n, b, m2, tick[n])  BY <2>4, <3>4, <3>5, <3>6, <3>7 DEF NodeGood, TickGood
        <4>3. Published(b, m2, tick[n], drawn)  BY <2>4, <3>4, <3>5, <3>6, <3>7 DEF NodeGood, Published
        <4>4. Accounted(n, b, m2, tick[n], drawn)  BY <2>4, <3>4, <3>5, <3>6, <3>7 DEF NodeGood, Accounted
        <4> QED BY <4>1, <4>2, <4>3, <4>4 DEF NodeGood
      <3> QED BY <1>1, <2>1, <2>6, <3>8, Frame
    <2> QED BY <2>1, <2>5, <2>6
  <1> QED BY <1>3, <1>4, <1>5

\* Buffering a partial signature, and the environment.
LEMMA BundleRest ==
    ASSUME TypeInv, BundleInv,
           \/ \E n \in Nodes : BufferOrDrop(n) \/ Toggle(n)
           \/ \E v \in Values : Expire(v)
           \/ UNCHANGED vars
    PROVE  BundleInv'
  <1>1. ASSUME NEW n \in Nodes, BufferOrDrop(n) PROVE BundleInv'
    <2> DEFINE New(p) == IF sess[n].state \notin {"SIGNING", "COMPLETE", "FAILED"}
                         THEN BufferPendingPartialSig(maps[n].pending, p) ELSE maps[n].pending
    <2>0. PICK p \in inbox[n] : SetMaps(n, [maps[n] EXCEPT !.pending = New(p)])
      BY <1>1 DEF BufferOrDrop
    <2> HIDE DEF New
    <2>1. PICK q : SetMaps(n, [maps[n] EXCEPT !.pending = q])
      BY <2>0
    <2> DEFINE m2 == [maps[n] EXCEPT !.pending = q]
    <2>2. /\ m2.live = maps[n].live /\ m2.attempt = maps[n].attempt
          /\ m2.nonceTracker = maps[n].nonceTracker
          /\ m2.contexts = maps[n].contexts /\ m2.evidence = maps[n].evidence
      BY NodeTypes DEF Maps
    <2> HIDE DEF m2
    <2>3. NodeGood(n, sess[n], m2, tick[n], drawn)
      <3>1. NodeGood(n, sess[n], maps[n], tick[n], drawn)  BY NodeTypes
      <3>2. TickGood(n, sess[n], m2, tick[n])  BY <2>2, <3>1 DEF NodeGood, TickGood
      <3>3. Published(sess[n], m2, tick[n], drawn)  BY <2>2, <3>1 DEF NodeGood, Published
      <3>4. Accounted(n, sess[n], m2, tick[n], drawn)  BY <2>2, <3>1 DEF NodeGood, Accounted
      <3> QED BY <3>1, <3>2, <3>3, <3>4 DEF NodeGood
    <2>4. SetSess(n, sess[n]) /\ SetTick(n, tick[n]) /\ drawn' = drawn /\ msgs' = msgs
      BY <1>1, Same DEF BufferOrDrop
    <2> QED BY <2>1, <2>3, <2>4, Frame DEF BundleInv, m2
  <1>2. CASE \/ \E n \in Nodes : Toggle(n)
             \/ \E v \in Values : Expire(v)
             \/ UNCHANGED vars
    <2>1. UNCHANGED <<sess, maps, tick, msgs, drawn>>
      BY <1>2 DEF Toggle, Expire, vars
    <2> QED BY <2>1 DEF BundleInv
  <1> QED BY <1>1, <1>2

\* The invariant holds initially.
LEMMA BundleInit == Init => BundleInv
  <1> SUFFICES ASSUME Init PROVE BundleInv  OBVIOUS
  <1> DEFINE s == NewSession(0, 0)
             t == Idle(StartHeight)
  <1>1. SessionInv(s) /\ s.attempt = 0 /\ s.sec = NoNonces /\ s.pub = NoNonces
    BY NewSessionInv DEF NewSession
  <1>2. NoMaps.attempt = 0 /\ NoMaps.evidence = {} /\ NoMaps.contexts = {}
    BY DEF NoMaps
  <1>3. t.pc = "idle" /\ t.chosen = {}  BY DEF Idle
  <1> HIDE DEF s, t
  <1>4. \A n \in Nodes : NodeGood(n, s, NoMaps, t, {})
    BY <1>1, <1>2, <1>3, NothingDrawn DEF NodeGood, TickGood, Published, Accounted
  <1>5. drawn = {} /\ msgs = {} /\ \A n \in Nodes : sess[n] = s /\ maps[n] = NoMaps /\ tick[n] = t
    BY DEF Init, s, t
  <1> QED BY <1>4, <1>5 DEF BundleInv, UniqueNonces, MsgsGood

\* Every step of one life of the processes keeps it.
LEMMA BundleStep == TypeInv /\ BundleInv /\ [Next]_vars => BundleInv'
  <1> SUFFICES ASSUME TypeInv, BundleInv, [Next]_vars PROVE BundleInv'  OBVIOUS
  <1>1. CASE UNCHANGED vars \/ Environment
    BY <1>1, BundleRest DEF Environment
  <1>2. ASSUME NEW n \in Nodes, NewBlock(n) PROVE BundleInv'
    BY <1>2, BundleBlock DEF NewBlock
  <1>3. ASSUME NEW n \in Nodes, BufferOrDrop(n) PROVE BundleInv'
    BY <1>3, BundleRest
  <1>4. ASSUME NEW n \in Nodes, Ingest(n) PROVE BundleInv'
    <2>1. PICK m \in msgs, ok \in BOOLEAN :
             \/ IngestRemoteNonce(n, m) \/ IngestRemoteContext(n, m)
             \/ IngestRemotePartialSig(n, m, ok)
      BY <1>4, OrchestratorAssumption DEF Ingest
    <2> QED BY <2>1, BundleIngest
  <1>5. ASSUME NEW n \in Nodes, TickStep(n) PROVE BundleInv'
    <2>1. PICK ok \in BOOLEAN :
             \/ Resend(n) \/ StepGenerateNonce(n) \/ StepStoreNonce(n) \/ StepSendNonce(n)
             \/ StepNoncesDone(n) \/ StepWait(n) \/ StepChoose(n) \/ StepNoContext(n)
             \/ \E id \in Oracles, v \in Values : StepPropose(n, id, v)
             \/ StepSendContext(n) \/ StepTrim(n)
             \/ StepBind(n, ok) \/ StepSign(n, ok) \/ StepFinish(n, ok)
             \/ StepSendPsig(n) \/ StepSignDone(n) \/ StepDrain(n)
      BY <1>5, OrchestratorAssumption DEF TickStep
    <2>2. CASE \/ Resend(n) \/ StepGenerateNonce(n) \/ StepStoreNonce(n) \/ StepSendNonce(n)
               \/ StepNoncesDone(n)
      BY <2>2, BundleResend, BundleDraw, BundleStore, BundleSendNonce
    <2>3. CASE \/ StepWait(n) \/ StepChoose(n) \/ StepNoContext(n) \/ StepSendContext(n)
               \/ \E id \in Oracles, v \in Values : StepPropose(n, id, v)
      BY <2>3, BundleConverge
    <2>4. CASE StepTrim(n) \/ StepBind(n, ok) \/ StepSign(n, ok)
      BY <2>4, BundleSign
    <2>5. CASE StepSendPsig(n) \/ StepSignDone(n) \/ StepDrain(n) \/ StepFinish(n, ok)
      BY <2>5, BundleFinish
    <2> QED BY <2>1, <2>2, <2>3, <2>4, <2>5
  <1> QED BY <1>1, <1>2, <1>3, <1>4, <1>5 DEF Next, NodeStep

\* Every completed session's bundle passes the validator's signature check: in
\* one life of the processes, and whatever the interleaving of ticks and
\* handlers, forks, timeouts, library failures and losses of messages.
THEOREM BundleAlwaysVerifies == Spec => []CompletedBundleVerifies
  <1>1. TypeInv /\ [Next]_vars => TypeInv'
    BY TypeStep DEF NextWithCrashes
  <1>2. Spec => [](TypeInv /\ BundleInv)
    BY <1>1, TypeInit, BundleInit, BundleStep, PTL DEF Spec
  <1>3. TypeInv /\ BundleInv => CompletedBundleVerifies
    BY CompleteIsValid DEF TypeInv, TypeOK, BundleInv, NodeGood, CompletedBundleVerifies
  <1> QED BY <1>2, <1>3, PTL
=============================================================================
