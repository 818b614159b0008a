---------------------------- MODULE MuSig2Session ----------------------------
(***************************************************************************)
(* The in-process signing session of src/src/oracle/musig2_session.cpp.    *)
(* A session is a record; every public method of MuSig2SigningSession is   *)
(* an operator from a session (and the method's arguments) to the session  *)
(* it leaves behind.  Each method takes m_mutex for its whole body, so one *)
(* operator is one atomic step.  A method that returns false and changes   *)
(* nothing is the operator whose Can... guard is false: it returns s.      *)
(*                                                                         *)
(* Abstractions.  A nonce pair is a natural number greater than 0, fresh   *)
(* when it is generated; 0 in sec or pub is "no entry in the map".  A      *)
(* (price, timestamp) pair is a member of Values; 0 is "not set".  A key   *)
(* aggregation cache is the set of oracles whose keys it aggregates.  A    *)
(* hash is the tuple of what is hashed.                                    *)
(***************************************************************************)
EXTENDS Integers, FiniteSets

CONSTANTS
    Oracles,        \* ids of the active roster (nOraclePubkeyCount)
    Seeds,          \* block hashes that can be an epoch selection seed
    GenesisSeed,    \* hashGenesisBlock, the seed of a new session
    Score,          \* Score[seed][id]: GetOracleEpochSelectionHash
    Values,         \* the (price, timestamp) pairs that can be signed
    MinSigners,     \* nOracleConsensusRequired
    TimeoutBlocks   \* m_timeout_blocks

ASSUME SessionAssumption ==
    /\ IsFiniteSet(Oracles)
    /\ GenesisSeed \in Seeds
    /\ Score \in [Seeds -> [Oracles -> Int]]
    /\ \A sd \in Seeds : \A i, j \in Oracles :
           Score[sd][i] = Score[sd][j] => i = j
    /\ Values \subseteq Nat \ {0}
    /\ MinSigners \in 2..Cardinality(Oracles)
    /\ TimeoutBlocks \in Nat

SessionStates == {"CREATED", "NONCES_COLLECTING", "NONCES_COMPLETE",
                  "SIGNING", "COMPLETE", "FAILED"}

NonceMap == [Oracles -> Nat]
NoNonces == [id \in Oracles |-> 0]

\* The oracles that have an entry in a nonce map.
Holders(m) == {id \in Oracles : m[id] # 0}

\* The keys of m restricted to the oracles of P.
Keep(m, P) == [id \in Oracles |-> IF id \in P THEN m[id] ELSE 0]

\* secp256k1_musig_session: what nonce_process binds a signature to.
Binding == [nonces : NonceMap, msg : Values \cup {0}, keys : SUBSET Oracles]
NoBinding == [nonces |-> NoNonces, msg |-> 0, keys |-> {}]

\* session_context_id: the fields hashed into it; NoContext is the null hash.
Context == [attempt : Nat, seed : Seeds, msg : Values \cup {0}, nonces : NonceMap]
NoContext == [attempt |-> 0, seed |-> GenesisSeed, msg |-> 0, nonces |-> NoNonces]

\* A partial signature remembers all that went into it.
PartialSig == [oracle : Oracles, nonce : Nat, keys : SUBSET Oracles, bound : Binding]

Session == [state : SessionStates, attempt : Nat, created : Int,
            sec : NonceMap, used : SUBSET Oracles, pub : NonceMap,
            frozen : BOOLEAN, seed : Seeds, keys : SUBSET Oracles,
            bound : Binding, ctx : Context, psigs : SUBSET PartialSig,
            agg : SUBSET PartialSig, signed : Values \cup {0}]

NewSession(attempt, height) ==
    [state |-> "CREATED", attempt |-> attempt, created |-> height,
     sec |-> NoNonces, used |-> {}, pub |-> NoNonces,
     frozen |-> FALSE, seed |-> GenesisSeed, keys |-> {},
     bound |-> NoBinding, ctx |-> NoContext, psigs |-> {},
     agg |-> {}, signed |-> 0]

-----------------------------------------------------------------------------
(* Round 1: nonces.                                                        *)

InitializePassive(s, keys) ==
    IF s.state = "CREATED"
    THEN [s EXCEPT !.state = "NONCES_COLLECTING", !.keys = keys]
    ELSE s

CanGenerateNonce(s, id) ==
    /\ s.state \in {"CREATED", "NONCES_COLLECTING"}
    /\ s.sec[id] = 0

GenerateNonce(s, id, keys, nonce) ==
    IF CanGenerateNonce(s, id)
    THEN [s EXCEPT !.state = "NONCES_COLLECTING", !.keys = keys,
                   !.sec = [s.sec EXCEPT ![id] = nonce]]
    ELSE s

\* GetRequiredParticipantsUnsafe: the MinSigners nonce holders with the
\* lowest scores (all of them when there are fewer).
Required(s) ==
    {id \in Holders(s.pub) :
        Cardinality({j \in Holders(s.pub) :
                        Score[s.seed][j] < Score[s.seed][id]}) < MinSigners}

CanAddPubnonce(s, id) ==
    /\ s.state \in {"NONCES_COLLECTING", "NONCES_COMPLETE"}
    /\ s.pub[id] = 0
    /\ ~ s.frozen

AddPubnonce(s, id, nonce) ==
    IF CanAddPubnonce(s, id)
    THEN LET t == [s EXCEPT !.pub = [s.pub EXCEPT ![id] = nonce]]
         IN  IF Cardinality(Required(t)) >= MinSigners
             THEN [t EXCEPT !.state = "NONCES_COMPLETE"]
             ELSE t
    ELSE s

SetEpochSelectionSeed(s, sd) == [s EXCEPT !.seed = sd]
SetKeyAggCache(s, keys) == [s EXCEPT !.keys = keys]
SetSignedValues(s, v) == [s EXCEPT !.signed = v]

-----------------------------------------------------------------------------
(* Freezing the participants and binding the session to a message.         *)

CanTrim(s, P) ==
    /\ s.state \in {"NONCES_COMPLETE", "SIGNING"}
    /\ Cardinality(P) >= MinSigners
    /\ P \subseteq Holders(s.pub)
    /\ s.frozen => Holders(s.pub) = P

TrimNoncesToParticipants(s, P) ==
    IF CanTrim(s, P)
    THEN [s EXCEPT !.pub = Keep(s.pub, P), !.frozen = TRUE]
    ELSE s

\* ComputeContextIdForParticipants, for P a subset of the nonce holders.
ContextFor(s, P, v) ==
    [attempt |-> s.attempt, seed |-> s.seed, msg |-> v, nonces |-> Keep(s.pub, P)]

\* ok is the result of the secp256k1 calls.
AggregateNonces(s, v, ok) ==
    IF s.state # "NONCES_COMPLETE" THEN s
    ELSE IF ~ ok THEN [s EXCEPT !.state = "FAILED"]
    ELSE [s EXCEPT !.state = "SIGNING",
                   !.bound = [nonces |-> s.pub, msg |-> v, keys |-> s.keys],
                   !.ctx = ContextFor(s, Holders(s.pub), v)]

-----------------------------------------------------------------------------
(* Round 2: partial signatures.                                            *)

CanSign(s, id) ==
    /\ s.state = "SIGNING"
    /\ s.sec[id] # 0
    /\ s.pub[id] # 0
    /\ id \notin s.used

\* The signature secp256k1_musig_partial_sign makes from the secret nonce.
SignatureOf(s, id) ==
    [oracle |-> id, nonce |-> s.sec[id], keys |-> s.keys, bound |-> s.bound]

\* The secret nonce is erased whether or not the signing call succeeds.
ConsumeNonce(s, id) ==
    [s EXCEPT !.sec = [s.sec EXCEPT ![id] = 0], !.used = s.used \cup {id}]

Signers(sigs) == {p.oracle : p \in sigs}

\* secp256k1_musig_partial_sig_verify under the session's cache and binding.
Verifies(s, p) ==
    /\ p.nonce = s.pub[p.oracle]
    /\ p.keys = s.keys
    /\ p.bound = s.bound

CanAddPartial(s, p) ==
    /\ s.state = "SIGNING"
    /\ p.oracle \notin Signers(s.psigs)
    /\ s.pub[p.oracle] # 0

AddPartialSignature(s, p) ==
    IF CanAddPartial(s, p) THEN [s EXCEPT !.psigs = s.psigs \cup {p}] ELSE s

AddPartialSignatureVerified(s, p) ==
    IF CanAddPartial(s, p) /\ Verifies(s, p)
    THEN [s EXCEPT !.psigs = s.psigs \cup {p}]
    ELSE s

\* Mutant: one signature short of the threshold.
HasEnoughPartialSigs_OneShort(s) == Cardinality(s.psigs) >= MinSigners - 1

HasEnoughPartialSigs(s) == Cardinality(s.psigs) >= MinSigners

AggregateSignature(s, ok) ==
    IF s.state # "SIGNING" \/ ~ HasEnoughPartialSigs(s) THEN s
    ELSE IF ~ ok THEN [s EXCEPT !.state = "FAILED"]
    ELSE [s EXCEPT !.state = "COMPLETE", !.agg = s.psigs]

CheckTimeout(s, height) ==
    IF s.state \notin {"COMPLETE", "FAILED"} /\ height >= s.created + TimeoutBlocks
    THEN [s EXCEPT !.state = "FAILED", !.sec = NoNonces]
    ELSE s

-----------------------------------------------------------------------------
\* BIP-327 as the validator applies it to a bundle (ValidateMuSig2Bundle): an
\* aggregate with participation bitmap ids is a signature of message v under
\* the aggregate key of ids exactly when it sums one partial signature of each
\* member of ids, all made for the same key set ids, nonces of ids and v.
IsValidAggregate(sigs, ids, v) ==
    /\ Signers(sigs) = ids
    /\ \E b \in {p.bound : p \in sigs} :
           /\ b.msg = v
           /\ b.keys = ids
           /\ Holders(b.nonces) = ids
           /\ \A p \in sigs : p.bound = b /\ p.keys = ids /\ p.nonce = b.nonces[p.oracle]
=============================================================================
