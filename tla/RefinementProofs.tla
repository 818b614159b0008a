--------------------------- MODULE RefinementProofs ---------------------------
(***************************************************************************)
(* The ceremony implements ThresholdSignature, in one life of every        *)
(* process.                                                                *)
(*                                                                         *)
(* The argument.  A signature anywhere, stored, buffered or on the wire,   *)
(* was made by its oracle (SigInv), so a session that completes has one of *)
(* each member of its committee, all bound to the same statement: that     *)
(* step is a Certify.  A signature is made with the nonce the statement    *)
(* lists for its oracle, and that nonce has not signed yet (NonceInv): that *)
(* step is a Sign.  No other step makes a signature, and no step takes a   *)
(* session out of COMPLETE.                                                *)
(*                                                                         *)
(* And completed attempts agree.  Two committees of a majority share an    *)
(* oracle, which draws one nonce per attempt and signs once with it, so    *)
(* the two sessions hold the same signature of it and hence its context.   *)
(***************************************************************************)
EXTENDS SigningOrchestratorProofs

\* Most steps are first-order reasoning, which Zenon does; the others name SMT.
USE Zenon

\* Who holds which signature, for which context: <<signature, context>>.
ClaimsOf(s, m, t, b) ==
    {<<p, s.ctx>> : p \in s.psigs} \cup
    {<<x.sig, x.ctx>> : x \in m.pending \cup m.unsentPsigs \cup t.out \cup b}

Claims ==
    (UNION {ClaimsOf(sess[n], maps[n], tick[n], inbox[n]) : n \in Nodes}) \cup
    {<<x.sig, x.ctx>> : x \in {y \in msgs : y.type = "psig"}}

\* What a node holds is in S, and an epoch without session has completed nothing.
SigGood(s, m, t, b, S) ==
    /\ \A p \in s.psigs : <<p, s.ctx>> \in S
    /\ \A x \in m.pending \cup m.unsentPsigs \cup t.out \cup b : <<x.sig, x.ctx>> \in S
    /\ ~ m.live => s.state # "COMPLETE"

MsgsMade(M, S) == \A x \in M : x.type = "psig" => <<x.sig, x.ctx>> \in S

\* Every signature anywhere was made, for one context.
ClaimsGood(C, S) ==
    /\ \A c \in C : c[1] \in S
    /\ \A c, d \in C : c[1] = d[1] => c[2] = d[2]

\* A signature is a committee member's, with the nonce listed for it.
MadeGood(S) == \A p \in S : p.oracle \in p.bound.keys /\ p.nonce = p.bound.nonces[p.oracle]

SigInv ==
    /\ MadeGood(made)
    /\ ClaimsGood(Claims, made)
    /\ MsgsMade(msgs, Claims)
    /\ \A n \in Nodes : SigGood(sess[n], maps[n], tick[n], inbox[n], Claims)

\* The union of a family covers its members, and is covered by what covers them.
LEMMA UnionCovers ==
    ASSUME NEW F, NEW S
    PROVE  /\ \A U \in F : U \subseteq UNION F
           /\ (\A U \in F : U \subseteq S) => UNION F \subseteq S
  OBVIOUS

\* A set of good claims that covers the next state makes the invariant there.
LEMMA ClaimsShrink ==
    ASSUME NEW S, ClaimsGood(S, made'), MadeGood(made'), MsgsMade(msgs', S),
           \A n \in Nodes : SigGood(sess'[n], maps'[n], tick'[n], inbox'[n], S)
    PROVE  SigInv'
  <1> DEFINE Of(n) == ClaimsOf(sess'[n], maps'[n], tick'[n], inbox'[n])
             D == {<<x.sig, x.ctx>> : x \in {y \in msgs' : y.type = "psig"}}
             C == (UNION {Of(n) : n \in Nodes}) \cup D
  <1>1. Claims' = C  BY DEF Claims, ClaimsOf
  <1>2. \A n \in Nodes : Of(n) \subseteq S
    BY DEF SigGood, ClaimsOf
  <1>3. D \subseteq S  BY DEF MsgsMade
  <1>4. MsgsMade(msgs', D)  BY DEF MsgsMade
  <1>5. \A n \in Nodes : SigGood(sess'[n], maps'[n], tick'[n], inbox'[n], Of(n))
    BY DEF SigGood, ClaimsOf
  <1> HIDE DEF Of, D
  <1> DEFINE F == {Of(n) : n \in Nodes}
  <1>6. (\A n \in Nodes : Of(n) \in F) /\ \A U \in F : U \subseteq S  BY <1>2
  <1> HIDE DEF F
  <1>7. UNION F \subseteq S /\ \A U \in F : U \subseteq UNION F  BY <1>6, UnionCovers
  <1>8. C = (UNION F) \cup D  BY DEF F
  <1> HIDE DEF C
  <1>9. ClaimsGood(C, made')
    <2>1. C \subseteq S  BY <1>3, <1>7, <1>8
    <2> QED BY <2>1 DEF ClaimsGood
  <1>10. \A n \in Nodes : SigGood(sess'[n], maps'[n], tick'[n], inbox'[n], C)
    <2>1. \A n \in Nodes : Of(n) \subseteq C  BY <1>6, <1>7, <1>8
    <2> QED BY <1>5, <2>1 DEF SigGood
  <1>11. MsgsMade(msgs', C)  BY <1>4, <1>8 DEF MsgsMade
  <1> QED BY <1>1, <1>9, <1>10, <1>11 DEF SigInv

\* A step of node n that makes no signature and undoes no completion.
Calm(n) ==
    /\ made' = made
    /\ \A k \in Nodes \ {n} : /\ sess'[k] = sess[k] /\ maps'[k] = maps[k]
                              /\ tick'[k] = tick[k] /\ inbox'[k] = inbox[k]
    /\ sess[n].state = "COMPLETE" =>
           sess'[n].state = "COMPLETE" /\ sess'[n].bound = sess[n].bound
    /\ SigGood(sess'[n], maps'[n], tick'[n], inbox'[n], Claims)
    /\ MsgsMade(msgs', Claims)

\* Such a step keeps the invariant.
LEMMA CalmKeeps ==
    ASSUME SigInv, NEW n \in Nodes, Calm(n)
    PROVE  SigInv'
  <1>1. \A k \in Nodes : SigGood(sess'[k], maps'[k], tick'[k], inbox'[k], Claims)
    BY DEF SigInv, Calm
  <1>2. made' = made /\ MsgsMade(msgs', Claims) /\ MadeGood(made) /\ ClaimsGood(Claims, made)
    BY DEF SigInv, Calm
  <1> QED BY <1>1, <1>2, ClaimsShrink

\* A completed session has a signature of each member of its committee.
LEMMA CommitteeSigned ==
    ASSUME NEW s \in Session, SessionInv(s), s.state = "COMPLETE"
    PROVE  /\ Cardinality(s.bound.keys) >= MinSigners
           /\ \A id \in s.bound.keys : \E p \in s.psigs : p.oracle = id /\ p.bound = s.bound
  <1>1. IsValidAggregate(s.agg, Signers(s.psigs), s.signed)
    BY CompleteIsValid
  <1>2. s.agg = s.psigs /\ (\A p \in s.psigs : p.bound = s.bound)
        /\ s.bound.keys = Holders(s.pub) /\ Cardinality(Holders(s.pub)) = MinSigners
    BY SMT DEF SessionInv, SignedStates, Verifies
  <1>3. Signers(s.psigs) = s.bound.keys
    BY <1>1, <1>2 DEF IsValidAggregate
  <1>4. MinSigners \in Nat  BY SessionAssumption, SMT
  <1> QED BY <1>2, <1>3, <1>4, SMT DEF Signers

\* It is a step of the specification or changes nothing there.
LEMMA CalmSimulates ==
    ASSUME TypeInv, TypeInv', BundleInv', SigInv', NEW n \in Nodes, Calm(n)
    PROVE  [Promise!Next]_(Promise!vars)
  <1> DEFINE S == {[oracle |-> p.oracle, on |-> p.bound] : p \in made}
             H == [k \in Nodes |-> IF sess[k].state = "COMPLETE" THEN {sess[k].bound} ELSE {}]
             b == sess'[n].bound
  <1>1. made' = made /\ S' = S /\ \A k \in Nodes \ {n} : sess'[k] = sess[k]
    BY DEF Calm
  <1>2. CASE sess[n].state = "COMPLETE" \/ sess'[n].state # "COMPLETE"
    <2>1. \A k \in Nodes : H'[k] = H[k]
      BY <1>1, <1>2 DEF Calm
    <2>2. H' = H  BY <2>1
    <2> QED BY <1>1, <2>2 DEF Promise!vars
  <1>3. CASE sess[n].state # "COMPLETE" /\ sess'[n].state = "COMPLETE"
    <2>1. sess'[n] \in Session /\ SessionInv(sess'[n]) /\ sess'[n].psigs \subseteq made'
      <3>1. \A p \in sess'[n].psigs : <<p, sess'[n].ctx>> \in Claims'
        BY DEF SigInv, SigGood
      <3>2. \A c \in Claims' : c[1] \in made'
        BY DEF SigInv, ClaimsGood
      <3>3. sess'[n].psigs \subseteq made'  BY <3>1, <3>2
      <3> QED BY <3>3 DEF TypeInv, TypeOK, BundleInv, NodeGood
    <2>2. /\ Cardinality(b.keys) >= MinSigners
          /\ \A id \in b.keys : \E p \in made : p.oracle = id /\ p.bound = b
      BY <1>1, <1>3, <2>1, CommitteeSigned, SMT
    <2>3. \A id \in b.keys : [oracle |-> id, on |-> b] \in S
      BY <2>2
    <2>4. H[n] = {} /\ H' = [H EXCEPT ![n] = {b}]
      <3>1. H[n] = {} /\ H'[n] = {b} /\ \A k \in Nodes \ {n} : H'[k] = H[k]
        BY <1>1, <1>3
      <3> QED BY <3>1
    <2>5. \E x \in S : x.on = b
      <3>1. b.keys # {}
        <4>1. MinSigners \in Nat /\ MinSigners # 0 /\ Cardinality({}) = 0
          BY SessionAssumption, FS_EmptySet, FS_CardinalityType, SMT
        <4> QED BY <2>2, <4>1, SMT
      <3>2. PICK id \in b.keys : [oracle |-> id, on |-> b] \in S
        BY <2>3, <3>1
      <3>3. [oracle |-> id, on |-> b].on = b  OBVIOUS
      <3> QED BY <3>2, <3>3
    <2>6. b \in {x.on : x \in S}  BY <2>5
    <2> HIDE DEF b
    <2>7. \E c \in {x.on : x \in S} : Promise!Certify(n, c)
      <3>1. PICK c \in {x.on : x \in S} : c = b  BY <2>6
      <3>2. Promise!Cardinality(c.keys) = Cardinality(c.keys)
        BY DEF Promise!Cardinality, Cardinality
      <3>3. Promise!Certify(n, c)
        BY <1>1, <2>2, <2>3, <2>4, <3>1, <3>2 DEF Promise!Certify
      <3> QED BY <3>3
    <2>8. Promise!Next  BY <2>7 DEF Promise!Next
    <2> QED BY <2>8
  <1> QED BY <1>2, <1>3

-----------------------------------------------------------------------------
\* A calm step in terms of what it assigns to the node's state.
LEMMA CalmAssign ==
    ASSUME TypeInv, NEW n \in Nodes, NEW s, NEW m, NEW t, NEW b,
           SetSess(n, s), SetMaps(n, m), SetTick(n, t),
           inbox' = [inbox EXCEPT ![n] = b], made' = made,
           sess[n].state = "COMPLETE" => s.state = "COMPLETE" /\ s.bound = sess[n].bound,
           SigGood(s, m, t, b, Claims), MsgsMade(msgs', Claims)
    PROVE  Calm(n)
  <1>1. sess'[n] = s /\ \A k \in Nodes \ {n} : sess'[k] = sess[k]  BY Assign
  <1>2. maps'[n] = m /\ \A k \in Nodes \ {n} : maps'[k] = maps[k]  BY Assign
  <1>3. tick'[n] = t /\ \A k \in Nodes \ {n} : tick'[k] = tick[k]  BY Assign
  <1>4. inbox'[n] = b /\ \A k \in Nodes \ {n} : inbox'[k] = inbox[k]  BY Assign
  <1> QED BY <1>1, <1>2, <1>3, <1>4 DEF Calm

\* A block: a session is replaced only when there was none or it has failed.
LEMMA CalmBlock ==
    ASSUME TypeInv, BundleInv, SigInv, NEW n \in Nodes, NEW d \in ReorgDepths,
           NEW sd \in ChainSeeds, BlockConnected(n, d, sd)
    PROVE  Calm(n)
  <1> DEFINE h == tick[n].height + 1 - d
             m == SeedMaps(maps[n], h, sd)
             s == GetOrCreate(n, m, h)
             t == [Idle(h) EXCEPT !.pc = "resend"]
  <1>1. h \in Int /\ sd \in Seeds
    BY OrchestratorAssumption, SMT DEF TypeInv, TypeOK, Tick
  <1>2. /\ m \in Maps /\ m.live = maps[n].live /\ m.attempt \in Nat /\ m.seed \in Seeds
        /\ m.pending = maps[n].pending /\ m.unsentPsigs = maps[n].unsentPsigs
    BY <1>1, NodeTypes DEF SeedMaps, Maps
  <1>3. /\ inbox' = [inbox EXCEPT ![n] = inbox[n]] /\ made' = made
        /\ MsgsMade(msgs', Claims) /\ SigGood(sess[n], maps[n], tick[n], inbox[n], Claims)
    BY DEF BlockConnected, SigInv, TypeInv, TypeOK
  <1>4. Idle(h).out = {} /\ t.out = {}  BY DEF Idle
  <1>5. \A a \in Nat : LET f == FreshSession(m, a, h) IN f.psigs = {} /\ f.state = "CREATED"
    BY <1>1, <1>2 DEF FreshSession, NewSession, SetEpochSelectionSeed
  <1> HIDE DEF h, m, t
  <1>6. /\ \A p \in s.psigs : <<p, s.ctx>> \in Claims
        /\ sess[n].state = "COMPLETE" => s.state = "COMPLETE" /\ s.bound = sess[n].bound
    BY <1>1, <1>2, <1>3, <1>5, NodeTypes DEF GetOrCreate, SetEpochSelectionSeed, Session, SigGood
  <1> HIDE DEF s
  <1>7. CASE SetTick(n, Idle(h)) /\ UNCHANGED <<sess, maps>>
    <2>1. SigGood(sess[n], maps[n], Idle(h), inbox[n], Claims)
      BY <1>3, <1>4 DEF SigGood
    <2> QED BY <1>3, <1>7, <2>1, Same, CalmAssign
  <1>8. CASE /\ MayRestart(m, s) /\ SetTick(n, t) /\ SetMaps(n, RestartedMaps(m))
             /\ SetSess(n, FreshSession(m, m.attempt + 1, h))
    <2>1. /\ RestartedMaps(m).live /\ RestartedMaps(m).pending = {}
          /\ RestartedMaps(m).unsentPsigs = {}
      BY <1>2 DEF RestartedMaps, NoMaps, Maps
    <2>2. SigGood(FreshSession(m, m.attempt + 1, h), RestartedMaps(m), t, inbox[n], Claims)
      BY <1>2, <1>3, <1>4, <1>5, <2>1, SMT DEF SigGood
    <2>3. sess[n].state # "COMPLETE"
      BY <1>6, <1>8 DEF MayRestart
    <2> QED BY <1>3, <1>8, <2>2, <2>3, CalmAssign
  <1>9. CASE SetTick(n, t) /\ SetMaps(n, [m EXCEPT !.live = TRUE]) /\ SetSess(n, s)
    <2> DEFINE m2 == [m EXCEPT !.live = TRUE]
    <2>1. m2.live /\ m2.pending = m.pending /\ m2.unsentPsigs = m.unsentPsigs
      BY <1>2 DEF Maps
    <2> HIDE DEF m2
    <2>2. SigGood(s, m2, t, inbox[n], Claims)
      BY <1>2, <1>3, <1>4, <1>6, <2>1 DEF SigGood
    <2> QED BY <1>3, <1>6, <1>9, <2>2, CalmAssign DEF m2
  <1> QED BY <1>7, <1>8, <1>9 DEF BlockConnected, h, m, s, t

\* The steps of a tick that touch neither signatures nor the session's state.
LEMMA CalmNonces ==
    ASSUME TypeInv, BundleInv, SigInv, NEW n \in Nodes,
           \/ Resend(n) \/ StepGenerateNonce(n) \/ StepStoreNonce(n) \/ StepSendNonce(n)
           \/ StepNoncesDone(n)
    PROVE  Calm(n)
  <1>1. /\ sess[n] \in Session /\ maps[n] \in Maps /\ tick[n] \in Tick
        /\ NodeGood(n, sess[n], maps[n], tick[n], drawn)
    BY NodeTypes
  <1>2. /\ SigGood(sess[n], maps[n], tick[n], inbox[n], Claims) /\ MsgsMade(msgs, Claims)
        /\ inbox' = inbox => inbox' = [inbox EXCEPT ![n] = inbox[n]]
    BY DEF SigInv, TypeInv, TypeOK
  <1>3. CASE Resend(n)
    <2> DEFINE s == IF maps[n].seeded THEN SetEpochSelectionSeed(sess[n], maps[n].seed)
                    ELSE sess[n]
               m == IF n \in online
                    THEN [maps[n] EXCEPT !.unsentNonces = {}, !.unsentCtx = {}, !.unsentPsigs = {}]
                    ELSE [maps[n] EXCEPT !.unsentNonces = {e.oracle : e \in HeldNonces(maps[n])},
                                         !.unsentCtx = {c.ctx : c \in HeldContexts(maps[n])},
                                         !.unsentPsigs = HeldPsigs(maps[n])]
               t == [tick[n] EXCEPT !.pc = "gen",
                        !.todo = IF s.state \in {"CREATED", "NONCES_COLLECTING"}
                                 THEN Local[n] \ maps[n].nonceTracker ELSE {}]
    <2>1. SetSess(n, s) /\ SetMaps(n, m) /\ SetTick(n, t) /\ inbox' = inbox /\ made' = made
          /\ Broadcast(n, HeldNonces(maps[n]) \cup HeldContexts(maps[n]) \cup HeldPsigs(maps[n]))
      BY <1>3 DEF Resend
    <2>2. s.psigs = sess[n].psigs /\ s.ctx = sess[n].ctx /\ s.state = sess[n].state /\ s.bound = sess[n].bound
      BY <1>1 DEF SetEpochSelectionSeed, Session
    <2>3. m.live = maps[n].live /\ m.pending = maps[n].pending /\ m.unsentPsigs \subseteq maps[n].unsentPsigs
      BY <1>1 DEF Maps, HeldPsigs
    <2>4. t.out = tick[n].out  BY <1>1 DEF Tick
    <2>5. MsgsMade(msgs', Claims)
      <3>1. \A e \in HeldNonces(maps[n]) \cup HeldContexts(maps[n]) : e.type # "psig"
        BY <1>1 DEF HeldNonces, HeldContexts, Maps, NonceMsg, ContextMsg
      <3>2. \A e \in HeldPsigs(maps[n]) : <<e.sig, e.ctx>> \in Claims
        BY <1>2 DEF HeldPsigs, SigGood
      <3> QED BY <1>2, <2>1, <3>1, <3>2 DEF Broadcast, MsgsMade
    <2> HIDE DEF s, m, t
    <2>6. SigGood(s, m, t, inbox[n], Claims)
      BY <1>2, <2>2, <2>3, <2>4 DEF SigGood
    <2> QED BY <1>2, <2>1, <2>2, <2>5, <2>6, CalmAssign
  <1>4. CASE StepGenerateNonce(n)
    <2> DEFINE s == GenerateNonce(sess[n], NextId(n), Oracles, Cardinality(drawn) + 1)
    <2>1. /\ SetSess(n, s) /\ SetMaps(n, maps[n]) /\ inbox' = inbox /\ made' = made /\ msgs' = msgs
          /\ \/ SetTick(n, [tick[n] EXCEPT !.pc = "add"])
             \/ SetTick(n, [tick[n] EXCEPT !.todo = Done(n)])
      BY <1>4, Same DEF StepGenerateNonce, Goto
    <2>2. /\ s.psigs = sess[n].psigs /\ s.ctx = sess[n].ctx /\ s.bound = sess[n].bound
          /\ s.state = sess[n].state \/ (s.state = "NONCES_COLLECTING" /\ sess[n].state # "COMPLETE")
      BY <1>1 DEF GenerateNonce, CanGenerateNonce, Session
    <2>3. PICK t : SetTick(n, t) /\ t.out = tick[n].out
      <3>1. /\ [tick[n] EXCEPT !.pc = "add"].out = tick[n].out
            /\ [tick[n] EXCEPT !.todo = Done(n)].out = tick[n].out
        BY <1>1 DEF Tick
      <3> QED BY <2>1, <3>1
    <2> HIDE DEF s
    <2>4. SigGood(s, maps[n], t, inbox[n], Claims)
      BY <1>2, <2>2, <2>3, SMT DEF SigGood
    <2> QED BY <1>2, <2>1, <2>2, <2>3, <2>4, CalmAssign
  <1>5. CASE StepStoreNonce(n)
    <2> DEFINE id == NextId(n)
               s == AddPubnonce(sess[n], id, sess[n].sec[id])
               m == [maps[n] EXCEPT
                       !.nonceTracker = maps[n].nonceTracker \cup {id},
                       !.evidence = {e \in maps[n].evidence : e.oracle # id}
                                       \cup {NonceRec(sess[n].attempt, id, sess[n].sec[id])},
                       !.unsentNonces = maps[n].unsentNonces \cup {id}]
               t == [tick[n] EXCEPT !.pc = "sendnonce"]
    <2>1. /\ SetSess(n, s) /\ SetMaps(n, m) /\ SetTick(n, t)
          /\ inbox' = inbox /\ made' = made /\ msgs' = msgs
      BY <1>5 DEF StepStoreNonce, Goto
    <2>2. /\ s.psigs = sess[n].psigs /\ s.ctx = sess[n].ctx /\ s.bound = sess[n].bound
          /\ s.state = sess[n].state \/ (s.state = "NONCES_COMPLETE" /\ sess[n].state # "COMPLETE")
      BY <1>1 DEF AddPubnonce, CanAddPubnonce, Session
    <2>3. m.live = maps[n].live /\ m.pending = maps[n].pending /\ m.unsentPsigs = maps[n].unsentPsigs
      BY <1>1 DEF Maps
    <2>4. t.out = tick[n].out  BY <1>1 DEF Tick
    <2> HIDE DEF s, m, t
    <2>5. SigGood(s, m, t, inbox[n], Claims)
      BY <1>2, <2>2, <2>3, <2>4, SMT DEF SigGood
    <2> QED BY <1>2, <2>1, <2>2, <2>5, CalmAssign
  <1>6. CASE StepSendNonce(n)
    <2> DEFINE id == NextId(n)
               m == IF n \in online
                    THEN [maps[n] EXCEPT !.unsentNonces = maps[n].unsentNonces \ {id}]
                    ELSE maps[n]
               t == [tick[n] EXCEPT !.pc = "gen", !.todo = Done(n)]
    <2>1. /\ SetSess(n, sess[n]) /\ SetMaps(n, m) /\ SetTick(n, t)
          /\ inbox' = inbox /\ made' = made
          /\ Broadcast(n, {NonceRec(sess[n].attempt, id, sess[n].sec[id])})
      BY <1>6, Same DEF StepSendNonce
    <2>2. m.live = maps[n].live /\ m.pending = maps[n].pending /\ m.unsentPsigs = maps[n].unsentPsigs
      BY <1>1 DEF Maps
    <2>3. t.out = tick[n].out  BY <1>1 DEF Tick
    <2>4. MsgsMade(msgs', Claims)
      BY <1>2, <2>1, SMT DEF Broadcast, MsgsMade, NonceRec
    <2> HIDE DEF m, t
    <2>5. SigGood(sess[n], m, t, inbox[n], Claims)
      BY <1>2, <2>2, <2>3 DEF SigGood
    <2> QED BY <1>2, <2>1, <2>4, <2>5, CalmAssign
  <1>7. CASE StepNoncesDone(n)
    <2> DEFINE t == [tick[n] EXCEPT
                       !.pc = IF sess[n].state = "NONCES_COMPLETE" THEN "converge" ELSE "drain"]
    <2>1. /\ SetSess(n, sess[n]) /\ SetMaps(n, maps[n]) /\ SetTick(n, t)
          /\ inbox' = inbox /\ made' = made /\ msgs' = msgs
      BY <1>7, Same DEF StepNoncesDone, Goto
    <2>2. t.out = tick[n].out  BY <1>1 DEF Tick
    <2> HIDE DEF t
    <2>3. SigGood(sess[n], maps[n], t, inbox[n], Claims)
      BY <1>2, <2>2 DEF SigGood
    <2> QED BY <1>2, <2>1, <2>3, CalmAssign
  <1> QED BY <1>3, <1>4, <1>5, <1>6, <1>7

\* Step 2 of a tick: neither the choice nor the making of a context, nor the
\* freezing and binding of a session that has not completed.
LEMMA CalmConverge ==
    ASSUME TypeInv, BundleInv, SigInv, NEW n \in Nodes, NEW ok \in BOOLEAN,
           \/ StepWait(n) \/ StepChoose(n) \/ StepNoContext(n) \/ StepSendContext(n)
           \/ \E id \in Oracles, v \in Values : StepPropose(n, id, v)
           \/ StepTrim(n) \/ StepBind(n, ok)
    PROVE  Calm(n)
  <1>1. /\ sess[n] \in Session /\ maps[n] \in Maps /\ tick[n] \in Tick
        /\ sess[n].state = "NONCES_COMPLETE" /\ sess[n].psigs = {} /\ maps[n].live
    BY NodeTypes DEF NodeGood, TickGood, SessionInv, CollectingStates, StepWait, StepChoose, StepNoContext, StepSendContext,
                     StepPropose, StepTrim, StepBind
  <1>2. /\ SigGood(sess[n], maps[n], tick[n], inbox[n], Claims) /\ MsgsMade(msgs, Claims)
        /\ inbox' = [inbox EXCEPT ![n] = inbox[n]] /\ made' = made
    BY DEF SigInv, TypeInv, TypeOK, StepWait, StepChoose, StepNoContext, StepSendContext,
           StepPropose, StepTrim, StepBind
  <1>3. MsgsMade(msgs', Claims)
    <2>1. CASE msgs' = msgs  BY <1>2, <2>1
    <2>2. CASE StepSendContext(n)
      <3>1. \A c \in tick[n].chosen : c.type # "psig"  BY <1>1 DEF Tick, ContextMsg
      <3> QED BY <1>2, <2>2, <3>1 DEF StepSendContext, Broadcast, MsgsMade
    <2> QED BY <2>1, <2>2 DEF StepWait, StepChoose, StepNoContext, StepPropose, StepTrim, StepBind
  <1>4. \E s : SetSess(n, s) /\ s.psigs = {}
    <2>1. CASE UNCHANGED sess  BY <1>1, <2>1, Same
    <2>2. CASE StepWait(n)
      BY <1>1, <2>2, SMT DEF StepWait, SetEpochSelectionSeed, Session
    <2>3. CASE StepTrim(n)
      <3>1. \A v : SetSignedValues(sess[n], v).psigs = {}
        BY <1>1 DEF SetSignedValues, Session
      <3>2. \A v, P, K : SetKeyAggCache(TrimNoncesToParticipants(SetSignedValues(sess[n], v), P), K).psigs
                         = {}
        BY <1>1 DEF SetSignedValues, TrimNoncesToParticipants, SetKeyAggCache, Session
      <3>3. \/ \E v : SetSess(n, SetSignedValues(sess[n], v))
            \/ \E v, P, K : SetSess(n, SetKeyAggCache(
                   TrimNoncesToParticipants(SetSignedValues(sess[n], v), P), K))
        BY <2>3 DEF StepTrim
      <3> QED BY <3>1, <3>2, <3>3
    <2>4. CASE StepBind(n, ok)
      <3>1. \A v : AggregateNonces(sess[n], v, ok).psigs = {}
        BY <1>1 DEF AggregateNonces, Session
      <3>2. \E v : SetSess(n, AggregateNonces(sess[n], v, ok))
        BY <2>4 DEF StepBind
      <3> QED BY <3>1, <3>2
    <2> QED BY <2>1, <2>2, <2>3, <2>4 DEF StepChoose, StepNoContext, StepSendContext, StepPropose
  <1>5. \E m : SetMaps(n, m) /\ m.live /\ m.pending = maps[n].pending /\ m.unsentPsigs = maps[n].unsentPsigs
    <2>1. CASE UNCHANGED maps  BY <1>1, <2>1, Same
    <2>2. CASE StepSendContext(n)
      <3>1. PICK U : SetMaps(n, [maps[n] EXCEPT !.unsentCtx = U])
        BY <2>2 DEF StepSendContext
      <3>2. LET m == [maps[n] EXCEPT !.unsentCtx = U]
            IN  m.live /\ m.pending = maps[n].pending /\ m.unsentPsigs = maps[n].unsentPsigs
        BY <1>1 DEF Maps
      <3> QED BY <3>1, <3>2
    <2>3. CASE \E id \in Oracles, v \in Values : StepPropose(n, id, v)
      <3>1. PICK C, U : SetMaps(n, [maps[n] EXCEPT !.contexts = C, !.ctxTracker = U])
        BY <2>3 DEF StepPropose
      <3>2. LET m == [maps[n] EXCEPT !.contexts = C, !.ctxTracker = U]
            IN  m.live /\ m.pending = maps[n].pending /\ m.unsentPsigs = maps[n].unsentPsigs
        BY <1>1 DEF Maps
      <3> QED BY <3>1, <3>2
    <2> QED BY <2>1, <2>2, <2>3 DEF StepWait, StepChoose, StepNoContext, StepTrim, StepBind
  <1>6. \E t : SetTick(n, t) /\ (t.out = tick[n].out \/ t.out = {})
    <2>1. Idle(tick[n].height).out = {}  BY DEF Idle
    <2>2. \A pc, C, U : /\ [tick[n] EXCEPT !.pc = pc].out = tick[n].out
                        /\ [tick[n] EXCEPT !.pc = pc, !.chosen = C].out = tick[n].out
                        /\ [tick[n] EXCEPT !.pc = pc, !.todo = U].out = tick[n].out
      BY <1>1 DEF Tick
    <2>3. \/ SetTick(n, Idle(tick[n].height))
          \/ \E pc : SetTick(n, [tick[n] EXCEPT !.pc = pc])
          \/ \E pc, C : SetTick(n, [tick[n] EXCEPT !.pc = pc, !.chosen = C])
          \/ \E pc, U : SetTick(n, [tick[n] EXCEPT !.pc = pc, !.todo = U])
      BY DEF StepWait, StepChoose, StepNoContext, StepSendContext, StepPropose, StepTrim, StepBind,
             Goto, Return
    <2>4. CASE SetTick(n, Idle(tick[n].height))  BY <2>1, <2>4
    <2>5. CASE \E pc : SetTick(n, [tick[n] EXCEPT !.pc = pc])  BY <2>2, <2>5
    <2>6. CASE \E pc, C : SetTick(n, [tick[n] EXCEPT !.pc = pc, !.chosen = C])
      <3>1. PICK pc, C : SetTick(n, [tick[n] EXCEPT !.pc = pc, !.chosen = C])  BY <2>6
      <3>2. [tick[n] EXCEPT !.pc = pc, !.chosen = C].out = tick[n].out  BY <2>2
      <3> QED BY <3>1, <3>2
    <2>7. CASE \E pc, U : SetTick(n, [tick[n] EXCEPT !.pc = pc, !.todo = U])
      <3>1. PICK pc, U : SetTick(n, [tick[n] EXCEPT !.pc = pc, !.todo = U])  BY <2>7
      <3>2. [tick[n] EXCEPT !.pc = pc, !.todo = U].out = tick[n].out  BY <2>2
      <3> QED BY <3>1, <3>2
    <2> QED BY <2>3, <2>4, <2>5, <2>6, <2>7
  <1>7. PICK s, m, t : /\ SetSess(n, s) /\ s.psigs = {}
                       /\ SetMaps(n, m) /\ m.live /\ m.pending = maps[n].pending
                       /\ m.unsentPsigs = maps[n].unsentPsigs
                       /\ SetTick(n, t) /\ (t.out = tick[n].out \/ t.out = {})
    BY <1>4, <1>5, <1>6
  <1>8. SigGood(s, m, t, inbox[n], Claims)  BY <1>2, <1>7 DEF SigGood
  <1> QED BY <1>1, <1>2, <1>3, <1>7, <1>8, CalmAssign

\* The end of a tick: what is sent, kept or applied was made.
LEMMA CalmFinish ==
    ASSUME TypeInv, BundleInv, SigInv, NEW n \in Nodes, NEW ok \in BOOLEAN,
           \/ StepSendPsig(n) \/ StepSignDone(n) \/ StepDrain(n) \/ StepFinish(n, ok)
    PROVE  Calm(n)
  <1>1. /\ sess[n] \in Session /\ maps[n] \in Maps /\ tick[n] \in Tick
        /\ tick[n].pc # "idle" /\ maps[n].live
    BY NodeTypes DEF NodeGood, TickGood, StepSendPsig, StepSignDone, StepDrain, StepFinish
  <1>2. /\ SigGood(sess[n], maps[n], tick[n], inbox[n], Claims) /\ MsgsMade(msgs, Claims)
        /\ inbox' = [inbox EXCEPT ![n] = inbox[n]] /\ made' = made
    BY DEF SigInv, TypeInv, TypeOK, StepSendPsig, StepSignDone, StepDrain, StepFinish
  <1>3. CASE StepSendPsig(n)
    <2> DEFINE id == NextId(n)
               others == {p \in maps[n].unsentPsigs : p.sig.oracle # id}
               m == [maps[n] EXCEPT !.psigTracker = maps[n].psigTracker \cup {id},
                       !.unsentPsigs = IF n \in online THEN others ELSE others \cup tick[n].out]
               t == [tick[n] EXCEPT !.pc = "sign", !.todo = Done(n), !.out = {}]
    <2>1. SetSess(n, sess[n]) /\ SetMaps(n, m) /\ SetTick(n, t) /\ Broadcast(n, tick[n].out)
      BY <1>3, Same DEF StepSendPsig
    <2>2. MsgsMade(msgs', Claims)
      BY <1>2, <2>1 DEF Broadcast, MsgsMade, SigGood
    <2>3. /\ m.live /\ m.pending = maps[n].pending
          /\ m.unsentPsigs \subseteq maps[n].unsentPsigs \cup tick[n].out
      BY <1>1 DEF Maps
    <2>4. t.out = {}  BY <1>1 DEF Tick
    <2> HIDE DEF m, t
    <2>5. SigGood(sess[n], m, t, inbox[n], Claims)
      BY <1>2, <2>3, <2>4 DEF SigGood
    <2> QED BY <1>2, <2>1, <2>2, <2>5, CalmAssign
  <1>4. CASE StepSignDone(n)
    <2> DEFINE t == [tick[n] EXCEPT !.pc = "drain"]
    <2>1. SetSess(n, sess[n]) /\ SetMaps(n, maps[n]) /\ SetTick(n, t) /\ msgs' = msgs
      BY <1>4, Same DEF StepSignDone, Goto
    <2>2. t.out = tick[n].out  BY <1>1 DEF Tick
    <2> HIDE DEF t
    <2>3. SigGood(sess[n], maps[n], t, inbox[n], Claims)
      BY <1>2, <2>2 DEF SigGood
    <2> QED BY <1>2, <2>1, <2>3, CalmAssign
  <1>5. CASE StepDrain(n)
    <2> DEFINE mine == {p \in maps[n].pending : sess[n].state = "SIGNING" /\ p.ctx = sess[n].ctx}
               m == [maps[n] EXCEPT !.pending = maps[n].pending \ mine]
               t == [tick[n] EXCEPT !.pc = "finish", !.out = mine]
    <2>1. SetSess(n, sess[n]) /\ SetMaps(n, m) /\ SetTick(n, t) /\ msgs' = msgs
      BY <1>5, Same DEF StepDrain
    <2>2. /\ m.live /\ m.pending \subseteq maps[n].pending /\ m.unsentPsigs = maps[n].unsentPsigs
          /\ t.out \subseteq maps[n].pending
      BY <1>1 DEF Maps, Tick
    <2> HIDE DEF m, t
    <2>3. SigGood(sess[n], m, t, inbox[n], Claims)
      BY <1>2, <2>2 DEF SigGood
    <2> QED BY <1>2, <2>1, <2>3, CalmAssign
  <1>6. CASE StepFinish(n, ok)
    <2> DEFINE S == {p.sig : p \in {q \in tick[n].out : Applies(sess[n], q)}}
               a == [sess[n] EXCEPT !.psigs = sess[n].psigs \cup S]
               b == AggregateSignature(a, ok)
               s == CheckTimeout(b, tick[n].height)
               t == Idle(tick[n].height)
    <2>1. SetSess(n, s) /\ SetMaps(n, maps[n]) /\ SetTick(n, t) /\ msgs' = msgs
      BY <1>6, Same DEF StepFinish, Return
    <2>2. (\A p \in S : <<p, sess[n].ctx>> \in Claims) /\ S \subseteq PartialSig
      BY <1>1, <1>2 DEF SigGood, Tick, PsigMsg, Applies
    <2> HIDE DEF S
    <2>3. /\ a \in Session /\ a.state = sess[n].state
          /\ a.ctx = sess[n].ctx /\ (\A p \in a.psigs : <<p, a.ctx>> \in Claims)
          /\ a.bound = sess[n].bound
      BY <1>1, <1>2, <2>2 DEF Session, SigGood
    <2> HIDE DEF a
    <2>4. /\ b \in Session /\ b.psigs = a.psigs /\ b.ctx = a.ctx /\ b.bound = a.bound
          /\ a.state = "COMPLETE" => b.state = "COMPLETE"
      BY <2>3 DEF AggregateSignature, Session, SessionStates
    <2> HIDE DEF b
    <2>5. /\ s.psigs = b.psigs /\ s.ctx = b.ctx /\ s.bound = b.bound
          /\ b.state = "COMPLETE" => s.state = "COMPLETE"
      BY <2>4 DEF CheckTimeout, Session
    <2>6. t.out = {}  BY DEF Idle
    <2> HIDE DEF s, t
    <2>7. SigGood(s, maps[n], t, inbox[n], Claims)
      BY <1>1, <1>2, <2>3, <2>4, <2>5, <2>6 DEF SigGood
    <2> QED BY <1>2, <2>1, <2>3, <2>4, <2>5, <2>7, CalmAssign
  <1> QED BY <1>3, <1>4, <1>5, <1>6

\* The handlers: what comes off the wire was made.
LEMMA CalmIngest ==
    ASSUME TypeInv, BundleInv, SigInv, NEW n \in Nodes, NEW m \in msgs, NEW ok \in BOOLEAN,
           \/ IngestRemoteNonce(n, m) \/ IngestRemoteContext(n, m)
           \/ IngestRemotePartialSig(n, m, ok)
    PROVE  Calm(n)
  <1> DEFINE s == LazySession(n)
  <1>1. s \in Session /\ maps[n] \in Maps /\ tick[n] \in Tick
    BY LazySessionType, NodeTypes DEF TypeInv
  <1>2. /\ SigGood(sess[n], maps[n], tick[n], inbox[n], Claims) /\ MsgsMade(msgs, Claims)
        /\ msgs' = msgs /\ made' = made /\ SetTick(n, tick[n])
        /\ inbox' = inbox => inbox' = [inbox EXCEPT ![n] = inbox[n]]
    BY Same DEF SigInv, TypeInv, TypeOK, IngestRemoteNonce, IngestRemoteContext, IngestRemotePartialSig
  <1>3. /\ \A p \in s.psigs : <<p, s.ctx>> \in Claims
        /\ sess[n].state = "COMPLETE" => s.state = "COMPLETE" /\ s.bound = sess[n].bound
    <2>1. CASE maps[n].live
      BY <1>2, <2>1 DEF LazySession, SigGood
    <2>2. CASE ~ maps[n].live
      BY <1>2, <2>2 DEF LazySession, FreshSession, NewSession, SetEpochSelectionSeed, SigGood
    <2> QED BY <2>1, <2>2
  <1> HIDE DEF s
  <1>4. ASSUME NEW u, NEW m2, SetSess(n, u), SetMaps(n, m2), inbox' = inbox,
               m2.live, m2.pending = maps[n].pending, m2.unsentPsigs = maps[n].unsentPsigs,
               \A p \in u.psigs : <<p, u.ctx>> \in Claims,
               s.state = "COMPLETE" => u.state = "COMPLETE" /\ u.bound = s.bound
        PROVE  Calm(n)
    <2>1. SigGood(u, m2, tick[n], inbox[n], Claims)
      BY <1>2, <1>4 DEF SigGood
    <2> QED BY <1>2, <1>3, <1>4, <2>1, CalmAssign
  <1>5. ASSUME NEW ev \in NonceMap
        PROVE  LET u == AddNonceEvidence(s, ev)
               IN  /\ \A p \in u.psigs : <<p, u.ctx>> \in Claims
                   /\ s.state = "COMPLETE" => u.state = "COMPLETE" /\ u.bound = s.bound
    <2> DEFINE u == AddNonceEvidence(s, ev)
    <2>1. u.psigs = s.psigs /\ u.ctx = s.ctx /\ (s.state = "COMPLETE" => u = s)
      BY <1>1, EvidenceType
    <2> HIDE DEF u
    <2>2. /\ \A p \in u.psigs : <<p, u.ctx>> \in Claims
          /\ s.state = "COMPLETE" => u.state = "COMPLETE" /\ u.bound = s.bound
      BY <1>3, <2>1
    <2> QED BY <2>2 DEF u
  <1>6. m \in NonceMsg \cup ContextMsg \cup PsigMsg  BY DEF TypeInv, TypeOK
  <1>7. CASE IngestRemoteNonce(n, m)
    <2> DEFINE ev == [NoNonces EXCEPT ![m.oracle] = m.nonce]
    <2>1. PICK E : SetMaps(n, [maps[n] EXCEPT !.live = TRUE, !.evidence = E])
      BY <1>7 DEF IngestRemoteNonce
    <2>2. SetSess(n, AddNonceEvidence(s, ev)) /\ inbox' = inbox
      BY <1>7 DEF IngestRemoteNonce, s
    <2>3. ev \in NonceMap
      BY <1>6, <1>7 DEF IngestRemoteNonce, NonceMsg, ContextMsg, PsigMsg, NonceMap, NoNonces
    <2> DEFINE m2 == [maps[n] EXCEPT !.live = TRUE, !.evidence = E]
    <2>4. m2.live /\ m2.pending = maps[n].pending /\ m2.unsentPsigs = maps[n].unsentPsigs
      BY <1>1 DEF Maps
    <2> HIDE DEF m2, ev
    <2> QED BY <1>4, <1>5, <2>1, <2>2, <2>3, <2>4 DEF m2
  <1>8. CASE IngestRemoteContext(n, m)
    <2>1. PICK E, C : SetMaps(n, [maps[n] EXCEPT !.live = TRUE, !.evidence = E, !.contexts = C])
      BY <1>1, <1>8 DEF IngestRemoteContext, Maps
    <2>2. SetSess(n, AddNonceEvidence(s, m.evidence)) /\ inbox' = inbox
      BY <1>8 DEF IngestRemoteContext, s
    <2>3. m.evidence \in NonceMap
      BY <1>6, <1>8 DEF IngestRemoteContext, NonceMsg, ContextMsg, PsigMsg
    <2> DEFINE m2 == [maps[n] EXCEPT !.live = TRUE, !.evidence = E, !.contexts = C]
    <2>4. m2.live /\ m2.pending = maps[n].pending /\ m2.unsentPsigs = maps[n].unsentPsigs
      BY <1>1 DEF Maps
    <2> HIDE DEF m2
    <2> QED BY <1>4, <1>5, <2>1, <2>2, <2>3, <2>4 DEF m2
  <1>9. CASE IngestRemotePartialSig(n, m, ok)
    <2> DEFINE a == AddPartialSignatureVerified(s, m.sig)
               b == AggregateSignature(a, ok)
               m2 == [maps[n] EXCEPT !.live = TRUE]
    <2>1. /\ SetMaps(n, m2)
          /\ \/ m.ctx = s.ctx /\ SetSess(n, b) /\ inbox' = inbox
             \/ SetSess(n, s) /\ inbox' = [inbox EXCEPT ![n] = {m}]
      BY <1>9 DEF IngestRemotePartialSig, Applies, s
    <2>2. m2.live /\ m2.pending = maps[n].pending /\ m2.unsentPsigs = maps[n].unsentPsigs
      BY <1>1 DEF Maps
    <2>3. <<m.sig, m.ctx>> \in Claims
      BY <1>2, <1>9 DEF IngestRemotePartialSig, MsgsMade
    <2>4. ASSUME m.ctx = s.ctx
          PROVE  /\ \A p \in b.psigs : <<p, b.ctx>> \in Claims
                 /\ s.state = "COMPLETE" => b.state = "COMPLETE" /\ b.bound = s.bound
      BY <1>1, <1>3, <2>3, <2>4 DEF AggregateSignature, AddPartialSignatureVerified, Session
    <2> HIDE DEF b, m2
    <2>5. CASE m.ctx = s.ctx /\ SetSess(n, b) /\ inbox' = inbox
      BY <1>4, <2>1, <2>2, <2>4, <2>5
    <2>6. CASE SetSess(n, s) /\ inbox' = [inbox EXCEPT ![n] = {m}]
      <3>1. SigGood(s, m2, tick[n], {m}, Claims)
        BY <1>2, <1>3, <2>2, <2>3 DEF SigGood
      <3> QED BY <1>2, <1>3, <2>1, <2>6, <3>1, CalmAssign
    <2> QED BY <2>1, <2>5, <2>6
  <1> QED BY <1>7, <1>8, <1>9

\* Buffering a partial signature, or dropping it.
LEMMA CalmBuffer ==
    ASSUME TypeInv, BundleInv, SigInv, NEW n \in Nodes, BufferOrDrop(n)
    PROVE  Calm(n)
  <1> DEFINE New(p) == IF sess[n].state \notin {"SIGNING", "COMPLETE", "FAILED"}
                       THEN BufferPendingPartialSig(maps[n].pending, p) ELSE maps[n].pending
  <1>1. /\ maps[n] \in Maps /\ MsgsMade(msgs', Claims) /\ made' = made
        /\ SigGood(sess[n], maps[n], tick[n], inbox[n], Claims)
        /\ SetSess(n, sess[n]) /\ SetTick(n, tick[n]) /\ inbox' = [inbox EXCEPT ![n] = {}]
    BY Same, NodeTypes DEF BufferOrDrop, SigInv
  <1>2. PICK p \in inbox[n] : SetMaps(n, [maps[n] EXCEPT !.pending = New(p)])
    BY DEF BufferOrDrop
  <1>3. New(p) \subseteq maps[n].pending \cup {p}
    BY DEF BufferPendingPartialSig
  <1> DEFINE m == [maps[n] EXCEPT !.pending = New(p)]
  <1> HIDE DEF New
  <1>4. m.live = maps[n].live /\ m.pending = New(p) /\ m.unsentPsigs = maps[n].unsentPsigs
    BY <1>1 DEF Maps
  <1> HIDE DEF m
  <1>5. SigGood(sess[n], m, tick[n], {}, Claims)
    BY <1>1, <1>3, <1>4 DEF SigGood
  <1> QED BY <1>1, <1>2, <1>5, CalmAssign DEF m

-----------------------------------------------------------------------------
\* What a session signs: a statement that lists the signer, with the nonce the
\* session has drawn for it.
LEMMA SignsItsNonce ==
    ASSUME TypeInv, BundleInv, NEW n \in Nodes, NEW id \in Oracles, CanSign(sess[n], id)
    PROVE  /\ id \in sess[n].bound.keys
           /\ sess[n].bound.nonces[id] = sess[n].sec[id]
  <1>1. NodeGood(n, sess[n], maps[n], tick[n], drawn) /\ UniqueNonces(drawn)
    BY NodeTypes DEF BundleInv
  <1>2. /\ NonceRec(sess[n].attempt, id, sess[n].sec[id]) \in drawn
        /\ NonceRec(sess[n].attempt, id, sess[n].pub[id]) \in drawn
    BY <1>1 DEF CanSign, NodeGood, Published, NoncesDrawn
  <1>3. sess[n].sec[id] = sess[n].pub[id]
    BY <1>1, <1>2 DEF UniqueNonces, NonceRec
  <1>4. /\ sess[n].bound = [nonces |-> sess[n].pub, msg |-> sess[n].signed, keys |-> sess[n].keys]
        /\ sess[n].keys = Holders(sess[n].pub)
    BY <1>1 DEF CanSign, NodeGood, SessionInv, SignedStates
  <1>5. id \in Holders(sess[n].pub)  BY DEF CanSign, Holders
  <1> QED BY <1>3, <1>4, <1>5, SMT

\* Making a signature is the specification's Sign; failing to is nothing.
LEMMA SignSimulates ==
    ASSUME TypeInv, BundleInv, NonceInv, SigInv, TypeInv', BundleInv',
           NEW n \in Nodes, NEW ok \in BOOLEAN, StepSign(n, ok)
    PROVE  SigInv' /\ [Promise!Next]_(Promise!vars)
  <1> DEFINE id == NextId(n)
             sig == SignatureOf(sess[n], id)
             msg == [type |-> "psig", attempt |-> sess[n].attempt, ctx |-> sess[n].ctx, sig |-> sig]
             c == ConsumeNonce(sess[n], id)
             w == AddPartialSignature(c, sig)
             t == [tick[n] EXCEPT !.pc = "sendsig", !.out = {msg}]
             u == [tick[n] EXCEPT !.todo = Done(n)]
  <1>1. /\ sess[n] \in Session /\ maps[n] \in Maps /\ tick[n] \in Tick
        /\ inbox' = inbox /\ msgs' = msgs /\ SetMaps(n, maps[n])
        /\ SigGood(sess[n], maps[n], tick[n], inbox[n], Claims) /\ MsgsMade(msgs, Claims)
    BY NodeTypes, Same DEF StepSign, SigInv
  <1>2. id \in Oracles
    BY <1>1, NextIdType DEF StepSign, Tick
  <1>3. t.out = {msg} /\ u.out = tick[n].out /\ msg.sig = sig /\ msg.ctx = sess[n].ctx  BY <1>1 DEF Tick
  <1>4. /\ c.psigs = sess[n].psigs /\ c.ctx = sess[n].ctx /\ w.ctx = sess[n].ctx /\ c.state = sess[n].state /\ c.bound = sess[n].bound
        /\ w.psigs \subseteq sess[n].psigs \cup {sig} /\ w.state = sess[n].state
    BY <1>1 DEF ConsumeNonce, AddPartialSignature, Session
  <1>5. sig.oracle = id /\ sig.nonce = sess[n].sec[id] /\ sig.bound = sess[n].bound
    BY DEF SignatureOf
  <1>6. \/ SetSess(n, sess[n]) /\ SetTick(n, u) /\ made' = made
        \/ SetSess(n, c) /\ SetTick(n, u) /\ made' = made
        \/ CanSign(sess[n], id) /\ SetSess(n, w) /\ SetTick(n, t) /\ made' = made \cup {sig}
    BY Same DEF StepSign
  <1>7. inbox' = [inbox EXCEPT ![n] = inbox[n]]  BY <1>1 DEF TypeInv, TypeOK
  <1> HIDE DEF sig, msg, c, w, t, u, id
  <1>8. ASSUME NEW s \in {sess[n], c}, SetSess(n, s), SetTick(n, u), made' = made
        PROVE  SigInv' /\ [Promise!Next]_(Promise!vars)
    <2>1. SigGood(s, maps[n], u, inbox[n], Claims)
      BY <1>1, <1>3, <1>4, <1>8 DEF SigGood
    <2>2. Calm(n)
      BY <1>1, <1>4, <1>7, <1>8, <2>1, CalmAssign
    <2> QED BY <2>2, CalmKeeps, CalmSimulates
  <1>9. CASE CanSign(sess[n], id) /\ SetSess(n, w) /\ SetTick(n, t) /\ made' = made \cup {sig}
    <2>1. /\ sess'[n] = w /\ (\A k \in Nodes \ {n} : sess'[k] = sess[k])
          /\ tick'[n] = t /\ (\A k \in Nodes \ {n} : tick'[k] = tick[k])
          /\ (\A k \in Nodes : maps'[k] = maps[k]) /\ (\A k \in Nodes : inbox'[k] = inbox[k])
      <3>1. sess'[n] = w /\ \A k \in Nodes \ {n} : sess'[k] = sess[k]  BY <1>9, Assign
      <3>2. tick'[n] = t /\ \A k \in Nodes \ {n} : tick'[k] = tick[k]  BY <1>9, Assign
      <3>3. \A k \in Nodes : maps'[k] = maps[k]  BY <1>1, Assign, SMTT(30)
      <3>4. \A k \in Nodes : inbox'[k] = inbox[k]  BY <1>1
      <3> QED BY <3>1, <3>2, <3>3, <3>4
    <2>2. id \in sess[n].bound.keys /\ sess[n].bound.nonces[id] = sess[n].sec[id]
      BY <1>2, <1>9, SignsItsNonce
    <2>3. MadeGood(made')
      BY <1>5, <1>9, <2>2 DEF MadeGood, SigInv
    <2> DEFINE C == Claims \cup {<<sig, sess[n].ctx>>}
    <2>4. sig \notin made
      BY <1>2, <1>5, <1>9, SMT DEF CanSign, NonceInv
    <2>5. ClaimsGood(C, made')
      BY <1>9, <2>4, SMTT(30) DEF SigInv, ClaimsGood
    <2>6. SigGood(w, maps[n], t, inbox[n], C)
      BY <1>1, <1>3, <1>4 DEF SigGood
    <2>7. \A k \in Nodes : SigGood(sess'[k], maps'[k], tick'[k], inbox'[k], C)
      BY <2>1, <2>6 DEF SigInv, SigGood
    <2>8. MsgsMade(msgs', C)
      BY <1>1 DEF MsgsMade
    <2> HIDE DEF C
    <2>9. SigInv'
      BY <2>3, <2>5, <2>7, <2>8, ClaimsShrink
    <2> DEFINE S == {[oracle |-> p.oracle, on |-> p.bound] : p \in made}
               H == [k \in Nodes |-> IF sess[k].state = "COMPLETE" THEN {sess[k].bound} ELSE {}]
               x == [oracle |-> id, on |-> sess[n].bound]
    <2>11. S' = S \cup {x}
      BY <1>5, <1>9
    <2>12. H' = H
      <3>1. sess[n].state # "COMPLETE" /\ sess'[n].state # "COMPLETE"
        BY <1>4, <1>9, <2>1 DEF CanSign
      <3>2. \A k \in Nodes : H'[k] = H[k]
        BY <2>1, <3>1
      <3> QED BY <3>2
    <2>13. ASSUME NEW y \in S, y.oracle = id
           PROVE  y.on.nonces[id] # sess[n].bound.nonces[id]
      <3>1. PICK p \in made : y = [oracle |-> p.oracle, on |-> p.bound]  OBVIOUS
      <3>2. p.oracle = id /\ p.nonce = y.on.nonces[id]
        BY <2>13, <3>1 DEF SigInv, MadeGood
      <3>3. p.nonce # sess[n].sec[id]
        BY <1>2, <1>9 DEF CanSign, NonceInv
      <3> QED BY <2>2, <3>2, <3>3
    <2>14. x \in S' /\ x.oracle = id /\ x.on = sess[n].bound  BY <2>11
    <2> HIDE DEF x
    <2>15. \E y \in S' : Promise!Sign(y)
      <3>1. PICK y \in S' : y = x  BY <2>14
      <3>2. Promise!Sign(y)
        BY <2>2, <2>11, <2>12, <2>13, <2>14, <3>1 DEF Promise!Sign
      <3> QED BY <3>2
    <2>16. Promise!Next
      BY <2>15 DEF Promise!Next
    <2> QED BY <2>9, <2>16
  <1> QED BY <1>6, <1>8, <1>9

\* Every step keeps the invariant and is a step of the specification or none.
LEMMA RefinementStep ==
    ASSUME TypeInv, BundleInv, NonceInv, SigInv, TypeInv', BundleInv', [Next]_vars
    PROVE  SigInv' /\ [Promise!Next]_(Promise!vars)
  <1>1. ASSUME UNCHANGED <<sess, maps, tick, inbox, msgs, made>>
        PROVE  SigInv' /\ [Promise!Next]_(Promise!vars)
    <2>1. SigInv'  BY <1>1, ClaimsShrink DEF SigInv
    <2> QED BY <1>1, <2>1 DEF Promise!vars
  <1>2. CASE UNCHANGED vars \/ Environment
    BY <1>1, <1>2 DEF vars, Environment, Expire, Toggle
  <1>3. ASSUME NEW n \in Nodes, Calm(n) PROVE SigInv' /\ [Promise!Next]_(Promise!vars)
    BY <1>3, CalmKeeps, CalmSimulates
  <1>4. ASSUME NEW n \in Nodes, NewBlock(n) PROVE Calm(n)
    BY <1>4, CalmBlock DEF NewBlock
  <1>5. ASSUME NEW n \in Nodes, BufferOrDrop(n) PROVE Calm(n)
    BY <1>5, CalmBuffer
  <1>6. ASSUME NEW n \in Nodes, Ingest(n) PROVE Calm(n)
    <2>1. PICK m \in msgs, ok \in BOOLEAN :
             \/ IngestRemoteNonce(n, m) \/ IngestRemoteContext(n, m)
             \/ IngestRemotePartialSig(n, m, ok)
      BY <1>6, OrchestratorAssumption DEF Ingest
    <2> QED BY <2>1, CalmIngest
  <1>7. ASSUME NEW n \in Nodes, TickStep(n) PROVE SigInv' /\ [Promise!Next]_(Promise!vars)
    <2>1. PICK ok \in BOOLEAN :
             \/ Resend(n) \/ StepGenerateNonce(n) \/ StepStoreNonce(n) \/ StepSendNonce(n)
             \/ StepNoncesDone(n) \/ StepWait(n) \/ StepChoose(n) \/ StepNoContext(n)
             \/ \E id \in Oracles, v \in Values : StepPropose(n, id, v)
             \/ StepSendContext(n) \/ StepTrim(n)
             \/ StepBind(n, ok) \/ StepSign(n, ok) \/ StepFinish(n, ok)
             \/ StepSendPsig(n) \/ StepSignDone(n) \/ StepDrain(n)
      BY <1>7, OrchestratorAssumption DEF TickStep
    <2>2. CASE \/ Resend(n) \/ StepGenerateNonce(n) \/ StepStoreNonce(n) \/ StepSendNonce(n)
               \/ StepNoncesDone(n)
      BY <1>3, <2>2, CalmNonces
    <2>3. CASE \/ StepWait(n) \/ StepChoose(n) \/ StepNoContext(n) \/ StepSendContext(n)
               \/ \E id \in Oracles, v \in Values : StepPropose(n, id, v)
               \/ StepTrim(n) \/ StepBind(n, ok)
      BY <1>3, <2>3, CalmConverge
    <2>4. CASE StepSign(n, ok)
      BY <2>4, SignSimulates
    <2>5. CASE StepSendPsig(n) \/ StepSignDone(n) \/ StepDrain(n) \/ StepFinish(n, ok)
      BY <1>3, <2>5, CalmFinish
    <2> QED BY <2>1, <2>2, <2>3, <2>4, <2>5
  <1> QED BY <1>2, <1>3, <1>4, <1>5, <1>6, <1>7 DEF Next, NodeStep

\* No signature has been made in the initial state.
LEMMA SigInit == Init => SigInv
  <1> SUFFICES ASSUME Init PROVE SigInv
    OBVIOUS
  <1>1. MadeGood(made) /\ msgs = {}
    BY DEF Init, MadeGood
  <1>2. ASSUME NEW n \in Nodes
        PROVE  /\ sess[n].psigs = {} /\ sess[n].state # "COMPLETE"
               /\ maps[n].pending = {} /\ maps[n].unsentPsigs = {}
               /\ tick[n].out = {} /\ inbox[n] = {}
    <2>1. sess[n].psigs = {} /\ sess[n].state # "COMPLETE"
      BY DEF Init, NewSession
    <2>2. maps[n].pending = {} /\ maps[n].unsentPsigs = {}
      BY DEF Init, NoMaps
    <2>3. tick[n].out = {} /\ inbox[n] = {}
      BY DEF Init, Idle
    <2> QED BY <2>1, <2>2, <2>3
  <1>3. \A n \in Nodes : ClaimsOf(sess[n], maps[n], tick[n], inbox[n]) = {}
    BY <1>2 DEF ClaimsOf
  <1>4. Claims = {}
    BY <1>1, <1>3 DEF Claims
  <1>5. MsgsMade(msgs, Claims) /\ ClaimsGood(Claims, made)
    BY <1>1, <1>4 DEF MsgsMade, ClaimsGood
  <1>6. \A n \in Nodes : SigGood(sess[n], maps[n], tick[n], inbox[n], Claims)
    BY <1>2 DEF SigGood
  <1> QED BY <1>1, <1>5, <1>6 DEF SigInv

\* The ceremony implements the abstract threshold signature: in one life of the
\* processes, for any number of nodes, oracles, attempts, forks, library failures
\* and lost, late or repeated messages, a node completes an epoch at most once,
\* and only with a signature of every oracle of the participation bitmap, each of
\* them made with a nonce of its own.
THEOREM CeremonyImplements == Spec => ImplementsThresholdSignature
  <1>1. Init => NonceInv
    BY SMT DEF Init, NonceInv, NonceSignsOnce, NewSession, NoNonces
  <1>2. Init => SigInv
    BY SigInit
  <1>3. Init => Promise!Init
    <2> SUFFICES ASSUME Init PROVE Promise!Init
      BY SMT
    <2>1. made = {}
      BY DEF Init
    <2>2. \A n \in Nodes : sess[n].state # "COMPLETE"
      BY DEF Init, NewSession
    <2> QED BY <2>1, <2>2 DEF Promise!Init
  <1>4. [Next]_vars => [NextWithCrashes]_vars
    BY DEF NextWithCrashes
  <1>5. TypeInv /\ BundleInv /\ NonceInv /\ [Next]_vars => TypeInv' /\ BundleInv' /\ NonceInv'
    BY <1>4, TypeStep, BundleStep, NonceStep
  <1>6. /\ TypeInv /\ BundleInv /\ NonceInv /\ SigInv /\ [Next]_vars
        => SigInv' /\ [Promise!Next]_(Promise!vars)
    BY <1>5, RefinementStep
  <1> QED BY <1>1, <1>2, <1>3, <1>5, <1>6, TypeInit, BundleInit, PTL
          DEF Spec, ImplementsThresholdSignature, Promise!Spec

-----------------------------------------------------------------------------
\* Two sessions that complete the same attempt with committees that share a
\* member: its nonce of the attempt signed once, so both hold the same signature
\* of it, for one context.
LEMMA SharedSigner ==
    ASSUME TypeInv, BundleInv, NonceInv, SigInv, NEW m \in Nodes, NEW n \in Nodes,
           sess[m].state = "COMPLETE", sess[n].state = "COMPLETE",
           sess[m].attempt = sess[n].attempt,
           NEW id \in sess[m].bound.keys \cap sess[n].bound.keys
    PROVE  sess[m].ctx = sess[n].ctx
  <1>1. ASSUME NEW k \in Nodes, sess[k].state = "COMPLETE", id \in sess[k].bound.keys
        PROVE  \E p \in sess[k].psigs :
                   /\ p \in made /\ <<p, sess[k].ctx>> \in Claims /\ p.oracle = id
                   /\ NonceRec(sess[k].attempt, id, p.nonce) \in drawn
    <2>1. /\ sess[k] \in Session /\ SessionInv(sess[k])
          /\ NoncesDrawn(drawn, sess[k].attempt, sess[k].pub)
      BY NodeTypes DEF NodeGood, Published
    <2>2. PICK p \in sess[k].psigs : p.oracle = id
      BY <1>1, <2>1, CommitteeSigned
    <2>3. sess[k].pub[id] # 0 /\ p.nonce = sess[k].pub[id]
      BY <1>1, <2>1, <2>2 DEF SessionInv, SignedStates, Verifies
    <2>4. id \in Oracles
      BY <2>1, <2>2 DEF Session, PartialSig
    <2>5. NonceRec(sess[k].attempt, id, p.nonce) \in drawn
      BY <2>1, <2>3, <2>4 DEF NoncesDrawn
    <2>6. <<p, sess[k].ctx>> \in Claims
      BY DEF SigInv, SigGood
    <2>7. p \in made
      BY <2>6 DEF SigInv, ClaimsGood
    <2> QED BY <2>2, <2>5, <2>6, <2>7
  <1>2. PICK p \in sess[m].psigs :
            /\ p \in made /\ <<p, sess[m].ctx>> \in Claims /\ p.oracle = id
            /\ NonceRec(sess[m].attempt, id, p.nonce) \in drawn
    BY <1>1
  <1>3. PICK q \in sess[n].psigs :
            /\ q \in made /\ <<q, sess[n].ctx>> \in Claims /\ q.oracle = id
            /\ NonceRec(sess[n].attempt, id, q.nonce) \in drawn
    BY <1>1
  <1>4. p.nonce = q.nonce
    BY <1>2, <1>3 DEF BundleInv, UniqueNonces, NonceRec
  <1>5. p = q
    BY <1>2, <1>3, <1>4 DEF NonceInv, NonceSignsOnce
  <1> QED BY <1>2, <1>3, <1>5 DEF SigInv, ClaimsGood

\* Two committees of a majority threshold share a member.
LEMMA AgreementHolds ==
    ASSUME TypeInv, BundleInv, NonceInv, SigInv
    PROVE  AttemptAgreement
  <1> SUFFICES ASSUME NEW m \in Nodes, NEW n \in Nodes,
                      2 * MinSigners > Cardinality(Oracles),
                      sess[m].state = "COMPLETE", sess[n].state = "COMPLETE",
                      sess[m].attempt = sess[n].attempt
               PROVE  sess[m].ctx = sess[n].ctx
    BY DEF AttemptAgreement
  <1>1. ASSUME NEW k \in Nodes, sess[k].state = "COMPLETE"
        PROVE  /\ sess[k].bound.keys \subseteq Oracles
               /\ Cardinality(sess[k].bound.keys) >= MinSigners
               /\ Cardinality(sess[k].bound.keys) \in Nat
    <2>1. sess[k] \in Session /\ SessionInv(sess[k])
      BY NodeTypes DEF NodeGood
    <2>2. sess[k].bound.keys \subseteq Oracles
      BY <2>1 DEF Session, Binding
    <2>3. Cardinality(sess[k].bound.keys) \in Nat
      BY <2>2, SessionAssumption, FS_Subset, FS_CardinalityType
    <2> QED BY <1>1, <2>1, <2>2, <2>3, CommitteeSigned
  <1>2. Cardinality(Oracles) \in Nat /\ MinSigners \in Nat /\ IsFiniteSet(Oracles)
    BY SessionAssumption, FS_CardinalityType, SMT
  <1>3. Cardinality(sess[m].bound.keys) + Cardinality(sess[n].bound.keys) > Cardinality(Oracles)
    BY <1>1, <1>2, SMTT(30)
  <1>4. sess[m].bound.keys \cap sess[n].bound.keys # {}
    BY <1>1, <1>2, <1>3, FS_MajoritiesIntersect
  <1> QED BY <1>4, SharedSigner

\* When the threshold is a majority of the roster, two nodes that complete the
\* same attempt hand the miner an aggregate of the same context: in one life of
\* the processes, for any number of nodes and oracles, whatever seeds the nodes
\* took from competing blocks and whichever proposals they chose.
THEOREM CompletedAttemptsAgree == Spec => []AttemptAgreement
  <1>1. Init => NonceInv
    BY SMT DEF Init, NonceInv, NonceSignsOnce, NewSession, NoNonces
  <1>2. [Next]_vars => [NextWithCrashes]_vars
    BY SMT DEF NextWithCrashes
  <1>3. TypeInv /\ BundleInv /\ NonceInv /\ [Next]_vars => TypeInv' /\ BundleInv' /\ NonceInv'
    BY <1>2, TypeStep, BundleStep, NonceStep, SMT
  <1>4. TypeInv /\ BundleInv /\ NonceInv /\ SigInv /\ [Next]_vars => SigInv'
    BY <1>3, RefinementStep
  <1>5. TypeInv /\ BundleInv /\ NonceInv /\ SigInv => AttemptAgreement
    BY AgreementHolds
  <1> QED BY <1>1, <1>3, <1>4, <1>5, TypeInit, BundleInit, SigInit, PTL DEF Spec
=============================================================================
