------------------------------ MODULE HeldProofs ------------------------------
(***************************************************************************)
(* What an oracle has made in an epoch is never lost, in one life of every *)
(* process: each map of the epoch is of the attempt the epoch is in, and a *)
(* nonce, a proposal or a partial signature of a local oracle that is      *)
(* marked as done has reached a peer or is held for the next tick.         *)
(*                                                                         *)
(* The argument.  Messages on the wire stay there, so only the node's own  *)
(* steps matter.  A handler lets in nothing of another attempt, and a      *)
(* restart of the attempt drops everything (Coherent).  A nonce that a     *)
(* handler stores over our own evidence is the same nonce, because an      *)
(* oracle draws one per attempt (UniqueNonces).  The context of a session  *)
(* changes only while nothing is signed (PsigHeld).  A handler can drop our *)
(* own proposal only when a proposal of the attempt is on the wire         *)
(* (ContextHeld).                                                          *)
(***************************************************************************)
EXTENDS SigningOrchestratorProofs

\* Most steps are first-order reasoning, which Zenon does; the others name SMT.
USE Zenon

\* Everything a node keeps of the epoch is of the current attempt.
Coherent(s, m, t, b) ==
    /\ m.attempt < MaxAttempts
    /\ s.attempt = m.attempt
    /\ \A x \in m.evidence \cup m.contexts \cup m.pending \cup m.unsentPsigs
                 \cup t.chosen \cup t.out \cup b : x.attempt = m.attempt

\* The nonce of a tracked oracle is in the evidence, and out or held.
NonceHeld(m, M) ==
    \A id \in m.nonceTracker : \E e \in m.evidence :
        e.oracle = id /\ (e \in M \/ id \in m.unsentNonces)

\* The signature of a tracked oracle is out or held, and so is, in the tick that
\* made it, the one in hand; nothing is signed before the session is bound.
PsigHeld(s, m, t, M) ==
    /\ ~ m.live => m.psigTracker = {}
    /\ m.psigTracker # {} \/ t.pc = "sendsig" => s.state \notin CollectingStates
    /\ t.pc = "sendsig" => \E p \in t.out : p.sig.oracle = Current(t) /\ p.ctx = s.ctx
    /\ \A id \in m.psigTracker : \E p \in M \cup m.unsentPsigs :
           p.type = "psig" /\ p.sig.oracle = id /\ p.ctx = s.ctx

\* Once a local oracle has proposed, a proposal of the attempt is out; until then
\* ours is in hand and stored, or held.
ContextOut(M, attempt) == \E c \in M : c.type = "context" /\ c.attempt = attempt

ContextHeld(m, t, M) ==
    m.ctxTracker # {} \/ t.pc = "sendctx" =>
        \/ ContextOut(M, m.attempt)
        \/ IF t.pc = "sendctx" THEN t.chosen # {} /\ t.chosen \subseteq m.contexts
           ELSE HeldContexts(m) # {}

Held(s, m, t, b, M) ==
    /\ Coherent(s, m, t, b) /\ NonceHeld(m, M)
    /\ PsigHeld(s, m, t, M) /\ ContextHeld(m, t, M)

HeldInv == \A n \in Nodes : Held(sess[n], maps[n], tick[n], inbox[n], msgs)

-----------------------------------------------------------------------------
\* More messages on the wire take nothing away.
LEMMA HeldMore ==
    ASSUME NEW s, NEW m, NEW t, NEW b, NEW M, NEW M2, Held(s, m, t, b, M), M \subseteq M2
    PROVE  Held(s, m, t, b, M2)
  <1>1. NonceHeld(m, M2)  BY DEF Held, NonceHeld
  <1>2. PsigHeld(s, m, t, M2)  BY DEF Held, PsigHeld
  <1>3. ContextHeld(m, t, M2)  BY DEF Held, ContextHeld, ContextOut
  <1> QED BY <1>1, <1>2, <1>3 DEF Held

\* A step of node n leaves the other nodes alone.
LEMMA HeldFrame ==
    ASSUME TypeInv, HeldInv, NEW n \in Nodes, NEW s, NEW m, NEW t, NEW b,
           SetSess(n, s), SetMaps(n, m), SetTick(n, t), inbox' = [inbox EXCEPT ![n] = b],
           msgs \subseteq msgs', Held(s, m, t, b, msgs')
    PROVE  HeldInv'
  <1>1. sess'[n] = s /\ \A k \in Nodes \ {n} : sess'[k] = sess[k]  BY Assign
  <1>2. maps'[n] = m /\ \A k \in Nodes \ {n} : maps'[k] = maps[k]  BY Assign
  <1>3. tick'[n] = t /\ \A k \in Nodes \ {n} : tick'[k] = tick[k]  BY Assign
  <1>4. inbox'[n] = b /\ \A k \in Nodes \ {n} : inbox'[k] = inbox[k]  BY Assign
  <1>5. ASSUME NEW k \in Nodes PROVE Held(sess'[k], maps'[k], tick'[k], inbox'[k], msgs')
    <2>1. CASE k = n  BY <1>1, <1>2, <1>3, <1>4, <2>1
    <2>2. CASE k # n
      <3>1. Held(sess[k], maps[k], tick[k], inbox[k], msgs')
        BY HeldMore DEF HeldInv
      <3> QED BY <1>1, <1>2, <1>3, <1>4, <2>2, <3>1
    <2> QED BY <2>1, <2>2
  <1> QED BY <1>5 DEF HeldInv

\* The parts of the maps that a step which sends and stores nothing leaves alone.
SameHeld(m, m2) ==
    /\ m2.attempt = m.attempt /\ (m.live => m2.live)
    /\ m2.nonceTracker = m.nonceTracker /\ m2.evidence = m.evidence
    /\ m2.unsentNonces = m.unsentNonces
    /\ m2.psigTracker = m.psigTracker /\ m2.unsentPsigs = m.unsentPsigs
    /\ m2.ctxTracker = m.ctxTracker /\ m2.contexts = m.contexts /\ m2.unsentCtx = m.unsentCtx

\* What such a step may do to the session and the tick.
QuietSession(s, m, t, s2, t2) ==
    /\ s2.attempt = s.attempt
    /\ m.psigTracker # {} \/ t2.pc = "sendsig" =>
           s2.ctx = s.ctx /\ (s.state \notin CollectingStates => s2.state \notin CollectingStates)
    /\ t2.pc = "sendsig" => t2 = t

QuietTick(t, t2) == t.pc = "sendctx" \/ t2.pc = "sendctx" => t2 = t

LEMMA PsigQuiet ==
    ASSUME NEW s, NEW m, NEW t, NEW s2, NEW m2, NEW t2, NEW M, PsigHeld(s, m, t, M),
           m2.psigTracker = m.psigTracker, m2.unsentPsigs = m.unsentPsigs, m.live => m2.live,
           QuietSession(s, m, t, s2, t2)
    PROVE  PsigHeld(s2, m2, t2, M)
  BY SMT DEF PsigHeld, QuietSession

LEMMA ContextQuiet ==
    ASSUME NEW m, NEW t, NEW m2, NEW t2, NEW M, ContextHeld(m, t, M), QuietTick(t, t2),
           m2.attempt = m.attempt, m2.ctxTracker = m.ctxTracker,
           m2.contexts = m.contexts, m2.unsentCtx = m.unsentCtx
    PROVE  ContextHeld(m2, t2, M)
  BY DEF ContextHeld, QuietTick, HeldContexts

\* A step that sends and stores nothing of the node's own.
LEMMA HeldQuiet ==
    ASSUME NEW s, NEW m, NEW t, NEW b, NEW s2, NEW m2, NEW t2, NEW b2, NEW M,
           Held(s, m, t, b, M), SameHeld(m, m2), QuietSession(s, m, t, s2, t2), QuietTick(t, t2),
           \A x \in m2.pending \cup t2.chosen \cup t2.out \cup b2 : x.attempt = m.attempt
    PROVE  Held(s2, m2, t2, b2, M)
  <1>1. Coherent(s2, m2, t2, b2)  BY DEF Held, Coherent, SameHeld, QuietSession
  <1>2. NonceHeld(m2, M)  BY DEF Held, NonceHeld, SameHeld
  <1>3. PsigHeld(s2, m2, t2, M)  BY PsigQuiet DEF Held, SameHeld
  <1>4. ContextHeld(m2, t2, M)  BY ContextQuiet DEF Held, SameHeld
  <1> QED BY <1>1, <1>2, <1>3, <1>4 DEF Held

\* The node's part of the state, and the frame of a step that touches no message
\* and no partial signature in hand.
LEMMA HeldNode ==
    ASSUME TypeInv, BundleInv, HeldInv, NEW n \in Nodes
    PROVE  /\ sess[n] \in Session /\ maps[n] \in Maps /\ tick[n] \in Tick
           /\ maps[n].attempt \in Nat
           /\ Held(sess[n], maps[n], tick[n], inbox[n], msgs)
           /\ \A x \in maps[n].evidence \cup maps[n].contexts \cup maps[n].pending
                    \cup maps[n].unsentPsigs \cup tick[n].chosen \cup tick[n].out \cup inbox[n] :
                  x.attempt = maps[n].attempt
           /\ sess[n].attempt = maps[n].attempt
           /\ inbox' = inbox => inbox' = [inbox EXCEPT ![n] = inbox[n]]
  BY NodeTypes DEF HeldInv, Held, Coherent, TypeInv, TypeOK

-----------------------------------------------------------------------------
\* A block: a restarted attempt starts with nothing, and a session is replaced
\* only when there was none.
LEMMA HeldBlock ==
    ASSUME TypeInv, BundleInv, HeldInv, NEW n \in Nodes, NEW d \in ReorgDepths,
           NEW sd \in ChainSeeds, BlockConnected(n, d, sd)
    PROVE  HeldInv'
  <1> DEFINE h == tick[n].height + 1 - d
             m == SeedMaps(maps[n], h, sd)
             s == GetOrCreate(n, m, h)
             t == [Idle(h) EXCEPT !.pc = "resend"]
  <1>1. h \in Int /\ sd \in Seeds
    BY OrchestratorAssumption, SMT DEF TypeInv, TypeOK, Tick
  <1>2. m \in Maps /\ SameHeld(maps[n], m) /\ m.live = maps[n].live /\ m.pending = maps[n].pending
    BY <1>1, HeldNode DEF SeedMaps, Maps, SameHeld
  <1>3. /\ inbox' = [inbox EXCEPT ![n] = inbox[n]] /\ msgs' = msgs /\ tick[n].pc = "idle"
        /\ inbox[n] = {}
    BY HeldNode DEF BlockConnected, Unlocked
  <1>4. /\ Idle(h).pc = "idle" /\ Idle(h).chosen = {} /\ Idle(h).out = {}
        /\ t.pc = "resend" /\ t.chosen = {} /\ t.out = {}
    BY DEF Idle
  <1>5. m.attempt \in Nat /\ m.seed \in Seeds  BY <1>2 DEF Maps
  <1> HIDE DEF h, m, t
  <1>6. CASE SetTick(n, Idle(h)) /\ UNCHANGED <<sess, maps>>
    <2>1. Held(sess[n], maps[n], Idle(h), inbox[n], msgs)
      BY <1>3, <1>4, HeldNode, HeldQuiet DEF SameHeld, QuietSession, QuietTick
    <2> QED BY <1>3, <1>6, <2>1, HeldFrame, Same
  <1>7. CASE /\ MayRestart(m, s) /\ SetTick(n, t) /\ SetMaps(n, RestartedMaps(m))
             /\ SetSess(n, FreshSession(m, m.attempt + 1, h))
    <2> DEFINE s2 == FreshSession(m, m.attempt + 1, h)
               m2 == RestartedMaps(m)
    <2>1. s2.attempt = m.attempt + 1
      <3>1. m.attempt + 1 \in Nat  BY <1>5, SMT
      <3> QED BY <1>1, <1>2, <3>1, FreshSessionType
    <2>2. /\ m2.live /\ m2.attempt = m.attempt + 1 /\ m2.evidence = {} /\ m2.contexts = {}
          /\ m2.pending = {} /\ m2.unsentPsigs = {} /\ m2.nonceTracker = {}
          /\ m2.psigTracker = {} /\ m2.ctxTracker = {}
      BY <1>2 DEF RestartedMaps, NoMaps, Maps
    <2>3. m.attempt + 1 < MaxAttempts  BY <1>7 DEF MayRestart
    <2> HIDE DEF s2, m2
    <2>4. Held(s2, m2, t, inbox[n], msgs)
      BY <1>3, <1>4, <2>1, <2>2, <2>3 DEF Held, Coherent, NonceHeld, PsigHeld, ContextHeld
    <2> QED BY <1>3, <1>7, <2>4, HeldFrame DEF s2, m2
  <1>8. CASE SetTick(n, t) /\ SetMaps(n, [m EXCEPT !.live = TRUE]) /\ SetSess(n, s)
    <2> DEFINE m2 == [m EXCEPT !.live = TRUE]
    <2>1. SameHeld(maps[n], m2) /\ m2.pending = maps[n].pending
      BY <1>2 DEF Maps, SameHeld
    <2>2. QuietSession(sess[n], maps[n], tick[n], s, t)
      <3>1. CASE maps[n].live
        <4>1. s = sess[n] \/ s = SetEpochSelectionSeed(sess[n], m.seed)
          BY <1>2, <3>1 DEF GetOrCreate
        <4>2. s.attempt = sess[n].attempt /\ s.ctx = sess[n].ctx /\ s.state = sess[n].state
          BY <4>1, HeldNode DEF SetEpochSelectionSeed, Session
        <4> QED BY <1>4, <4>2 DEF QuietSession
      <3>2. CASE ~ maps[n].live
        <4>1. s.attempt = m.attempt
          BY <1>1, <1>2, <1>5, <3>2, FreshSessionType DEF GetOrCreate
        <4>2. maps[n].psigTracker = {} /\ m.attempt = sess[n].attempt
          BY <1>2, <3>2, HeldNode DEF Held, PsigHeld, SameHeld
        <4> QED BY <1>4, <4>1, <4>2 DEF QuietSession
      <3> QED BY <3>1, <3>2
    <2> HIDE DEF s, m2
    <2>3. Held(s, m2, t, inbox[n], msgs)
      BY <1>3, <1>4, <2>1, <2>2, HeldNode, HeldQuiet DEF QuietTick
    <2> QED BY <1>3, <1>8, <2>3, HeldFrame DEF m2
  <1> QED BY <1>6, <1>7, <1>8 DEF BlockConnected, h, m, s, t

\* Resending: what is held goes out, or stays held.
LEMMA HeldResend ==
    ASSUME TypeInv, BundleInv, HeldInv, NEW n \in Nodes, Resend(n)
    PROVE  HeldInv'
  <1> DEFINE m == maps[n]
             s == IF m.seeded THEN SetEpochSelectionSeed(sess[n], m.seed) ELSE sess[n]
             out == HeldNonces(m) \cup HeldContexts(m) \cup HeldPsigs(m)
             m2 == IF n \in online
                   THEN [m EXCEPT !.unsentNonces = {}, !.unsentCtx = {}, !.unsentPsigs = {}]
                   ELSE [m EXCEPT !.unsentNonces = {e.oracle : e \in HeldNonces(m)},
                                  !.unsentCtx = {c.ctx : c \in HeldContexts(m)},
                                  !.unsentPsigs = HeldPsigs(m)]
             t == [tick[n] EXCEPT !.pc = "gen",
                     !.todo = IF s.state \in {"CREATED", "NONCES_COLLECTING"}
                              THEN Local[n] \ m.nonceTracker ELSE {}]
  <1>1. /\ SetMaps(n, m2) /\ SetSess(n, s) /\ SetTick(n, t) /\ Broadcast(n, out)
        /\ inbox' = [inbox EXCEPT ![n] = inbox[n]] /\ tick[n].pc = "resend"
    BY HeldNode DEF Resend
  <1>2. s.attempt = sess[n].attempt /\ s.ctx = sess[n].ctx /\ s.state = sess[n].state
    BY HeldNode DEF SetEpochSelectionSeed, Session
  <1>3. t.pc = "gen" /\ t.chosen = tick[n].chosen /\ t.out = tick[n].out
    BY HeldNode DEF Tick
  <1>4. /\ m2.attempt = m.attempt /\ m2.live = m.live /\ m2.evidence = m.evidence
        /\ m2.contexts = m.contexts /\ m2.pending = m.pending
        /\ m2.nonceTracker = m.nonceTracker /\ m2.psigTracker = m.psigTracker
        /\ m2.ctxTracker = m.ctxTracker
    BY HeldNode DEF Maps
  <1>5. /\ HeldPsigs(m) = m.unsentPsigs
        /\ HeldNonces(m) = {e \in m.evidence : e.oracle \in m.unsentNonces}
    BY HeldNode DEF HeldPsigs, HeldNonces
  <1>6. \/ /\ msgs' = msgs \cup out /\ m2.unsentPsigs = {}
        \/ /\ msgs' = msgs /\ m2.unsentPsigs = m.unsentPsigs
           /\ m2.unsentNonces = {e.oracle : e \in HeldNonces(m)}
           /\ m2.unsentCtx = {c.ctx : c \in HeldContexts(m)}
    BY <1>1, <1>5, HeldNode DEF Broadcast, Maps
  <1> HIDE DEF s, m2, t
  <1>7. Coherent(s, m2, t, inbox[n])
    BY <1>2, <1>3, <1>4, <1>6, HeldNode, SMT DEF Held, Coherent
  <1>8. NonceHeld(m2, msgs')
    <2>1. ASSUME NEW id \in m.nonceTracker
          PROVE  \E e \in m.evidence : e.oracle = id /\ (e \in msgs' \/ id \in m2.unsentNonces)
      <3>1. PICK e \in m.evidence : e.oracle = id /\ (e \in msgs \/ id \in m.unsentNonces)
        BY HeldNode DEF Held, NonceHeld
      <3>2. e \in msgs \/ e \in HeldNonces(m)  BY <1>5, <3>1
      <3>3. e \in msgs' \/ id \in m2.unsentNonces  BY <1>6, <3>1, <3>2
      <3> QED BY <3>1, <3>3
    <2> QED BY <1>4, <2>1 DEF NonceHeld
  <1>9. PsigHeld(s, m2, t, msgs')
    <2>1. m.unsentPsigs \cup msgs \subseteq m2.unsentPsigs \cup msgs'
      BY <1>5, <1>6
    <2> QED BY <1>2, <1>3, <1>4, <2>1, HeldNode, SMT DEF Held, PsigHeld
  <1>10. ContextHeld(m2, t, msgs')
    <2>1. CASE HeldContexts(m) # {}
      <3>1. PICK c \in HeldContexts(m) : TRUE  BY <2>1
      <3>2. c \in m.contexts /\ c.attempt = m.attempt /\ c.type = "context"
        BY HeldNode DEF HeldContexts, Maps, ContextMsg
      <3>3. c \in msgs' \/ c \in HeldContexts(m2)
        BY <1>4, <1>6, <3>1, <3>2 DEF HeldContexts
      <3> QED BY <1>3, <1>4, <3>2, <3>3 DEF ContextHeld, ContextOut
    <2>2. CASE HeldContexts(m) = {}
      <3>1. m.ctxTracker # {} => ContextOut(msgs, m.attempt)
        BY <1>1, <2>2, HeldNode DEF Held, ContextHeld
      <3>2. msgs \subseteq msgs'  BY <1>6
      <3> QED BY <1>3, <1>4, <3>1, <3>2 DEF ContextHeld, ContextOut
    <2> QED BY <2>1, <2>2
  <1>11. Held(s, m2, t, inbox[n], msgs')  BY <1>7, <1>8, <1>9, <1>10 DEF Held
  <1>12. msgs \subseteq msgs'  BY <1>6, SMT
  <1> QED BY <1>1, <1>11, <1>12, HeldFrame

\* A step that takes no nonces any more, or leaves the session's phase alone, is
\* quiet for a session that has signed.
LEMMA QuietPhase ==
    ASSUME TypeInv, BundleInv, HeldInv, NEW n \in Nodes, NEW s2, NEW t2,
           s2.attempt = sess[n].attempt,
           sess[n].state \notin CollectingStates =>
               s2.ctx = sess[n].ctx /\ s2.state \notin CollectingStates,
           t2.pc = "sendsig" => t2 = tick[n]
    PROVE  QuietSession(sess[n], maps[n], tick[n], s2, t2)
  BY HeldNode DEF QuietSession, Held, PsigHeld

\* An oracle's nonce of the attempt is the one in the evidence.
LEMMA SameNonce ==
    ASSUME TypeInv, BundleInv, HeldInv, NEW n \in Nodes, NEW e \in maps[n].evidence,
           NEW r \in drawn, r.oracle = e.oracle, r.attempt = maps[n].attempt
    PROVE  r = e
  <1>1. e \in drawn  BY NodeTypes DEF NodeGood, Published
  <1>2. e.attempt = maps[n].attempt  BY HeldNode
  <1> QED BY <1>1, <1>2 DEF BundleInv, UniqueNonces

\* Drawing a nonce, and the end of the loop of Step 1.
LEMMA HeldDraw ==
    ASSUME TypeInv, BundleInv, HeldInv, NEW n \in Nodes, StepGenerateNonce(n) \/ StepNoncesDone(n)
    PROVE  HeldInv'
  <1>1. /\ SetMaps(n, maps[n]) /\ msgs' = msgs /\ inbox' = [inbox EXCEPT ![n] = inbox[n]]
        /\ tick[n].pc = "gen"
    BY HeldNode, Same DEF StepGenerateNonce, StepNoncesDone
  <1>2. PICK s : /\ SetSess(n, s) /\ s.attempt = sess[n].attempt
                 /\ sess[n].state \notin CollectingStates => s = sess[n]
    <2> DEFINE u == GenerateNonce(sess[n], NextId(n), Oracles, Cardinality(drawn) + 1)
    <2>1. /\ u.attempt = sess[n].attempt
          /\ sess[n].state \notin CollectingStates => u = sess[n]
      BY HeldNode DEF GenerateNonce, CanGenerateNonce, Session, CollectingStates
    <2>2. SetSess(n, u) \/ SetSess(n, sess[n])
      BY Same DEF StepGenerateNonce, StepNoncesDone
    <2> HIDE DEF u
    <2> QED BY <2>1, <2>2
  <1>3. PICK t : /\ SetTick(n, t) /\ t.pc \notin {"sendsig", "sendctx"}
                 /\ t.chosen = tick[n].chosen /\ t.out = tick[n].out
    <2>1. CASE StepGenerateNonce(n)
      <3> DEFINE a == [tick[n] EXCEPT !.pc = "add"]
                 b == [tick[n] EXCEPT !.todo = Done(n)]
      <3>1. a.pc = "add" /\ a.chosen = tick[n].chosen /\ a.out = tick[n].out
        BY HeldNode DEF Tick
      <3>2. b.pc = "gen" /\ b.chosen = tick[n].chosen /\ b.out = tick[n].out
        BY <1>1, HeldNode DEF Tick
      <3>3. SetTick(n, a) \/ SetTick(n, b)  BY <2>1 DEF StepGenerateNonce, Goto
      <3> HIDE DEF a, b
      <3> QED BY <3>1, <3>2, <3>3
    <2>2. CASE StepNoncesDone(n)
      <3> DEFINE a == [tick[n] EXCEPT !.pc = IF sess[n].state = "NONCES_COMPLETE"
                                             THEN "converge" ELSE "drain"]
      <3>1. a.pc \in {"converge", "drain"} /\ a.chosen = tick[n].chosen /\ a.out = tick[n].out
        BY HeldNode DEF Tick
      <3>2. SetTick(n, a)  BY <2>2 DEF StepNoncesDone, Goto
      <3> HIDE DEF a
      <3> QED BY <3>1, <3>2
    <2> QED BY <2>1, <2>2
  <1>4. QuietSession(sess[n], maps[n], tick[n], s, t)
    BY <1>2, <1>3, QuietPhase
  <1>5. Held(s, maps[n], t, inbox[n], msgs)
    BY <1>1, <1>3, <1>4, HeldNode, HeldQuiet, SMT DEF SameHeld, QuietTick
  <1> QED BY <1>1, <1>2, <1>3, <1>5, HeldFrame

\* Storing the nonce as unsent.
LEMMA HeldStoreNonce ==
    ASSUME TypeInv, BundleInv, HeldInv, NEW n \in Nodes, StepStoreNonce(n)
    PROVE  HeldInv'
  <1> DEFINE id == NextId(n)
             s == AddPubnonce(sess[n], id, sess[n].sec[id])
             r == NonceRec(sess[n].attempt, id, sess[n].sec[id])
             m == maps[n]
             m2 == [m EXCEPT !.nonceTracker = m.nonceTracker \cup {id},
                             !.evidence = {e \in m.evidence : e.oracle # id} \cup {r},
                             !.unsentNonces = m.unsentNonces \cup {id}]
             t == [tick[n] EXCEPT !.pc = "sendnonce"]
  <1>1. /\ SetSess(n, s) /\ SetMaps(n, m2) /\ SetTick(n, t) /\ msgs' = msgs
        /\ inbox' = [inbox EXCEPT ![n] = inbox[n]] /\ tick[n].pc = "add"
    BY HeldNode DEF StepStoreNonce, Goto
  <1>2. s.attempt = sess[n].attempt /\ (sess[n].state \notin CollectingStates => s = sess[n])
    BY HeldNode DEF AddPubnonce, CanAddPubnonce, Session, CollectingStates
  <1>3. t.pc = "sendnonce" /\ t.chosen = tick[n].chosen /\ t.out = tick[n].out
    BY HeldNode DEF Tick
  <1>4. /\ m2.attempt = m.attempt /\ m2.live = m.live /\ m2.contexts = m.contexts
        /\ m2.pending = m.pending /\ m2.psigTracker = m.psigTracker
        /\ m2.unsentPsigs = m.unsentPsigs /\ m2.ctxTracker = m.ctxTracker /\ m2.unsentCtx = m.unsentCtx
        /\ m2.nonceTracker = m.nonceTracker \cup {id}
        /\ m2.evidence = {e \in m.evidence : e.oracle # id} \cup {r}
        /\ m2.unsentNonces = m.unsentNonces \cup {id}
    BY HeldNode DEF Maps
  <1>5. r.oracle = id /\ r.attempt = m.attempt  BY HeldNode DEF NonceRec
  <1>6. QuietSession(sess[n], m, tick[n], s, t)  BY <1>2, <1>3, QuietPhase
  <1> HIDE DEF s, m2, t, r, id
  <1>7. Coherent(s, m2, t, inbox[n])
    BY <1>2, <1>3, <1>4, <1>5, HeldNode DEF Held, Coherent
  <1>8. NonceHeld(m2, msgs)
    <2>1. ASSUME NEW j \in m.nonceTracker, j # id
          PROVE  \E e \in m2.evidence : e.oracle = j /\ (e \in msgs \/ j \in m2.unsentNonces)
      <3>1. PICK e \in m.evidence : e.oracle = j /\ (e \in msgs \/ j \in m.unsentNonces)
        BY HeldNode, SMT DEF Held, NonceHeld
      <3> QED BY <1>4, <2>1, <3>1
    <2>2. \E e \in m2.evidence : e.oracle = id /\ (e \in msgs \/ id \in m2.unsentNonces)
      BY <1>4, <1>5
    <2> QED BY <1>4, <2>1, <2>2 DEF NonceHeld
  <1>9. PsigHeld(s, m2, t, msgs) /\ ContextHeld(m2, t, msgs)
    BY <1>1, <1>3, <1>4, <1>6, HeldNode, PsigQuiet, ContextQuiet DEF Held, QuietTick
  <1>10. Held(s, m2, t, inbox[n], msgs)  BY <1>7, <1>8, <1>9 DEF Held
  <1> QED BY <1>1, <1>10, HeldFrame

\* Sending it: what goes out is the nonce in the evidence.
LEMMA HeldSendNonce ==
    ASSUME TypeInv, BundleInv, HeldInv, NEW n \in Nodes, StepSendNonce(n)
    PROVE  HeldInv'
  <1> DEFINE id == NextId(n)
             s == sess[n]
             r == NonceRec(s.attempt, id, s.sec[id])
             m == maps[n]
             m2 == IF n \in online THEN [m EXCEPT !.unsentNonces = m.unsentNonces \ {id}] ELSE m
             t == [tick[n] EXCEPT !.pc = "gen", !.todo = Done(n)]
  <1>1. /\ SetSess(n, s) /\ SetMaps(n, m2) /\ SetTick(n, t) /\ Broadcast(n, {r})
        /\ inbox' = [inbox EXCEPT ![n] = inbox[n]] /\ tick[n].pc = "sendnonce"
    BY HeldNode, Same DEF StepSendNonce
  <1>2. t.pc = "gen" /\ t.chosen = tick[n].chosen /\ t.out = tick[n].out
    BY HeldNode DEF Tick
  <1>3. /\ m2.attempt = m.attempt /\ m2.live = m.live /\ m2.contexts = m.contexts
        /\ m2.pending = m.pending /\ m2.psigTracker = m.psigTracker
        /\ m2.unsentPsigs = m.unsentPsigs /\ m2.ctxTracker = m.ctxTracker /\ m2.unsentCtx = m.unsentCtx
        /\ m2.nonceTracker = m.nonceTracker /\ m2.evidence = m.evidence
    BY HeldNode DEF Maps
  <1>4. \/ msgs' = msgs \cup {r} /\ m2.unsentNonces = m.unsentNonces \ {id}
        \/ msgs' = msgs /\ m2.unsentNonces = m.unsentNonces
    BY <1>1, HeldNode DEF Broadcast, Maps
  <1>5. r \in drawn /\ r.oracle = id /\ r.attempt = m.attempt
    <2>1. id \in Oracles /\ s.sec[id] # 0
      BY <1>1, NodeTypes, NextIdType DEF NodeGood, TickGood, Tick
    <2>2. r \in drawn  BY <2>1, NodeTypes DEF NodeGood, Published, NoncesDrawn
    <2> QED BY <2>2, HeldNode DEF NonceRec
  <1>6. QuietSession(s, m, tick[n], s, t)  BY <1>2, QuietPhase
  <1> HIDE DEF m2, t, r, id
  <1>7. Coherent(s, m2, t, inbox[n])
    BY <1>2, <1>3, HeldNode DEF Held, Coherent
  <1>8. NonceHeld(m2, msgs')
    <2>1. ASSUME NEW j \in m.nonceTracker
          PROVE  \E e \in m2.evidence : e.oracle = j /\ (e \in msgs' \/ j \in m2.unsentNonces)
      <3>1. PICK e \in m.evidence : e.oracle = j /\ (e \in msgs \/ j \in m.unsentNonces)
        BY HeldNode, SMT DEF Held, NonceHeld
      <3>2. j = id => r = e  BY <1>5, <3>1, SameNonce
      <3>3. e \in msgs' \/ j \in m2.unsentNonces  BY <1>4, <3>1, <3>2
      <3> QED BY <1>3, <3>1, <3>3
    <2> QED BY <1>3, <2>1 DEF NonceHeld
  <1>9. msgs \subseteq msgs'  BY <1>4
  <1>10. PsigHeld(s, m2, t, msgs') /\ ContextHeld(m2, t, msgs')
    <2>1. PsigHeld(s, m, tick[n], msgs') /\ ContextHeld(m, tick[n], msgs')
      BY <1>9, HeldNode, HeldMore DEF Held
    <2> QED BY <1>1, <1>2, <1>3, <1>6, <2>1, PsigQuiet, ContextQuiet DEF QuietTick
  <1>11. Held(s, m2, t, inbox[n], msgs')  BY <1>7, <1>8, <1>10 DEF Held
  <1> QED BY <1>1, <1>9, <1>11, HeldFrame

\* Step 2 up to the binding, apart from our own proposal: nothing is signed yet.
LEMMA HeldConverge ==
    ASSUME TypeInv, BundleInv, HeldInv, NEW n \in Nodes, NEW ok \in BOOLEAN,
           \/ StepWait(n) \/ StepChoose(n) \/ StepNoContext(n) \/ StepTrim(n) \/ StepBind(n, ok)
    PROVE  HeldInv'
  <1>1. /\ SetMaps(n, maps[n]) /\ msgs' = msgs /\ inbox' = [inbox EXCEPT ![n] = inbox[n]]
        /\ tick[n].pc \in {"converge", "trim", "bind"}
    BY HeldNode, Same DEF StepWait, StepChoose, StepNoContext, StepTrim, StepBind
  <1>2. sess[n].state \in CollectingStates
    BY <1>1, NodeTypes DEF NodeGood, TickGood, CollectingStates
  <1>3. PICK s : SetSess(n, s) /\ s.attempt = sess[n].attempt
    <2>1. CASE UNCHANGED sess  BY <2>1, Same
    <2>2. CASE StepWait(n)
      BY <2>2, HeldNode, SMT DEF StepWait, SetEpochSelectionSeed, Session
    <2>3. CASE StepTrim(n)
      <3>1. \A v : SetSignedValues(sess[n], v).attempt = sess[n].attempt
        BY HeldNode DEF SetSignedValues, Session
      <3>2. \A v, P, K :
                SetKeyAggCache(TrimNoncesToParticipants(SetSignedValues(sess[n], v), P), K).attempt
                = sess[n].attempt
        BY HeldNode DEF SetSignedValues, TrimNoncesToParticipants, SetKeyAggCache, Session
      <3>3. \/ \E v : SetSess(n, SetSignedValues(sess[n], v))
            \/ \E v, P, K : SetSess(n, SetKeyAggCache(
                   TrimNoncesToParticipants(SetSignedValues(sess[n], v), P), K))
        BY <2>3 DEF StepTrim
      <3> QED BY <3>1, <3>2, <3>3
    <2>4. CASE StepBind(n, ok)
      <3>1. \A v : AggregateNonces(sess[n], v, ok).attempt = sess[n].attempt
        BY HeldNode DEF AggregateNonces, Session
      <3>2. \E v : SetSess(n, AggregateNonces(sess[n], v, ok))
        BY <2>4 DEF StepBind
      <3> QED BY <3>1, <3>2
    <2> QED BY <2>1, <2>2, <2>3, <2>4 DEF StepChoose, StepNoContext
  <1>4. PICK t : /\ SetTick(n, t) /\ t.pc \notin {"sendsig", "sendctx"}
                 /\ t.chosen \subseteq tick[n].chosen \cup maps[n].contexts
                 /\ t.out \subseteq tick[n].out
    <2>1. LET i == Idle(tick[n].height) IN i.pc = "idle" /\ i.chosen = {} /\ i.out = {}
      BY DEF Idle
    <2>2. \A pc, U : LET a == [tick[n] EXCEPT !.pc = pc]
                         c == [tick[n] EXCEPT !.pc = pc, !.chosen = U]
                         b == [tick[n] EXCEPT !.pc = pc, !.todo = U]
                     IN  /\ a.pc = pc /\ a.chosen = tick[n].chosen /\ a.out = tick[n].out
                         /\ c.pc = pc /\ c.chosen = U /\ c.out = tick[n].out
                         /\ b.pc = pc /\ b.chosen = tick[n].chosen /\ b.out = tick[n].out
      BY HeldNode DEF Tick
    <2>3. CASE SetTick(n, Idle(tick[n].height))  BY <2>1, <2>3
    <2>4. CASE \E pc \in {"bind", "drain"} : SetTick(n, [tick[n] EXCEPT !.pc = pc])
      <3>1. PICK pc \in {"bind", "drain"} : SetTick(n, [tick[n] EXCEPT !.pc = pc])  BY <2>4
      <3>2. LET x == [tick[n] EXCEPT !.pc = pc]
            IN  x.pc = pc /\ x.chosen = tick[n].chosen /\ x.out = tick[n].out
        BY <2>2
      <3> QED BY <3>1, <3>2
    <2>5. CASE \E c \in maps[n].contexts : SetTick(n, [tick[n] EXCEPT !.pc = "trim", !.chosen = {c}])
      <3>1. PICK c \in maps[n].contexts : SetTick(n, [tick[n] EXCEPT !.pc = "trim", !.chosen = {c}])
        BY <2>5
      <3>2. LET x == [tick[n] EXCEPT !.pc = "trim", !.chosen = {c}]
            IN  x.pc = "trim" /\ x.chosen = {c} /\ x.out = tick[n].out
        BY <2>2, SMT
      <3> QED BY <3>1, <3>2
    <2>6. CASE StepChoose(n)
      <3>1. SelectReadyContextProposal(n) \subseteq maps[n].contexts
        BY DEF SelectReadyContextProposal, ReadyProposals
      <3> QED BY <2>5, <2>6, <3>1 DEF StepChoose
    <2>7. CASE StepBind(n, ok)
      <3>1. PICK pc, U : /\ pc = IF ok THEN "sign" ELSE "drain"
                         /\ SetTick(n, [tick[n] EXCEPT !.pc = pc, !.todo = U])
        BY <2>7 DEF StepBind
      <3>2. LET x == [tick[n] EXCEPT !.pc = pc, !.todo = U]
            IN  x.pc = pc /\ x.chosen = tick[n].chosen /\ x.out = tick[n].out
        BY <2>2, SMT
      <3>3. pc \notin {"sendsig", "sendctx"}  BY <3>1
      <3> DEFINE x == [tick[n] EXCEPT !.pc = pc, !.todo = U]
      <3>4. /\ SetTick(n, x) /\ x.pc \notin {"sendsig", "sendctx"}
            /\ x.chosen = tick[n].chosen /\ x.out = tick[n].out
        BY <3>1, <3>2, <3>3
      <3> HIDE DEF x
      <3> QED BY <3>4
    <2> QED BY <2>3, <2>4, <2>6, <2>7 DEF StepWait, StepNoContext, StepTrim, Goto, Return
  <1>5. QuietSession(sess[n], maps[n], tick[n], s, t)
    BY <1>2, <1>3, <1>4, QuietPhase
  <1>6. Held(s, maps[n], t, inbox[n], msgs)
    BY <1>1, <1>4, <1>5, HeldNode, HeldQuiet DEF SameHeld, QuietTick
  <1> QED BY <1>1, <1>3, <1>4, <1>6, HeldFrame

\* Our own proposal is stored and in hand ...
LEMMA HeldPropose ==
    ASSUME TypeInv, BundleInv, HeldInv, NEW n \in Nodes, NEW i \in Oracles, NEW v \in Values,
           StepPropose(n, i, v)
    PROVE  HeldInv'
  <1>1. PICK c, U : /\ c.attempt = sess[n].attempt
                    /\ SetMaps(n, [maps[n] EXCEPT
                           !.contexts = {d \in maps[n].contexts : d.ctx # c.ctx} \cup {c},
                           !.ctxTracker = U])
                    /\ SetTick(n, [tick[n] EXCEPT !.pc = "sendctx", !.chosen = {c}])
    BY DEF StepPropose
  <1> DEFINE s == sess[n]
             m == maps[n]
             m2 == [m EXCEPT !.contexts = {d \in m.contexts : d.ctx # c.ctx} \cup {c},
                             !.ctxTracker = U]
             t == [tick[n] EXCEPT !.pc = "sendctx", !.chosen = {c}]
  <1>2. /\ SetSess(n, s) /\ SetMaps(n, m2) /\ SetTick(n, t) /\ msgs' = msgs
        /\ inbox' = [inbox EXCEPT ![n] = inbox[n]]
    BY <1>1, HeldNode, Same DEF StepPropose
  <1>3. t.pc = "sendctx" /\ t.chosen = {c} /\ t.out = tick[n].out
    BY HeldNode DEF Tick
  <1>4. /\ m2.attempt = m.attempt /\ m2.live = m.live /\ m2.evidence = m.evidence
        /\ m2.pending = m.pending /\ m2.psigTracker = m.psigTracker
        /\ m2.unsentPsigs = m.unsentPsigs /\ m2.nonceTracker = m.nonceTracker
        /\ m2.unsentNonces = m.unsentNonces
        /\ m2.contexts \subseteq m.contexts \cup {c} /\ c \in m2.contexts
    BY HeldNode DEF Maps
  <1>5. QuietSession(s, m, tick[n], s, t)  BY <1>3, QuietPhase
  <1> HIDE DEF m2, t
  <1>6. Coherent(s, m2, t, inbox[n])
    BY <1>1, <1>3, <1>4, HeldNode DEF Held, Coherent
  <1>7. NonceHeld(m2, msgs)
    BY <1>4, HeldNode, SMT DEF Held, NonceHeld
  <1>8. PsigHeld(s, m2, t, msgs)
    BY <1>4, <1>5, HeldNode, PsigQuiet DEF Held
  <1>9. ContextHeld(m2, t, msgs)
    BY <1>3, <1>4 DEF ContextHeld
  <1>10. Held(s, m2, t, inbox[n], msgs)  BY <1>6, <1>7, <1>8, <1>9 DEF Held
  <1> QED BY <1>2, <1>10, HeldFrame

\* ... and goes out, or is held.
LEMMA HeldSendContext ==
    ASSUME TypeInv, BundleInv, HeldInv, NEW n \in Nodes, StepSendContext(n)
    PROVE  HeldInv'
  <1> DEFINE s == sess[n]
             m == maps[n]
             m2 == [m EXCEPT !.unsentCtx =
                       IF n \in online THEN {} ELSE {c.ctx : c \in tick[n].chosen}]
             t == Idle(tick[n].height)
  <1>1. /\ SetSess(n, s) /\ SetMaps(n, m2) /\ SetTick(n, t) /\ Broadcast(n, tick[n].chosen)
        /\ inbox' = [inbox EXCEPT ![n] = inbox[n]] /\ tick[n].pc = "sendctx"
    BY HeldNode, Same DEF StepSendContext, Return
  <1>2. t.pc = "idle" /\ t.chosen = {} /\ t.out = {}
    BY DEF Idle
  <1>3. /\ m2.attempt = m.attempt /\ m2.live = m.live /\ m2.evidence = m.evidence
        /\ m2.pending = m.pending /\ m2.psigTracker = m.psigTracker
        /\ m2.unsentPsigs = m.unsentPsigs /\ m2.nonceTracker = m.nonceTracker
        /\ m2.unsentNonces = m.unsentNonces /\ m2.contexts = m.contexts
        /\ m2.ctxTracker = m.ctxTracker
    BY HeldNode DEF Maps
  <1>4. \/ msgs' = msgs \cup tick[n].chosen
        \/ msgs' = msgs /\ m2.unsentCtx = {c.ctx : c \in tick[n].chosen}
    BY <1>1, HeldNode DEF Broadcast, Maps
  <1>5. QuietSession(s, m, tick[n], s, t)  BY <1>2, QuietPhase
  <1>6. msgs \subseteq msgs'  BY <1>4
  <1> HIDE DEF m2, t
  <1>7. Coherent(s, m2, t, inbox[n])
    BY <1>2, <1>3, HeldNode DEF Held, Coherent
  <1>8. NonceHeld(m2, msgs')
    BY <1>3, <1>6, HeldNode, SMT DEF Held, NonceHeld
  <1>9. PsigHeld(s, m2, t, msgs')
    <2>1. PsigHeld(s, m, tick[n], msgs')  BY <1>6, HeldNode, HeldMore DEF Held
    <2> QED BY <1>3, <1>5, <2>1, PsigQuiet
  <1>10. ContextHeld(m2, t, msgs')
    <2>1. CASE ContextOut(msgs, m.attempt)
      BY <1>3, <1>6, <2>1 DEF ContextHeld, ContextOut
    <2>2. CASE tick[n].chosen # {} /\ tick[n].chosen \subseteq m.contexts
      <3>1. PICK c \in tick[n].chosen : c \in m.contexts  BY <2>2
      <3>2. c.attempt = m.attempt /\ c.type = "context"
        BY <3>1, HeldNode DEF Maps, ContextMsg
      <3>3. c \in msgs' \/ c \in HeldContexts(m2)
        BY <1>3, <1>4, <3>1, <3>2 DEF HeldContexts
      <3> QED BY <1>2, <1>3, <3>2, <3>3 DEF ContextHeld, ContextOut
    <2> QED BY <1>1, <2>1, <2>2, HeldNode DEF Held, ContextHeld
  <1>11. Held(s, m2, t, inbox[n], msgs')  BY <1>7, <1>8, <1>9, <1>10 DEF Held
  <1> QED BY <1>1, <1>6, <1>11, HeldFrame

\* Making a partial signature: it is in hand, for the context of the session.
LEMMA HeldSign ==
    ASSUME TypeInv, BundleInv, HeldInv, NEW n \in Nodes, NEW ok \in BOOLEAN, StepSign(n, ok)
    PROVE  HeldInv'
  <1> DEFINE id == NextId(n)
             sig == SignatureOf(sess[n], id)
             msg == [type |-> "psig", attempt |-> sess[n].attempt, ctx |-> sess[n].ctx, sig |-> sig]
             c == ConsumeNonce(sess[n], id)
             w == AddPartialSignature(c, sig)
             t == [tick[n] EXCEPT !.pc = "sendsig", !.out = {msg}]
             u == [tick[n] EXCEPT !.todo = Done(n)]
  <1>1. /\ SetMaps(n, maps[n]) /\ msgs' = msgs /\ inbox' = [inbox EXCEPT ![n] = inbox[n]]
        /\ tick[n].pc = "sign"
    BY HeldNode, Same DEF StepSign
  <1>2. /\ c.attempt = sess[n].attempt /\ c.ctx = sess[n].ctx /\ c.state = sess[n].state
        /\ w.attempt = sess[n].attempt /\ w.ctx = sess[n].ctx /\ w.state = sess[n].state
    BY HeldNode DEF ConsumeNonce, AddPartialSignature, Session
  <1>3. /\ t.pc = "sendsig" /\ t.out = {msg} /\ t.chosen = tick[n].chosen /\ Current(t) = id
        /\ u.pc = "sign" /\ u.out = tick[n].out /\ u.chosen = tick[n].chosen
    BY <1>1, HeldNode DEF Tick, Current, NextId
  <1>4. msg.sig.oracle = id /\ msg.ctx = sess[n].ctx /\ msg.attempt = sess[n].attempt
    BY DEF SignatureOf
  <1>5. \/ SetSess(n, sess[n]) /\ SetTick(n, u)
        \/ SetSess(n, c) /\ SetTick(n, u)
        \/ CanSign(sess[n], id) /\ SetSess(n, w) /\ SetTick(n, t)
    BY Same DEF StepSign
  <1> HIDE DEF id, sig, msg, c, w, t, u
  <1>6. ASSUME NEW s \in {sess[n], c}, SetSess(n, s), SetTick(n, u)
        PROVE  HeldInv'
    <2>1. QuietSession(sess[n], maps[n], tick[n], s, u)
      BY <1>2, <1>3, <1>6, QuietPhase
    <2>2. Held(s, maps[n], u, inbox[n], msgs)
      BY <1>1, <1>3, <2>1, HeldNode, HeldQuiet, SMT DEF SameHeld, QuietTick
    <2> QED BY <1>1, <1>6, <2>2, HeldFrame
  <1>7. CASE CanSign(sess[n], id) /\ SetSess(n, w) /\ SetTick(n, t)
    <2>1. Coherent(w, maps[n], t, inbox[n])
      BY <1>2, <1>3, <1>4, HeldNode DEF Held, Coherent
    <2>2. w.state \notin CollectingStates
      BY <1>2, <1>7 DEF CanSign, CollectingStates
    <2>3. PsigHeld(w, maps[n], t, msgs)
      BY <1>2, <1>3, <1>4, <2>2, HeldNode, SMT DEF Held, PsigHeld
    <2>4. ContextHeld(maps[n], t, msgs)
      BY <1>1, <1>3, HeldNode, ContextQuiet DEF Held, QuietTick
    <2>5. Held(w, maps[n], t, inbox[n], msgs)
      BY <2>1, <2>3, <2>4, HeldNode DEF Held
    <2> QED BY <1>1, <1>7, <2>5, HeldFrame
  <1> QED BY <1>5, <1>6, <1>7

\* Sending it, or holding it.
LEMMA HeldSendPsig ==
    ASSUME TypeInv, BundleInv, HeldInv, NEW n \in Nodes, StepSendPsig(n)
    PROVE  HeldInv'
  <1> DEFINE id == NextId(n)
             s == sess[n]
             m == maps[n]
             others == {p \in m.unsentPsigs : p.sig.oracle # id}
             m2 == [m EXCEPT !.psigTracker = m.psigTracker \cup {id},
                       !.unsentPsigs = IF n \in online THEN others ELSE others \cup tick[n].out]
             t == [tick[n] EXCEPT !.pc = "sign", !.todo = Done(n), !.out = {}]
  <1>1. /\ SetSess(n, s) /\ SetMaps(n, m2) /\ SetTick(n, t) /\ Broadcast(n, tick[n].out)
        /\ inbox' = [inbox EXCEPT ![n] = inbox[n]] /\ tick[n].pc = "sendsig"
    BY HeldNode, Same DEF StepSendPsig
  <1>2. t.pc = "sign" /\ t.chosen = tick[n].chosen /\ t.out = {}
    BY HeldNode DEF Tick
  <1>3. /\ m2.attempt = m.attempt /\ m2.live = m.live /\ m2.evidence = m.evidence
        /\ m2.pending = m.pending /\ m2.psigTracker = m.psigTracker \cup {id}
        /\ m2.nonceTracker = m.nonceTracker /\ m2.ctxTracker = m.ctxTracker
        /\ m2.unsentNonces = m.unsentNonces /\ m2.contexts = m.contexts
        /\ m2.unsentCtx = m.unsentCtx
    BY HeldNode DEF Maps
  <1>4. \/ msgs' = msgs \cup tick[n].out /\ m2.unsentPsigs = others
        \/ msgs' = msgs /\ m2.unsentPsigs = others \cup tick[n].out
    BY <1>1, HeldNode DEF Broadcast, Maps
  <1>5. msgs \subseteq msgs' /\ m2.unsentPsigs \subseteq m.unsentPsigs \cup tick[n].out
    BY <1>4
  <1>6. /\ m.live /\ s.state \notin CollectingStates
        /\ \E p \in tick[n].out : p.type = "psig" /\ p.sig.oracle = id /\ p.ctx = s.ctx
    BY <1>1, HeldNode, NodeTypes, SMT DEF NodeGood, TickGood, Held, PsigHeld, Tick, PsigMsg
  <1> HIDE DEF m2, t, id
  <1>7. Coherent(s, m2, t, inbox[n])
    BY <1>2, <1>3, <1>5, HeldNode DEF Held, Coherent
  <1>8. NonceHeld(m2, msgs')
    BY <1>3, <1>5, HeldNode, SMT DEF Held, NonceHeld
  <1>9. ContextHeld(m2, t, msgs')
    <2>1. ContextHeld(m, tick[n], msgs')  BY <1>5, HeldNode, HeldMore DEF Held
    <2> QED BY <1>1, <1>2, <1>3, <2>1, ContextQuiet DEF QuietTick
  <1>10. ASSUME NEW j \in m2.psigTracker
         PROVE  \E p \in msgs' \cup m2.unsentPsigs : p.type = "psig" /\ p.sig.oracle = j /\ p.ctx = s.ctx
    <2>1. CASE j = id
      BY <1>4, <1>6, <2>1
    <2>2. CASE j # id
      <3>1. PICK p \in msgs \cup m.unsentPsigs : p.type = "psig" /\ p.sig.oracle = j /\ p.ctx = s.ctx
        BY <1>3, <2>2, HeldNode, SMT DEF Held, PsigHeld
      <3> QED BY <1>4, <2>2, <3>1
    <2> QED BY <2>1, <2>2
  <1>11. PsigHeld(s, m2, t, msgs')
    BY <1>2, <1>3, <1>6, <1>10 DEF PsigHeld
  <1>12. Held(s, m2, t, inbox[n], msgs')  BY <1>7, <1>8, <1>9, <1>11 DEF Held
  <1> QED BY <1>1, <1>5, <1>12, HeldFrame

\* The end of a tick.
LEMMA HeldFinish ==
    ASSUME TypeInv, BundleInv, HeldInv, NEW n \in Nodes, NEW ok \in BOOLEAN,
           StepSignDone(n) \/ StepDrain(n) \/ StepFinish(n, ok)
    PROVE  HeldInv'
  <1>1. /\ msgs' = msgs /\ inbox' = [inbox EXCEPT ![n] = inbox[n]]
        /\ tick[n].pc \in {"sign", "drain", "finish"}
    BY HeldNode DEF StepSignDone, StepDrain, StepFinish
  <1>2. ASSUME NEW s, NEW m, NEW t, SetSess(n, s), SetMaps(n, m), SetTick(n, t),
               s.attempt = sess[n].attempt,
               sess[n].state \notin CollectingStates =>
                   s.ctx = sess[n].ctx /\ s.state \notin CollectingStates,
               SameHeld(maps[n], m), t.pc \notin {"sendsig", "sendctx"},
               m.pending \cup t.chosen \cup t.out
                   \subseteq maps[n].pending \cup tick[n].chosen \cup tick[n].out
        PROVE  HeldInv'
    <2>1. QuietSession(sess[n], maps[n], tick[n], s, t)  BY <1>2, QuietPhase
    <2>2. Held(s, m, t, inbox[n], msgs)
      BY <1>1, <1>2, <2>1, HeldNode, HeldQuiet, SMT DEF QuietTick
    <2> QED BY <1>1, <1>2, <2>2, HeldFrame
  <1>3. CASE StepSignDone(n)
    <2> DEFINE t == [tick[n] EXCEPT !.pc = "drain"]
    <2>1. SetSess(n, sess[n]) /\ SetMaps(n, maps[n]) /\ SetTick(n, t)
      BY <1>3, Same DEF StepSignDone, Goto
    <2>2. t.pc = "drain" /\ t.chosen = tick[n].chosen /\ t.out = tick[n].out
      BY HeldNode DEF Tick
    <2> HIDE DEF t
    <2> QED BY <1>2, <2>1, <2>2 DEF SameHeld
  <1>4. CASE StepDrain(n)
    <2> DEFINE mine == {p \in maps[n].pending : sess[n].state = "SIGNING" /\ p.ctx = sess[n].ctx}
               m == [maps[n] EXCEPT !.pending = maps[n].pending \ mine]
               t == [tick[n] EXCEPT !.pc = "finish", !.out = mine]
    <2>1. SetSess(n, sess[n]) /\ SetMaps(n, m) /\ SetTick(n, t)
      BY <1>4, Same DEF StepDrain
    <2>2. t.pc = "finish" /\ t.chosen = tick[n].chosen /\ t.out \subseteq maps[n].pending
      BY HeldNode DEF Tick
    <2>3. SameHeld(maps[n], m) /\ m.pending \subseteq maps[n].pending
      BY HeldNode DEF Maps, SameHeld
    <2> HIDE DEF m, t
    <2> QED BY <1>2, <2>1, <2>2, <2>3
  <1>5. CASE StepFinish(n, ok)
    <2> DEFINE S == {p.sig : p \in {q \in tick[n].out : Applies(sess[n], q)}}
               a == [sess[n] EXCEPT !.psigs = sess[n].psigs \cup S]
               b == AggregateSignature(a, ok)
               s == CheckTimeout(b, tick[n].height)
               t == Idle(tick[n].height)
    <2>1. SetSess(n, s) /\ SetMaps(n, maps[n]) /\ SetTick(n, t)
      BY <1>5, Same DEF StepFinish, Return
    <2> HIDE DEF S
    <2>2. a.attempt = sess[n].attempt /\ a.ctx = sess[n].ctx /\ a.state = sess[n].state
          /\ DOMAIN a = DOMAIN sess[n]
      BY HeldNode DEF Session
    <2>3. /\ b.attempt = a.attempt /\ b.ctx = a.ctx
          /\ b.state = a.state \/ b.state \notin CollectingStates
      BY HeldNode DEF AggregateSignature, Session, CollectingStates
    <2>4. /\ s.attempt = b.attempt /\ s.ctx = b.ctx
          /\ s.state = b.state \/ s.state \notin CollectingStates
      BY HeldNode DEF CheckTimeout, AggregateSignature, Session, CollectingStates
    <2>5. t.pc = "idle" /\ t.chosen = {} /\ t.out = {}  BY DEF Idle
    <2> HIDE DEF a, b, s, t
    <2> QED BY <1>2, <2>1, <2>2, <2>3, <2>4, <2>5 DEF SameHeld
  <1> QED BY <1>3, <1>4, <1>5

-----------------------------------------------------------------------------
\* The session a handler works on, and what it may do to it.
LEMMA LazyQuiet ==
    ASSUME TypeInv, BundleInv, HeldInv, NEW n \in Nodes
    PROVE  /\ LazySession(n) \in Session /\ LazySession(n).attempt = maps[n].attempt
           /\ \A u : (/\ u.attempt = LazySession(n).attempt
                      /\ LazySession(n).state \notin CollectingStates =>
                             u.ctx = LazySession(n).ctx /\ u.state \notin CollectingStates)
                     => QuietSession(sess[n], maps[n], tick[n], u, tick[n])
  <1>1. LazySession(n) \in Session  BY LazySessionType DEF TypeInv
  <1>2. CASE maps[n].live
    <2>1. LazySession(n) = sess[n]  BY <1>2 DEF LazySession
    <2> QED BY <1>1, <2>1, HeldNode, QuietPhase
  <1>3. CASE ~ maps[n].live
    <2>1. maps[n].psigTracker = {} /\ tick[n].pc = "idle"
      BY <1>3, HeldNode, NodeTypes DEF Held, PsigHeld, NodeGood, TickGood
    <2>2. maps[n].attempt \in Nat /\ EpochStart \in Int /\ maps[n].seed \in Seeds
      BY OrchestratorAssumption, NodeTypes, SMTT(30)
    <2>3. LazySession(n).attempt = maps[n].attempt
      BY <1>3, <2>2, HeldNode, FreshSessionType, SMT DEF LazySession
    <2> QED BY <1>1, <2>1, <2>3, HeldNode DEF QuietSession
  <1> QED BY <1>2, <1>3

\* Evidence that was drawn replaces evidence by itself.
LEMMA EvidenceStays ==
    ASSUME TypeInv, BundleInv, HeldInv, NEW n \in Nodes, NEW ev \in NonceMap, NEW a, NEW E,
           a = maps[n].attempt, NoncesDrawn(drawn, a, ev), NEW P \in SUBSET Holders(ev),
           E = ReplaceEvidence(maps[n].evidence, P, ev, a)
    PROVE  maps[n].evidence \subseteq E /\ \A e \in E : e.attempt = maps[n].attempt
  <1>1. ASSUME NEW e \in maps[n].evidence PROVE e \in E
    <2>1. CASE e.oracle \notin P  BY <2>1 DEF ReplaceEvidence
    <2>2. CASE e.oracle \in P
      <3>1. NonceRec(a, e.oracle, ev[e.oracle]) \in drawn
        BY <2>2 DEF NoncesDrawn, Holders
      <3>2. NonceRec(a, e.oracle, ev[e.oracle]) = e
        BY <3>1, SameNonce DEF NonceRec
      <3>3. NonceRec(a, e.oracle, ev[e.oracle]) \in E  BY <2>2 DEF ReplaceEvidence
      <3> QED BY <3>2, <3>3
    <2> QED BY <2>1, <2>2
  <1>2. \A e \in E : e.attempt = a
    BY HeldNode, SMT DEF ReplaceEvidence, NonceRec
  <1> QED BY <1>1, <1>2

\* A handler that stores evidence and, when a proposal of the attempt is out,
\* proposals.
LEMMA HeldStored ==
    ASSUME TypeInv, BundleInv, HeldInv, NEW n \in Nodes, NEW u, NEW m,
           SetSess(n, u), SetMaps(n, m), SetTick(n, tick[n]),
           inbox' = [inbox EXCEPT ![n] = inbox[n]], msgs' = msgs,
           QuietSession(sess[n], maps[n], tick[n], u, tick[n]),
           m.live, m.attempt = maps[n].attempt, m.pending = maps[n].pending,
           m.nonceTracker = maps[n].nonceTracker, m.unsentNonces = maps[n].unsentNonces,
           m.psigTracker = maps[n].psigTracker, m.unsentPsigs = maps[n].unsentPsigs,
           m.ctxTracker = maps[n].ctxTracker, m.unsentCtx = maps[n].unsentCtx,
           maps[n].evidence \subseteq m.evidence,
           \A x \in m.evidence \cup m.contexts : x.attempt = maps[n].attempt,
           m.contexts = maps[n].contexts \/ ContextOut(msgs, maps[n].attempt)
    PROVE  HeldInv'
  <1>1. Coherent(u, m, tick[n], inbox[n])
    BY HeldNode DEF Held, Coherent, QuietSession
  <1>2. NonceHeld(m, msgs)  BY HeldNode, SMT DEF Held, NonceHeld
  <1>3. PsigHeld(u, m, tick[n], msgs)
    BY HeldNode, PsigQuiet DEF Held
  <1>4. ContextHeld(m, tick[n], msgs)
    BY HeldNode, SMT DEF Held, ContextHeld, HeldContexts
  <1>5. Held(u, m, tick[n], inbox[n], msgs)  BY <1>1, <1>2, <1>3, <1>4 DEF Held
  <1> QED BY <1>5, HeldFrame

LEMMA HeldIngestNonce ==
    ASSUME TypeInv, BundleInv, HeldInv, NEW n \in Nodes, NEW m \in msgs, IngestRemoteNonce(n, m)
    PROVE  HeldInv'
  <1> DEFINE s == LazySession(n)
             M == maps[n]
             ev == [NoNonces EXCEPT ![m.oracle] = m.nonce]
             E == ReplaceEvidence(M.evidence, Accepted(s, ev), ev, m.attempt)
             m2 == [M EXCEPT !.live = TRUE, !.evidence = E]
             u == AddNonceEvidence(s, ev)
  <1>1. /\ m.attempt = s.attempt /\ SetSess(n, u) /\ SetMaps(n, m2) /\ SetTick(n, tick[n])
        /\ msgs' = msgs /\ inbox' = [inbox EXCEPT ![n] = inbox[n]] /\ m.type = "nonce"
    BY HeldNode, Same DEF IngestRemoteNonce, Maps
  <1>2. m \in NonceMsg /\ m \in drawn
    BY <1>1 DEF TypeInv, TypeOK, BundleInv, MsgsGood, NonceMsg, ContextMsg, PsigMsg
  <1>3. ev \in NonceMap /\ \A id \in Oracles : ev[id] # 0 => id = m.oracle /\ ev[id] = m.nonce
    BY <1>2 DEF NonceMsg, NonceMap, NoNonces
  <1>4. NonceRec(m.attempt, m.oracle, m.nonce) = m
    BY <1>2 DEF NonceRec, NonceMsg
  <1>5. m.attempt = M.attempt  BY <1>1, LazyQuiet
  <1>6. NoncesDrawn(drawn, M.attempt, ev)
    BY <1>2, <1>3, <1>4, <1>5 DEF NoncesDrawn
  <1> HIDE DEF ev
  <1>7. M.evidence \subseteq E /\ \A e \in E : e.attempt = M.attempt
    <2>1. Accepted(s, ev) \in SUBSET Holders(ev)  BY DEF Accepted
    <2>2. PICK P \in SUBSET Holders(ev) : P = Accepted(s, ev)  BY <2>1
    <2>3. E = ReplaceEvidence(M.evidence, P, ev, M.attempt)  BY <1>5, <2>2
    <2> HIDE DEF E, s
    <2> QED BY <1>3, <1>6, <2>3, EvidenceStays, SMTT(30)
  <1>8. QuietSession(sess[n], M, tick[n], u, tick[n])
    <2>1. /\ s \in Session /\ u.attempt = s.attempt /\ u.ctx = s.ctx
          /\ s.state \in {"SIGNING", "COMPLETE", "FAILED"} => u = s
      BY <1>3, LazyQuiet, EvidenceType
    <2>2. s.state \notin CollectingStates => u.ctx = s.ctx /\ u.state \notin CollectingStates
      BY <2>1 DEF Session, SessionStates, CollectingStates
    <2> HIDE DEF u
    <2> QED BY <2>1, <2>2, LazyQuiet
  <1>9. /\ m2.live /\ m2.attempt = M.attempt /\ m2.pending = M.pending
        /\ m2.nonceTracker = M.nonceTracker /\ m2.unsentNonces = M.unsentNonces
        /\ m2.psigTracker = M.psigTracker /\ m2.unsentPsigs = M.unsentPsigs
        /\ m2.ctxTracker = M.ctxTracker /\ m2.unsentCtx = M.unsentCtx
        /\ m2.evidence = E /\ m2.contexts = M.contexts
    BY HeldNode DEF Maps
  <1>10. \A x \in M.contexts : x.attempt = M.attempt  BY HeldNode
  <1> HIDE DEF u, m2, E
  <1> QED BY <1>1, <1>7, <1>8, <1>9, <1>10, HeldStored

LEMMA HeldIngestContext ==
    ASSUME TypeInv, BundleInv, HeldInv, NEW n \in Nodes, NEW m \in msgs, IngestRemoteContext(n, m)
    PROVE  HeldInv'
  <1> DEFINE s == LazySession(n)
             M == maps[n]
             P == EvidencePrefix(s, m)
             E == ReplaceEvidence(M.evidence, P, m.evidence, m.attempt)
             C == IF P = Holders(m.evidence) THEN StoreProposal(M.contexts, m) ELSE M.contexts
             m2 == [M EXCEPT !.live = TRUE, !.evidence = E, !.contexts = C]
             u == AddNonceEvidence(s, m.evidence)
  <1>1. /\ m.attempt = s.attempt /\ SetSess(n, u) /\ SetMaps(n, m2) /\ SetTick(n, tick[n])
        /\ msgs' = msgs /\ inbox' = [inbox EXCEPT ![n] = inbox[n]] /\ m.type = "context"
    BY HeldNode, Same DEF IngestRemoteContext, Maps
  <1>2. m \in ContextMsg /\ NoncesDrawn(drawn, m.attempt, m.evidence) /\ m.evidence \in NonceMap
    BY <1>1 DEF TypeInv, TypeOK, BundleInv, MsgsGood, NonceMsg, ContextMsg, PsigMsg
  <1>3. m.attempt = M.attempt  BY <1>1, LazyQuiet
  <1>4. P \in SUBSET Holders(m.evidence)  BY DEF EvidencePrefix
  <1> HIDE DEF P
  <1>5. M.evidence \subseteq E /\ \A e \in E : e.attempt = M.attempt
    <2>1. PICK Q \in SUBSET Holders(m.evidence) : Q = P  BY <1>4
    <2>2. PICK ev \in NonceMap : ev = m.evidence  BY <1>2
    <2>3. E = ReplaceEvidence(M.evidence, Q, ev, M.attempt)  BY <1>3, <2>1, <2>2
    <2>4. NoncesDrawn(drawn, M.attempt, ev) /\ Q \in SUBSET Holders(ev)  BY <1>2, <1>3, <2>2
    <2> HIDE DEF E, s
    <2> QED BY <2>3, <2>4, EvidenceStays, SMTT(30)
  <1>6. QuietSession(sess[n], M, tick[n], u, tick[n])
    <2>1. /\ s \in Session /\ u.attempt = s.attempt /\ u.ctx = s.ctx
          /\ s.state \in {"SIGNING", "COMPLETE", "FAILED"} => u = s
      BY <1>2, LazyQuiet, EvidenceType
    <2>2. s.state \notin CollectingStates => u.ctx = s.ctx /\ u.state \notin CollectingStates
      BY <2>1 DEF Session, SessionStates, CollectingStates
    <2> HIDE DEF u
    <2> QED BY <2>1, <2>2, LazyQuiet, SMT
  <1>7. C \subseteq M.contexts \cup {m}  BY DEF StoreProposal
  <1>8. \A x \in C : x.attempt = M.attempt  BY <1>3, <1>7, HeldNode
  <1> HIDE DEF E, C
  <1>9. /\ m2.live /\ m2.attempt = M.attempt /\ m2.pending = M.pending
        /\ m2.nonceTracker = M.nonceTracker /\ m2.unsentNonces = M.unsentNonces
        /\ m2.psigTracker = M.psigTracker /\ m2.unsentPsigs = M.unsentPsigs
        /\ m2.ctxTracker = M.ctxTracker /\ m2.unsentCtx = M.unsentCtx
        /\ m2.evidence = E /\ m2.contexts = C
    BY HeldNode DEF Maps
  <1>10. ContextOut(msgs, M.attempt)  BY <1>1, <1>3 DEF ContextOut
  <1> HIDE DEF u, m2
  <1> QED BY <1>1, <1>5, <1>6, <1>8, <1>9, <1>10, HeldStored

LEMMA HeldIngestPsig ==
    ASSUME TypeInv, BundleInv, HeldInv, NEW n \in Nodes, NEW m \in msgs, NEW ok \in BOOLEAN,
           IngestRemotePartialSig(n, m, ok)
    PROVE  HeldInv'
  <1> DEFINE s == LazySession(n)
             a == AddPartialSignatureVerified(s, m.sig)
             b == AggregateSignature(a, ok)
             m2 == [maps[n] EXCEPT !.live = TRUE]
  <1>1. /\ m.attempt = s.attempt /\ SetMaps(n, m2) /\ SetTick(n, tick[n]) /\ msgs' = msgs
        /\ \/ SetSess(n, b) /\ inbox' = [inbox EXCEPT ![n] = inbox[n]]
           \/ SetSess(n, s) /\ inbox' = [inbox EXCEPT ![n] = {m}]
    BY HeldNode, Same DEF IngestRemotePartialSig
  <1>2. SameHeld(maps[n], m2) /\ m2.pending = maps[n].pending
    BY HeldNode DEF Maps, SameHeld
  <1>3. /\ b.attempt = s.attempt /\ b.ctx = s.ctx
        /\ b.state = s.state \/ b.state \notin CollectingStates
    BY LazyQuiet DEF AggregateSignature, AddPartialSignatureVerified, Session, CollectingStates
  <1> HIDE DEF b, m2, s
  <1>4. ASSUME NEW u \in {s, b}, NEW c \in {inbox[n], {m}},
               SetSess(n, u), inbox' = [inbox EXCEPT ![n] = c]
        PROVE  HeldInv'
    <2>1. QuietSession(sess[n], maps[n], tick[n], u, tick[n])
      BY <1>3, LazyQuiet DEF s
    <2>2. \A x \in c : x.attempt = maps[n].attempt
      BY <1>1, HeldNode, LazyQuiet, SMT DEF s
    <2>3. Held(u, m2, tick[n], c, msgs)
      BY <1>2, <2>1, <2>2, HeldNode, HeldQuiet DEF QuietTick
    <2> QED BY <1>1, <1>4, <2>3, HeldFrame
  <1> QED BY <1>1, <1>4

\* Buffering a partial signature or dropping it.
LEMMA HeldBuffer ==
    ASSUME TypeInv, BundleInv, HeldInv, NEW n \in Nodes, BufferOrDrop(n)
    PROVE  HeldInv'
  <1> DEFINE New(p) == IF sess[n].state \notin {"SIGNING", "COMPLETE", "FAILED"}
                       THEN BufferPendingPartialSig(maps[n].pending, p) ELSE maps[n].pending
  <1>1. /\ SetSess(n, sess[n]) /\ SetTick(n, tick[n]) /\ inbox' = [inbox EXCEPT ![n] = {}]
        /\ msgs' = msgs
    BY Same DEF BufferOrDrop
  <1>2. PICK p \in inbox[n] : SetMaps(n, [maps[n] EXCEPT !.pending = New(p)])
    BY DEF BufferOrDrop
  <1>3. New(p) \subseteq maps[n].pending \cup {p}
    BY DEF BufferPendingPartialSig
  <1> DEFINE m == [maps[n] EXCEPT !.pending = New(p)]
  <1> HIDE DEF New
  <1>4. SameHeld(maps[n], m) /\ m.pending = New(p)
    BY HeldNode DEF Maps, SameHeld
  <1>5. QuietSession(sess[n], maps[n], tick[n], sess[n], tick[n])
    BY HeldNode, QuietPhase
  <1> HIDE DEF m
  <1>6. Held(sess[n], m, tick[n], {}, msgs)
    BY <1>3, <1>4, <1>5, HeldNode, HeldQuiet, SMT DEF QuietTick
  <1> QED BY <1>1, <1>2, <1>6, HeldFrame DEF m

-----------------------------------------------------------------------------
LEMMA HeldInit == Init => HeldInv
  <1> SUFFICES ASSUME Init, NEW n \in Nodes
               PROVE  Held(sess[n], maps[n], tick[n], inbox[n], msgs)
    BY DEF HeldInv
  <1>1. /\ sess[n].attempt = 0 /\ sess[n].state = "CREATED" /\ maps[n] = NoMaps
        /\ tick[n].pc = "idle" /\ tick[n].chosen = {} /\ tick[n].out = {} /\ inbox[n] = {}
    BY DEF Init, NewSession, Idle
  <1>2. MaxAttempts \in Nat \ {0}  BY OrchestratorAssumption
  <1> QED BY <1>1, <1>2, SMTT(30) DEF Held, Coherent, NonceHeld, PsigHeld, ContextHeld, NoMaps

LEMMA HeldStep == TypeInv /\ BundleInv /\ HeldInv /\ [Next]_vars => HeldInv'
  <1> SUFFICES ASSUME TypeInv, BundleInv, HeldInv, [Next]_vars PROVE HeldInv'
    OBVIOUS
  <1>1. CASE UNCHANGED vars \/ Environment
    <2>1. UNCHANGED <<sess, maps, tick, inbox, msgs>>
      BY <1>1 DEF vars, Environment, Expire, Toggle
    <2> QED BY <2>1 DEF HeldInv
  <1>2. ASSUME NEW n \in Nodes, NodeStep(n) PROVE HeldInv'
    <2>1. CASE NewBlock(n)  BY <2>1, HeldBlock DEF NewBlock
    <2>2. CASE Ingest(n)
      <3>1. LibResults \subseteq BOOLEAN  BY OrchestratorAssumption
      <3> QED BY <2>2, <3>1, HeldIngestNonce, HeldIngestContext, HeldIngestPsig DEF Ingest
    <2>3. CASE BufferOrDrop(n)  BY <2>3, HeldBuffer
    <2>4. CASE TickStep(n)
      <3>1. CASE Resend(n)  BY <3>1, HeldResend, SMT
      <3>2. CASE StepGenerateNonce(n) \/ StepNoncesDone(n)  BY <3>2, HeldDraw
      <3>3. CASE StepStoreNonce(n)  BY <3>3, HeldStoreNonce, SMT
      <3>4. CASE StepSendNonce(n)  BY <3>4, HeldSendNonce, SMT
      <3>5. CASE StepWait(n) \/ StepChoose(n) \/ StepNoContext(n) \/ StepTrim(n)
        BY <3>5, HeldConverge
      <3>6. CASE \E i \in Oracles, v \in Values : StepPropose(n, i, v)  BY <3>6, HeldPropose
      <3>7. CASE StepSendContext(n)  BY <3>7, HeldSendContext, SMT
      <3>8. CASE \E ok \in LibResults : StepBind(n, ok) \/ StepSign(n, ok) \/ StepFinish(n, ok)
        <4>1. PICK ok \in BOOLEAN : StepBind(n, ok) \/ StepSign(n, ok) \/ StepFinish(n, ok)
          BY <3>8, OrchestratorAssumption
        <4> QED BY <4>1, HeldConverge, HeldSign, HeldFinish
      <3>9. CASE StepSendPsig(n)  BY <3>9, HeldSendPsig, SMT
      <3>10. CASE StepSignDone(n) \/ StepDrain(n)  BY <3>10, HeldFinish
      <3> QED BY <2>4, <3>1, <3>2, <3>3, <3>4, <3>5, <3>6, <3>7, <3>8, <3>9, <3>10 DEF TickStep
    <2> QED BY <1>2, <2>1, <2>2, <2>3, <2>4 DEF NodeStep
  <1> QED BY <1>1, <1>2 DEF Next

LEMMA HeldAlways == Spec => [](TypeInv /\ BundleInv /\ HeldInv)
  <1>1. TypeInv /\ [Next]_vars => TypeInv'  BY TypeStep DEF NextWithCrashes
  <1>2. Init => TypeInv  BY TypeInit
  <1> QED BY <1>1, <1>2, BundleInit, BundleStep, HeldInit, HeldStep, PTL DEF Spec

\* Every map of an epoch is of the attempt the epoch is in
\* (RestartEpochAttemptIfNeeded and the handlers' checks of the attempt).
THEOREM AttemptsStayApart == Spec => []AttemptCoherence
  <1>1. HeldInv => AttemptCoherence
    BY DEF HeldInv, Held, Coherent, AttemptCoherence
  <1> QED BY <1>1, HeldAlways, PTL

\* A nonce marked as generated has reached a peer or is held, and it is the nonce
\* the session signs with and has stored for the oracle (ResendUnsentNonces).
THEOREM NoncesOutOrHeld == Spec => []OwnNonceOutOrHeld
  <1>1. ASSUME TypeInv, BundleInv, HeldInv PROVE OwnNonceOutOrHeld
    <2> SUFFICES ASSUME NEW n \in Nodes, NEW id \in maps[n].nonceTracker
                 PROVE  \E e \in maps[n].evidence :
                            /\ e.oracle = id
                            /\ e \in msgs \/ id \in maps[n].unsentNonces
                            /\ sess[n].sec[id] \in {0, e.nonce}
                            /\ sess[n].pub[id] \in {0, e.nonce}
      BY DEF OwnNonceOutOrHeld
    <2>1. PICK e \in maps[n].evidence : e.oracle = id /\ (e \in msgs \/ id \in maps[n].unsentNonces)
      BY <1>1, HeldNode DEF Held, NonceHeld
    <2>2. id \in Oracles /\ sess[n].attempt = maps[n].attempt
      BY <1>1, HeldNode DEF Maps
    <2>3. ASSUME NEW x, NonceRec(sess[n].attempt, id, x) \in drawn PROVE x = e.nonce
      <3> DEFINE r == NonceRec(sess[n].attempt, id, x)
      <3>1. r \in drawn /\ r.oracle = e.oracle /\ r.attempt = maps[n].attempt /\ r.nonce = x
        BY <2>1, <2>2, <2>3 DEF NonceRec
      <3> HIDE DEF r
      <3> QED BY <1>1, <3>1, SameNonce
    <2>4. /\ sess[n].sec[id] # 0 => NonceRec(sess[n].attempt, id, sess[n].sec[id]) \in drawn
          /\ sess[n].pub[id] # 0 => NonceRec(sess[n].attempt, id, sess[n].pub[id]) \in drawn
      BY <1>1, <2>2, NodeTypes DEF NodeGood, Published, NoncesDrawn
    <2>5. sess[n].sec[id] \in {0, e.nonce}  BY <2>3, <2>4
    <2>6. sess[n].pub[id] \in {0, e.nonce}  BY <2>3, <2>4
    <2> QED BY <2>1, <2>5, <2>6
  <1> QED BY <1>1, HeldAlways, PTL

\* A partial signature marked as broadcast has reached a peer or is held, for the
\* context the session is bound to (ResendUnsentPartialSigs).
THEOREM PsigsOutOrHeld == Spec => []OwnPsigOutOrHeld
  <1>1. HeldInv => OwnPsigOutOrHeld
    BY SMTT(30) DEF HeldInv, Held, PsigHeld, OwnPsigOutOrHeld
  <1> QED BY <1>1, HeldAlways, PTL

\* After a local oracle has proposed, a proposal of the attempt has reached a peer
\* or ours is offered again by the next tick (ResendUnsentContexts).
THEOREM ContextsOutOrHeld == Spec => []OwnContextOutOrHeld
  <1>1. HeldInv => OwnContextOutOrHeld
    BY DEF HeldInv, Held, ContextHeld, ContextOut, OwnContextOutOrHeld
  <1> QED BY <1>1, HeldAlways, PTL
=============================================================================
