---------------------------- MODULE HeadersSync ----------------------------
(***************************************************************************)
(* Initial headers synchronisation with one peer: HeadersSyncState         *)
(* (src/src/headerssync.cpp) and the handlers around it                    *)
(* (src/src/net_processing.cpp).  Headers of a chain that has not shown    *)
(* the minimum work are downloaded twice: PRESYNC counts their work and    *)
(* keeps a bit of some of them, REDOWNLOAD compares those bits and hands   *)
(* the headers to validation once enough others follow.                    *)
(*                                                                         *)
(* The peer is honest: it serves its chain, which may grow or be           *)
(* reorganised at any time.  Messages keep their order and may be late.    *)
(***************************************************************************)
EXTENDS HeadersWork

CONSTANTS
    Base,              \* the chain both sides start from, m_best_header
    MinWork,           \* GetAntiDoSWorkThreshold, as long as no block connects
    MaxHeaders,        \* MAX_HEADERS_RESULTS
    MaxAnnounce,       \* MAX_BLOCKS_TO_ANNOUNCE
    CommitmentPeriod,  \* HEADER_COMMITMENT_PERIOD
    MaxCommitments,    \* m_max_commitments
    BufferSize,        \* REDOWNLOAD_BUFFER_SIZE
    OldBlocks, Ahead,  \* the blocks, and how many, that only the peer has at first
    NewBlocks,         \* the blocks it may find later: algo, delay, bit
    MaxChanges,        \* bound: blocks and reorganisations after the start
    MaxCrossed         \* bound: requests sent while others are under way

VARIABLES
    rules,    \* the network's parameters
    theirs,   \* the peer's active chain
    index,    \* the block index: the chains that end at the blocks in it
    sync,     \* m_headers_sync
    asked,    \* m_last_getheaders_timestamp is recent
    up, down, \* messages under way to and from the peer
    changes, crossed

vars == <<rules, theirs, index, sync, asked, up, down, changes, crossed>>

-----------------------------------------------------------------------------
(* The peer's chain.  A block carries, beside what AddToBlockIndex puts in *)
(* a CBlockIndex, the bit of its salted hash.                              *)

Mined(c, b) ==
    LET h == [height |-> Last(c).height + 1, algo |-> b.algo, bit |-> b.bit,
              time |-> Last(c).time + b.delay,
              bits |-> IF Last(c).height + 1 < WorkChange THEN PowLimit
                       ELSE GetNextWorkRequired(rules, c, Last(c).time + b.delay, b.algo,
                                                History(rules, c)[b.algo])]
    IN  Append(c, h @@ [chainwork |-> Last(c).chainwork + WorkOf(rules, c, h)])

Minable(c, b) == IsAlgoActive(Last(c).height + 1, b.algo)

Prefix(c, n) == SubSeq(c, 1, n)

-----------------------------------------------------------------------------
(* HeadersSyncState.  seen is not kept by the code: the chain that PRESYNC *)
(* went through.                                                           *)

NoSync == [phase |-> "FINAL"]

NewHeadersSyncState(start, offset) ==
    [phase |-> "PRESYNC", start |-> start, offset |-> offset,
     work |-> NewHeadersWorkState(start), commitments |-> <<>>,
     last |-> start, chainwork |-> Last(start).chainwork,
     buffer |-> <<>>, all |-> FALSE, seen |-> start]

AtCommitment(s, height) == height % CommitmentPeriod = s.offset

\* ValidateAndProcessSingleHeader, given the commitments with h's and what
\* AddHeader makes of h.  s.last is the chain received so far.
Presynced(s, h, kept, added) ==
    IF Len(kept) > MaxCommitments \/ ~ added.ok THEN NoSync
    ELSE [s EXCEPT !.commitments = kept, !.work = added.state,
                   !.chainwork = @ + added.work,
                   !.last = Append(@, h), !.seen = Append(@, h)]
ValidateAndProcessSingleHeader(s, h) ==
    Presynced(s, h,
              IF AtCommitment(s, Last(s.last).height + 1)
              THEN Append(s.commitments, h.bit) ELSE s.commitments,
              AddHeader(rules, s.work, s.start, h))

\* Mutant: the work state goes on from the end of the first download.
StartRedownload_SameWork(s) ==
    IF s.phase = "PRESYNC" /\ s.chainwork >= MinWork
    THEN [s EXCEPT !.phase = "REDOWNLOAD", !.last = s.start, !.buffer = <<>>,
                   !.chainwork = Last(s.start).chainwork]
    ELSE s

\* Enough work: the download starts again, with the work counted afresh.
StartRedownload(s) ==
    IF s.phase = "PRESYNC" /\ s.chainwork >= MinWork
    THEN [s EXCEPT !.phase = "REDOWNLOAD", !.last = s.start, !.buffer = <<>>,
                   !.chainwork = Last(s.start).chainwork,
                   !.work = NewHeadersWorkState(s.start)]
    ELSE s

\* ValidateAndStoreRedownloadedHeader, given what AddHeader makes of h.  s.last is
\* the chain redownloaded so far.  Once it has enough work nothing is compared.
HasEnoughWork(s, added) == s.all \/ s.chainwork + added.work >= MinWork
Stored(s, h, added, left) ==
    [s EXCEPT !.work = added.state, !.chainwork = @ + added.work,
              !.all = HasEnoughWork(s, added), !.commitments = left,
              !.last = Append(@, h), !.buffer = Append(@, h)]
\* Mutant: commitments are not compared.
Redownloaded_Unchecked(s, h, added) ==
    IF ~ added.ok THEN NoSync ELSE Stored(s, h, added, s.commitments)

\* The next commitment must be there and match.
Redownloaded(s, h, added) ==
    IF ~ added.ok THEN NoSync
    ELSE IF HasEnoughWork(s, added) \/ ~ AtCommitment(s, Last(s.last).height + 1)
    THEN Stored(s, h, added, s.commitments)
    ELSE IF s.commitments = <<>> \/ Head(s.commitments) # h.bit THEN NoSync
    ELSE Stored(s, h, added, Tail(s.commitments))
ValidateAndStoreRedownloadedHeader(s, h) ==
    Redownloaded(s, h, AddHeader(rules, s.work, s.start, h))

\* PopHeadersReadyForAcceptance: how many of the buffer are ready.
Ready(s) == IF s.all THEN Len(s.buffer) ELSE Max({0, Len(s.buffer) - BufferSize})

\* A step of either phase, which a failure ends.
Processed(s, h) ==
    CASE s.phase = "PRESYNC" -> ValidateAndProcessSingleHeader(s, h)
      [] s.phase = "REDOWNLOAD" -> ValidateAndStoreRedownloadedHeader(s, h)
      [] OTHER -> s

\* Whether to ask for more after a message that left r of s: a first download
\* that ends too early, or a second one that is complete or ends early, is over.
AskMore(s, r, full) ==
    IF s.phase = "PRESYNC" THEN full \/ StartRedownload(r).phase = "REDOWNLOAD"
    ELSE full /\ ~ r.all
Popped(r, n) == [r EXCEPT !.buffer = SubSeq(@, n + 1, Len(@))]

\* The outcome of ProcessNextHeaders: whether it succeeds, the headers that are
\* ready for validation, whether to ask for more, and the state.
NothingReady == [prev |-> <<>>, headers |-> <<>>]
Outcome(s, r, full) ==
    IF r = NoSync
    THEN [ok |-> FALSE, more |-> FALSE, ready |-> NothingReady, state |-> NoSync]
    ELSE [ok |-> TRUE, more |-> AskMore(s, r, full),
          ready |-> IF s.phase = "PRESYNC" \/ Ready(r) = 0 THEN NothingReady
                    ELSE [prev |-> Prefix(r.last, Len(r.last) - Len(r.buffer)),
                          headers |-> SubSeq(r.buffer, 1, Ready(r))],
          state |-> IF ~ AskMore(s, r, full) THEN NoSync
                    ELSE IF s.phase = "PRESYNC" THEN StartRedownload(r)
                    ELSE Popped(r, Ready(r))]

\* ProcessNextHeaders for the headers hs on top of prev.
ProcessNextHeaders(s, prev, hs) ==
    Outcome(s, IF prev # s.last THEN NoSync ELSE FoldLeft(Processed, s, hs),
            Len(hs) = MaxHeaders)

-----------------------------------------------------------------------------
(* Requests.  A locator holds a block and the ancestors of another; its    *)
(* gaps begin after ten blocks, more than these chains have.               *)

Locator(tip, start) == [tip |-> tip, start |-> start]
GetLocator(c) == Locator(c, c)
NextHeadersRequestLocator(s) == Locator(s.last, s.start)

BestHeader == CHOOSE c \in index : \A d \in index : Last(d).chainwork <= Last(c).chainwork

\* MaybeSendGetHeaders sends nothing while an answer is awaited.  None is when
\* headers have just been received.
SendGetHeaders(l) == up' = Append(up, l) /\ asked' = TRUE
AskNothing == up' = up /\ asked' = FALSE

\* The peer answers a getheaders, perhaps with no headers.  It serves below
\* MinWork too: its own minimum is lower.
Serve ==
    /\ up # <<>> /\ up' = Tail(up)
    /\ LET l == Head(up)
           fork == Max({k \in 1..Len(theirs) : \/ Prefix(theirs, k) = l.tip
                                               \/ IsPrefix(Prefix(theirs, k), l.start)})
       IN  down' = Append(down, [prev |-> Prefix(theirs, fork),
                                 headers |-> SubSeq(theirs, fork + 1,
                                                    Min({fork + MaxHeaders, Len(theirs)}))])
    /\ UNCHANGED <<rules, theirs, index, sync, asked, changes, crossed>>

-----------------------------------------------------------------------------
(* ProcessHeadersMessage.  The answer is no longer awaited when it begins. *)

\* What the sync in progress, if any, makes of message m.
Continuation(m) ==
    IF sync = NoSync \/ m.headers = <<>> THEN [ok |-> FALSE, more |-> FALSE, state |-> NoSync]
    ELSE ProcessNextHeaders(sync, m.prev, m.headers)

\* The headers that are left to process.
Rest(m, r) == IF r.ok THEN r.ready ELSE m

\* CalculateHeadersWork, or -1.
AddWork(total, added) ==
    [total |-> IF total = -1 \/ ~ added.ok THEN -1 ELSE total + added.work,
     state |-> added.state]
CalculateHeadersWork(m) ==
    FoldLeft(LAMBDA acc, h : AddWork(acc.total, AddHeader(rules, acc.state, m.prev, h)),
             [total |-> 0, state |-> NewHeadersWorkState(m.prev)], m.headers).total

IsLowWork(m, work) == work = -1 \/ Last(m.prev).chainwork + work < MinWork

IsKnown(m) == IsPrefix(m.prev \o m.headers, BestHeader)

\* No headers: the peer has nothing to give.
ReceiveNone(m) ==
    /\ m.headers = <<>>
    /\ sync' = NoSync /\ AskNothing
    /\ UNCHANGED index

\* The sync took the headers and has none ready.
ReceiveForSync(r) ==
    /\ r.ok /\ r.ready.headers = <<>>
    /\ sync' = r.state
    /\ IF r.more THEN SendGetHeaders(NextHeadersRequestLocator(r.state)) ELSE AskNothing
    /\ UNCHANGED index

\* Headers whose parent is not known: a few may be an announcement.
ReceiveUnconnected(m, r) ==
    /\ Rest(m, r).headers # <<>> /\ Rest(m, r).prev \notin index
    /\ sync' = r.state
    /\ IF r.more THEN SendGetHeaders(NextHeadersRequestLocator(r.state))
       ELSE IF Len(m.headers) <= MaxAnnounce THEN SendGetHeaders(GetLocator(BestHeader))
       ELSE AskNothing
    /\ UNCHANGED index

\* TryLowWorkHeadersSync: a full message of too little work starts a sync.
ReceiveLowWork(m, r, work) ==
    /\ m.headers # <<>> /\ ~ r.ok /\ m.prev \in index
    /\ ~ IsKnown(m) /\ IsLowWork(m, work)
    /\ IF work # -1 /\ Len(m.headers) = MaxHeaders
       THEN \E offset \in 0..(CommitmentPeriod - 1) :
            \E n \in {ProcessNextHeaders(NewHeadersSyncState(m.prev, offset), m.prev, m.headers)} :
              /\ sync' = n.state
              /\ IF n.more THEN SendGetHeaders(NextHeadersRequestLocator(n.state))
                 ELSE AskNothing
       ELSE sync' = NoSync /\ AskNothing
    /\ UNCHANGED index

\* ProcessNewBlockHeaders takes headers up to the first that is not valid.
Valid(m) == {i \in DOMAIN m.headers :
                \A j \in 1..i : IsRequired(rules, m.prev \o SubSeq(m.headers, 1, j - 1),
                                           m.headers[j])}

\* What the node now knows, given how many of the headers n are valid.
Accept(m, r, n, valid) ==
    /\ index' = index \cup {n.prev \o SubSeq(n.headers, 1, i) : i \in valid}
    /\ sync' = r.state
    /\ IF r.more THEN SendGetHeaders(NextHeadersRequestLocator(r.state))
       ELSE IF Len(m.headers) = MaxHeaders /\ valid = DOMAIN n.headers
            THEN SendGetHeaders(GetLocator(n.prev \o n.headers))
            ELSE AskNothing
ReceiveEnoughWork(m, r, n, work) ==
    /\ n.headers # <<>> /\ n.prev \in index
    /\ r.ok \/ IsKnown(n) \/ ~ IsLowWork(n, work)
    /\ Accept(m, r, n, Valid(n))

Take ==
    /\ down # <<>> /\ down' = Tail(down)
    /\ UNCHANGED <<rules, theirs, changes, crossed>>

ReceiveHeaders ==
    /\ Take
    /\ \E m \in {Head(down)} :
       \E r \in {Continuation(m)} :
       \E work \in {IF r.ok THEN 0 ELSE CalculateHeadersWork(m)} :
         \/ ReceiveNone(m) \/ ReceiveForSync(r) \/ ReceiveUnconnected(m, r)
         \/ ReceiveLowWork(m, r, work) \/ ReceiveEnoughWork(m, r, Rest(m, r), work)

-----------------------------------------------------------------------------
(* Announcements, lateness, and what happens to the peer's chain.          *)

\* An inv for a block that is not known: headers are asked for from the best
\* header, unless an answer is awaited.
AskForAnnounced ==
    /\ ~ asked /\ theirs \notin index
    /\ SendGetHeaders(GetLocator(BestHeader))
    /\ UNCHANGED <<rules, theirs, index, sync, down, changes>>
Inv ==
    /\ up = <<>> /\ down = <<>>
    /\ AskForAnnounced /\ UNCHANGED crossed
\* It comes while other messages are under way, though no answer is awaited.
InvCrossing ==
    /\ up \o down # <<>> /\ crossed < MaxCrossed
    /\ AskForAnnounced /\ crossed' = crossed + 1

\* HEADERS_RESPONSE_TIME passes before the answer comes, which matters only to
\* InvCrossing.
ResponseTimePasses ==
    /\ asked /\ asked' = FALSE
    /\ crossed < MaxCrossed
    /\ UNCHANGED <<rules, theirs, index, sync, up, down, changes, crossed>>

Grown(c, b, n) == FoldLeft(LAMBDA d, i : Mined(d, b), c, [i \in 1..n |-> i])

\* The peer's chain grows, or blocks after the k-th are replaced by more work.
Extend ==
    /\ changes < MaxChanges /\ changes' = changes + 1
    /\ \E b \in NewBlocks : Minable(theirs, b) /\ theirs' = Mined(theirs, b)
    /\ UNCHANGED <<rules, index, sync, asked, up, down, crossed>>
Reorganise ==
    /\ changes < MaxChanges /\ changes' = changes + 1
    /\ \E k \in Len(Base)..(Len(theirs) - 1), b \in NewBlocks :
         /\ theirs' = Grown(Prefix(theirs, k), b, Len(theirs) - k + 1)
         /\ Last(theirs').chainwork > Last(theirs).chainwork
         /\ \A i \in (k + 1)..Len(theirs') : IsAlgoActive(theirs'[i].height, b.algo)
    /\ UNCHANGED <<rules, index, sync, asked, up, down, crossed>>

\* The peer has c, the node has Base and has sent its first getheaders, from the
\* parent of its best header.
Start(c) ==
    /\ theirs = c
    /\ index = {Prefix(Base, k) : k \in DOMAIN Base}
    /\ sync = NoSync
    /\ up = <<GetLocator(Front(Base))>> /\ asked = TRUE
    /\ down = <<>>

\* Any chain of Ahead more blocks of OldBlocks.
Init ==
    /\ rules \in Rules
    /\ \E f \in [1..Ahead -> OldBlocks] :
         /\ \A i \in 1..Ahead : IsAlgoActive(Last(Base).height + i, f[i].algo)
         /\ Start(FoldLeft(Mined, Base, f))
    /\ changes = 0 /\ crossed = 0

Next == \/ Serve \/ ReceiveHeaders \/ Inv
        \/ InvCrossing \/ ResponseTimePasses \/ Extend \/ Reorganise

\* Messages arrive; blocks are found, hence announced, again and again.
Fairness == WF_vars(Serve) /\ WF_down(Take) /\ WF_vars(Inv)

Spec == Init /\ [][Next]_vars /\ Fairness

-----------------------------------------------------------------------------
(* Properties.                                                             *)

\* The window that AddHeader keeps is as good as the whole chain: whatever header
\* comes next is refused, or counted for the same work, exactly as validation
\* would with every earlier block at hand, also where the proof-of-work
\* algorithms change and where one has not been used for long.
WorkIsExact ==
    sync # NoSync =>
        LET c == sync.last
        IN  \A b \in NewBlocks, wrong \in {0, 1} :
              LET h == [Last(Mined(c, b)) EXCEPT !.bits = @ - wrong]
                  added == AddHeader(rules, sync.work, sync.start, h)
              IN  /\ added.ok = IsRequired(rules, c, h)
                  /\ added.ok => added.work = WorkOf(rules, c, h)

\* An algorithm that has been absent longer is never given a harder target by
\* GetNextWorkRequiredV4, whatever its rounding.
AbsenceEases ==
    \A a \in Algos, longer \in 1..4 :
        LET previous == History(rules, theirs)[a]
        IN  previous # NoBlock =>
              GetNextWorkRequiredV4(theirs, a, previous)
                <= GetNextWorkRequiredV4(theirs, a, [previous EXCEPT !.height = @ - longer])

\* Headers reach validation only with the minimum work on top of them, or as
\* part of a redownload that agrees, BufferSize headers further on, with every
\* commitment taken from a chain that had the minimum work.
Evidence(c) ==
    /\ sync.phase = "REDOWNLOAD"
    /\ Last(sync.seen).chainwork >= MinWork
    /\ LET d == Head(down).prev \o Head(down).headers
       IN  /\ IsPrefix(c, d) /\ Len(d) - Len(c) >= BufferSize
           /\ \A i \in (Len(sync.start) + 1)..Len(d) :
                AtCommitment(sync, d[i].height) =>
                    i <= Len(sync.seen) /\ d[i].bit = sync.seen[i].bit
ReleasedOnEvidence ==
    [][\A c \in index' \ index :
          \/ \E d \in index' : IsPrefix(c, d) /\ Last(d).chainwork >= MinWork
          \/ Evidence(c)]_vars

\* A peer whose chain has the minimum work is followed in the end, however its
\* answers were delayed and its chain changed during the two downloads.  After a
\* second crossing that takes that requests do not overlap for ever: two that are
\* always under way together can keep undoing each other's sync.
SyncCompletes ==
    <>[](crossed > 1 => Len(up) + Len(down) <= 1)
        => <>[](Last(theirs).chainwork >= MinWork => theirs \in index)
=============================================================================
