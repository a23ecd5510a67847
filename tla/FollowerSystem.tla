--------------------------- MODULE FollowerSystem ---------------------------
(***************************************************************************)
(* One follower replica (module Follower) driven by the leaders of a few   *)
(* ballots.  The leader side of Sequence Paxos is outside the sources      *)
(* modelled here (spec §1); it is modelled abstractly, from the spec, as   *)
(* the messages a correct leader sends:                                    *)
(*                                                                         *)
(*  - a ballot's leader adopts, when it starts, a log that contains every *)
(*    entry chosen so far (what its Prepare phase with a majority yields), *)
(*    then proposes entries, decides prefixes of its log and at most one   *)
(*    stop-sign after its last entry;                                      *)
(*  - it syncs the follower with an AcceptSync built from the follower's   *)
(*    Promise, starting a new session of sequence numbers, and sends the   *)
(*    follower every later AcceptDecide, Decide, AcceptStopSign and        *)
(*    DecideStopSign of that session with consecutive counters;           *)
(*  - it answers a PrepareReq with a new Prepare.                          *)
(*                                                                         *)
(* Each link is a FIFO queue that may lose any message at its head; the    *)
(* follower's storage may fail.  The ghost chosen is the prefix of the     *)
(* replicated log that a majority has accepted: the follower's decided     *)
(* entries must be exactly those.                                          *)
(***************************************************************************)
EXTENDS Follower, StorageRead, SequencesExt, FiniteSets

CONSTANTS
    Ballots,        \* the ballots leaders are elected with, <<n, pid>>
    Values,         \* the entries leaders propose
    StopSignValue,  \* the stop-sign a leader may propose
    MaxLogLen,      \* bound on a leader's log
    MaxProposals,   \* bound on the entries all leaders propose together
    MaxSessions,    \* bound on the sessions a leader opens with the follower
    MaxChan,        \* bound on messages in flight on one link
    MaxNetFaults,   \* bound on the messages the links lose, duplicate or reorder
    LinkFaults,     \* the faults links make: a subset of {"Lose", "Duplicate", "Reorder"}
    StopSignEnabled, \* whether leaders propose a stop-sign
    CompactionEnabled \* whether the host calls try_trim / try_snapshot

ASSUME BottomBallot \notin Ballots /\ FollowerPid \notin {BallotPid(b) : b \in Ballots}

VARIABLES
    lstate,      \* lstate[b]: "idle", "prepare" or "accept", towards the follower
    llog,        \* llog[b]: the log of b's leader
    lna,         \* lna[b]: the accepted round of the log b's leader adopted
    lk,          \* lk[b]: the length of the log b's leader adopted
    ldec,        \* ldec[b]: the decided index of b's leader
    lss,         \* lss[b]: b's leader has proposed the stop-sign
    lssdec,      \* lssdec[b]: b's leader has decided the stop-sign
    lseq,        \* lseq[b]: the last sequence number b's leader sent
    chan,        \* chan[b]: the link from b's leader to the follower
    back,        \* the link from the follower to the leaders
    chosen,      \* ghost: the chosen prefix of the replicated log
    chosenRound, \* ghost: the ballot that last extended chosen
    chosenSS,    \* ghost: the stop-sign is chosen after chosen
    netFaults    \* the number of link faults so far

envVars == <<lstate, llog, lna, lk, ldec, lss, lssdec, lseq, chan, back,
             chosen, chosenRound, chosenSS, netFaults>>
vars == <<followerVars, envVars>>

AllBallots == Ballots \cup {BottomBallot}

\* The log of a ballot's leader; the bottom ballot accepted nothing.
LogOf(b) == IF b = BottomBallot THEN <<>> ELSE llog[b]

Started == {b \in Ballots : lstate[b] # "idle"}

\* Only the leader of the highest ballot started acts: older leaders have
\* been superseded (the messages they sent may still be in flight).
IsCurrent(b) == lstate[b] # "idle" /\ \A c \in Started : BallotLeq(c, b)

\* The next sequence number of b's session, and sending a message of it
\* when the follower is in b's Accept phase.
NextSeq(b) == <<lseq[b][1], lseq[b][2] + 1>>

\* A message that finds the link full is netFaults; its sequence number is spent.
SendInSession(b, m) ==
    IF lstate[b] = "accept"
    THEN /\ chan' = [chan EXCEPT ![b] = IF Len(@) < MaxChan THEN Append(@, m) ELSE @]
         /\ lseq' = [lseq EXCEPT ![b] = NextSeq(b)]
    ELSE UNCHANGED <<chan, lseq>>

PrepareMsg(b, na, k, d) ==
    [type |-> "Prepare", n |-> b, n_accepted |-> na, accepted_idx |-> k, decided_idx |-> d]

-----------------------------------------------------------------------------
(************************** Leaders (spec-modelled) ***********************)

\* b's leader is elected: it adopts the first k entries of the log of
\* round r, which must contain everything chosen, and prepares the follower.
StartBallot(b) ==
    /\ lstate[b] = "idle"
    /\ \A c \in Started : BallotLess(c, b)
    /\ \E r \in {c \in AllBallots : BallotLeq(chosenRound, c) /\ BallotLess(c, b)
                                   /\ (c = BottomBallot \/ lstate[c] # "idle")} :
       \E k \in 0..Len(LogOf(r)), d \in 0..Len(chosen), adoptSS \in BOOLEAN :
         LET adopted == SubSeq(LogOf(r), 1, k)
         IN  /\ IsPrefix(chosen, adopted)
             \* the stop-sign round r accepted after its log, a must once chosen
             /\ adoptSS => r # BottomBallot /\ lss[r] /\ k = Len(LogOf(r))
             /\ chosenSS => adoptSS
             /\ lss' = [lss EXCEPT ![b] = adoptSS]
             /\ lstate' = [lstate EXCEPT ![b] = "prepare"]
             /\ llog' = [llog EXCEPT ![b] = adopted]
             /\ lna' = [lna EXCEPT ![b] = r]
             /\ lk' = [lk EXCEPT ![b] = k]
             /\ ldec' = [ldec EXCEPT ![b] = d]
             /\ chan' = [chan EXCEPT ![b] = Append(@, PrepareMsg(b, r, k, d))]
             /\ UNCHANGED <<lssdec, lseq, back, chosen, chosenRound, chosenSS>>

\* The index from which b's leader sends its log to a follower that
\* promised p: the follower's accepted prefix when it accepted the log b
\* adopted (or b's own), its decided prefix otherwise.
SyncIdx(b, p) ==
    IF p.n_accepted = b THEN p.accepted_idx
    ELSE IF p.n_accepted = lna[b] THEN Min({p.accepted_idx, lk[b]})
    ELSE p.decided_idx

\* The AcceptSyncs b's leader may answer the Promise p with: the suffix
\* from the sync index, or, with snapshots, a snapshot of its decided
\* prefix and the suffix past it.  The snapshot is the leader's
\* create_diff_snapshot(p.decided_idx, decided): Complete when the leader
\* has compacted past p.decided_idx (always possible, the leader's
\* compaction is not modelled), a Delta of the entries in between only
\* when it has not, which needs p.decided_idx > 0.
AcceptSyncs(b, p, seq) ==
    LET L == llog[b]
        ss == IF lss[b] THEN StopSignValue ELSE None
        Msg(snap, sfxFrom, syncIdx) ==
            [type |-> "AcceptSync", n |-> b, decided_snapshot |-> snap,
             suffix |-> SubSeq(L, sfxFrom + 1, Len(L)), sync_idx |-> syncIdx,
             decided_idx |-> ldec[b], stopsign |-> ss, seq_num |-> seq]
    IN  {Msg(None, SyncIdx(b, p), SyncIdx(b, p))}
        \cup IF UseSnapshots /\ p.decided_idx < ldec[b]
             THEN {Msg([kind |-> "Complete", snap |-> SubSeq(L, 1, ldec[b])],
                       ldec[b], ldec[b]),
                   Msg([kind |-> "Delta", snap |-> SubSeq(L, p.decided_idx + 1, ldec[b])],
                       ldec[b], ldec[b])}
                  \ (IF p.decided_idx = 0 THEN {Msg([kind |-> "Delta",
                          snap |-> SubSeq(L, 1, ldec[b])], ldec[b], ldec[b])} ELSE {})
             ELSE {}

\* b's leader receives the follower's Promise and syncs it in a new session;
\* when it has decided its stop-sign it tells the follower right after.
SyncsOn(b, p) ==
    /\ IsCurrent(b)
    /\ lstate[b] = "prepare"
    /\ p.type = "Promise" /\ p.n = b
    /\ lseq[b][1] < MaxSessions

LeaderSync(b, p) ==
    LET seq == <<lseq[b][1] + 1, 1>>
    IN
    /\ SyncsOn(b, p)
    /\ \E m \in AcceptSyncs(b, p, seq) :
         LET dss == [type |-> "DecideStopSign", n |-> b, seq_num |-> <<seq[1], 2>>]
         IN  /\ chan' = [chan EXCEPT ![b] = @ \o (IF lssdec[b] THEN <<m, dss>> ELSE <<m>>)]
             /\ lseq' = [lseq EXCEPT ![b] = IF lssdec[b] THEN <<seq[1], 2>> ELSE seq]
    /\ lstate' = [lstate EXCEPT ![b] = "accept"]
    /\ UNCHANGED <<llog, lna, lk, ldec, lss, lssdec, chosen, chosenRound, chosenSS>>

\* b's leader answers a PrepareReq with a Prepare for its current state.
RePreparesOn(b, p) ==
    /\ p.type = "PrepareReq"
    /\ IsCurrent(b)
    /\ lseq[b][1] < MaxSessions
    /\ Len(chan[b]) < MaxChan

LeaderRePrepare(b) ==
    /\ lstate' = [lstate EXCEPT ![b] = "prepare"]
    /\ chan' = [chan EXCEPT ![b] = Append(@, PrepareMsg(b, b, Len(llog[b]), ldec[b]))]
    /\ UNCHANGED <<llog, lna, lk, ldec, lss, lssdec, lseq, chosen, chosenRound, chosenSS>>

\* A message of the follower reaches the leader it is addressed to, which
\* ignores what its current state has no use for (Accepted counts toward
\* a majority the model leaves abstract).
LeaderReceive ==
    /\ back # <<>>
    /\ back' = Tail(back)
    /\ LET m == Head(back)
           handler == {b \in Ballots : BallotPid(b) = m.to
                                       /\ (SyncsOn(b, m) \/ RePreparesOn(b, m))}
       IN  IF handler = {}
           THEN UNCHANGED <<lstate, llog, lna, lk, ldec, lss, lssdec, lseq, chan,
                            chosen, chosenRound, chosenSS>>
           ELSE \E b \in handler :
                  IF m.type = "Promise" THEN LeaderSync(b, m)
                  ELSE LeaderRePrepare(b)
    /\ UNCHANGED <<followerVars, netFaults>>

\* The entries the leaders proposed themselves, beyond the logs they adopted.
Proposed == MapThenSumSet(LAMBDA c : Len(llog[c]) - lk[c], Ballots)

\* b's leader appends v to its log and replicates it to the follower.
LeaderPropose(b, v) ==
    /\ IsCurrent(b)
    /\ Proposed < MaxProposals
    /\ ~lss[b]
    /\ Len(llog[b]) < MaxLogLen
    /\ llog' = [llog EXCEPT ![b] = Append(@, v)]
    /\ SendInSession(b, [type |-> "AcceptDecide", n |-> b, seq_num |-> NextSeq(b),
                         decided_idx |-> ldec[b], entries |-> <<v>>])
    /\ UNCHANGED <<lstate, lna, lk, ldec, lss, lssdec, back, chosen, chosenRound, chosenSS>>

\* A majority has accepted b's log up to d: b's leader decides it.
LeaderDecide(b) ==
    /\ IsCurrent(b)
    /\ \E d \in ldec[b] + 1 .. Len(llog[b]) :
         /\ ldec' = [ldec EXCEPT ![b] = d]
         /\ IF d > Len(chosen)
            THEN chosen' = SubSeq(llog[b], 1, d) /\ chosenRound' = b
            ELSE UNCHANGED <<chosen, chosenRound>>
         /\ SendInSession(b, [type |-> "Decide", n |-> b, seq_num |-> NextSeq(b),
                              decided_idx |-> d])
    /\ UNCHANGED <<lstate, llog, lna, lk, lss, lssdec, back, chosenSS>>

\* b's leader proposes the stop-sign after its last entry.
LeaderProposeStopSign(b) ==
    /\ StopSignEnabled
    /\ IsCurrent(b)
    /\ ~lss[b]
    /\ lss' = [lss EXCEPT ![b] = TRUE]
    /\ SendInSession(b, [type |-> "AcceptStopSign", n |-> b, seq_num |-> NextSeq(b),
                         ss |-> StopSignValue])
    /\ UNCHANGED <<lstate, llog, lna, lk, ldec, lssdec, back, chosen, chosenRound, chosenSS>>

\* b's leader decides the stop-sign once its whole log is decided.
LeaderDecideStopSign(b) ==
    /\ IsCurrent(b)
    /\ lss[b] /\ ~lssdec[b]
    /\ ldec[b] = Len(llog[b])
    /\ lssdec' = [lssdec EXCEPT ![b] = TRUE]
    /\ chosenSS' = TRUE
    /\ chosenRound' = b
    /\ SendInSession(b, [type |-> "DecideStopSign", n |-> b, seq_num |-> NextSeq(b)])
    /\ UNCHANGED <<lstate, llog, lna, lk, ldec, lss, back, chosen>>

-----------------------------------------------------------------------------
(******************************* Network **********************************)

\* The message at the head of b's link is lost.
LoseMsg(b) ==
    /\ "Lose" \in LinkFaults
    /\ netFaults < MaxNetFaults
    /\ chan[b] # <<>>
    /\ chan' = [chan EXCEPT ![b] = Tail(@)]
    /\ netFaults' = netFaults + 1
    /\ UNCHANGED <<followerVars, lstate, llog, lna, lk, ldec, lss, lssdec, lseq,
                   back, chosen, chosenRound, chosenSS>>

\* The message at the head of the follower's link is lost.
LoseReply ==
    /\ "Lose" \in LinkFaults
    /\ netFaults < MaxNetFaults
    /\ back # <<>>
    /\ back' = Tail(back)
    /\ netFaults' = netFaults + 1
    /\ UNCHANGED <<followerVars, lstate, llog, lna, lk, ldec, lss, lssdec, lseq,
                   chan, chosen, chosenRound, chosenSS>>

\* The message at the head of b's link is delivered twice (a transport
\* retry): the follower's sequence numbers must classify the copy Outdated.
DuplicateMsg(b) ==
    /\ "Duplicate" \in LinkFaults
    /\ netFaults < MaxNetFaults
    /\ chan[b] # <<>>
    /\ chan' = [chan EXCEPT ![b] = <<Head(@)>> \o @]
    /\ netFaults' = netFaults + 1
    /\ UNCHANGED <<followerVars, lstate, llog, lna, lk, ldec, lss, lssdec, lseq,
                   back, chosen, chosenRound, chosenSS>>

\* The two messages at the head of b's link overtake each other: the later
\* one shows a gap (DroppedPreceding), the earlier one then comes late.
ReorderMsg(b) ==
    /\ "Reorder" \in LinkFaults
    /\ netFaults < MaxNetFaults
    /\ Len(chan[b]) >= 2
    /\ chan' = [chan EXCEPT ![b] = <<@[2], @[1]>> \o SubSeq(@, 3, Len(@))]
    /\ netFaults' = netFaults + 1
    /\ UNCHANGED <<followerVars, lstate, llog, lna, lk, ldec, lss, lssdec, lseq,
                   back, chosen, chosenRound, chosenSS>>

\* The follower handles the message at the head of b's link.
Deliver(b) ==
    /\ chan[b] # <<>>
    /\ chan' = [chan EXCEPT ![b] = Tail(@)]
    /\ ReceiveMsg(Head(chan[b]), BallotPid(b))
    /\ UNCHANGED <<lstate, llog, lna, lk, ldec, lss, lssdec, lseq, back,
                   chosen, chosenRound, chosenSS, netFaults>>

\* The host sends the follower's outgoing messages.  Leaders act only on
\* Promise and PrepareReq; the Accepted and AcceptedStopSign replies count
\* toward majorities the model leaves abstract and are not kept in flight.
\* The host sends each message as soon as it takes it: the link back is not
\* bounded by MaxChan (what it carries is bounded by the Prepares sent).
ActedOn(m) == m.type \in {"Promise", "PrepareReq"}

SendOutgoing ==
    LET sent == SelectSeq(outgoing, ActedOn)
    IN
    /\ outgoing # <<>>
    /\ back' = back \o sent
    /\ TakeOutgoing
    /\ UNCHANGED <<lstate, llog, lna, lk, ldec, lss, lssdec, lseq, chan,
                   chosen, chosenRound, chosenSS, netFaults>>

\* The host asks for a Prepare once per restart: not while an earlier
\* request is still on its way to a leader.
NoPrepareReqInFlight == \A i \in DOMAIN back : back[i].type # "PrepareReq"

\* Steps of the follower that take no message.
FollowerLocal ==
    /\ \/ CrashAnyTime
       \/ ClientPropose
       \/ CompactionEnabled /\ TryTrimAction
       \/ CompactionEnabled /\ TrySnapshotAction
    /\ UNCHANGED envVars

\* The host prompts a replica in Recover to re-sync (spec §5: "the host is
\* expected to prompt re-sync via reconnected"): it asks the current
\* leader, which Ballot Leader Election names, for a Prepare.
PromptResync ==
    /\ NoPrepareReqInFlight
    /\ \E b \in Ballots : IsCurrent(b) /\ RequestPrepare(BallotPid(b))
    /\ UNCHANGED envVars

-----------------------------------------------------------------------------
(******************************** Spec ************************************)

EmptyStorage ==
    [promise |-> BottomBallot, accepted_round |-> BottomBallot, decided_idx |-> 0,
     log |-> <<>>, compacted_idx |-> 0, snapshot |-> None, stopsign |-> None]

\* A freshly bootstrapped replica, (Follower, Recover), and idle leaders.
Init ==
    /\ storage = EmptyStorage
    /\ state = "Recover"
    /\ leader = BottomBallot
    /\ current_seq_num = DefaultSeqNum
    /\ latest_accepted_meta = None
    /\ outgoing = <<>>
    /\ pending_proposals = 0
    /\ faults = 0
    /\ bugs = {}
    /\ lstate = [b \in Ballots |-> "idle"]
    /\ llog = [b \in Ballots |-> <<>>]
    /\ lna = [b \in Ballots |-> BottomBallot]
    /\ lk = [b \in Ballots |-> 0]
    /\ ldec = [b \in Ballots |-> 0]
    /\ lss = [b \in Ballots |-> FALSE]
    /\ lssdec = [b \in Ballots |-> FALSE]
    /\ lseq = [b \in Ballots |-> DefaultSeqNum]
    /\ chan = [b \in Ballots |-> <<>>]
    /\ back = <<>>
    /\ chosen = <<>>
    /\ chosenRound = BottomBallot
    /\ chosenSS = FALSE
    /\ netFaults = 0

Next ==
    \/ \E b \in Ballots :
         \/ /\ \/ StartBallot(b)
               \/ \E v \in Values : LeaderPropose(b, v)
               \/ LeaderDecide(b)
               \/ LeaderProposeStopSign(b)
               \/ LeaderDecideStopSign(b)
            /\ UNCHANGED <<followerVars, netFaults>>
         \/ LoseMsg(b)
         \/ DuplicateMsg(b)
         \/ ReorderMsg(b)
         \/ Deliver(b)
    \/ LeaderReceive
    \/ LoseReply
    \/ SendOutgoing
    \/ FollowerLocal
    \/ PromptResync

Spec == Init /\ [][Next]_vars

\* The follower runs every handler to completion and the host keeps
\* calling it (spec §5): a message at the head of a link is eventually
\* handled, the outgoing queue is eventually taken, a replica in Recover
\* is eventually prompted to re-sync, and a leader eventually reads the
\* replies addressed to it.  Leaders are not required to start, propose or
\* decide.
FairSpec ==
    /\ Spec
    /\ \A b \in Ballots : WF_vars(Deliver(b))
    /\ WF_vars(LeaderReceive)
    /\ WF_vars(SendOutgoing)
    /\ WF_vars(PromptResync)

-----------------------------------------------------------------------------
(****************************** Properties ********************************)

Phases == {"Recover", "Prepare", "Accept"}

TypeOK ==
    /\ state \in Phases
    /\ leader \in AllBallots
    /\ storage.promise \in AllBallots /\ storage.accepted_round \in AllBallots
    /\ storage.decided_idx \in Nat /\ storage.compacted_idx \in Nat
    /\ storage.log \in Seq(Values)
    /\ latest_accepted_meta = None \/ latest_accepted_meta \in Ballots \X Nat
    /\ pending_proposals \in 0..MaxPending
    /\ faults \in 0..MaxFaults
    /\ \A b \in Ballots : lstate[b] \in {"idle", "prepare", "accept"}

\* The entry at virtual index i (1-based) of the follower's log, when the
\* log still holds it.
Entry(st, i) == st.log[i - st.compacted_idx]

HeldDecided(st) ==
    {i \in st.compacted_idx + 1 .. st.decided_idx : i <= LogLen(st)}

\* Spec §6: append_on_prefix is called only at or above compacted_idx, and
\* append_on_decided_prefix (which a leader elected from this replica uses
\* to adopt its decided prefix) cuts the log back to decided_idx and
\* appends, giving virtual length decided_idx + |entries|.  That holds only
\* while compacted_idx <= decided_idx (spec §8).  A decided index written
\* from a leader's AcceptSync (handle_acceptsync writes it unconditionally)
\* may lie below what the follower already compacted; then decided_idx -
\* compacted_idx underflows: a panic in a debug build, and in a release
\* build a wrapped offset that keeps the whole log and appends after it.
DecidedPrefixAppendable ==
    \A v \in Values :
        \E r \in AppendOnDecidedPrefix(storage, <<v>>, FALSE) :
            LogLen(r.st) = storage.decided_idx + 1

\* The upper half of the index invariant of spec §8: decided_idx <=
\* log_len, where a decided stop-sign counts as the entry at log_len + 1
\* (handle_decide_stopsign sets decided_idx to log_len + 1).  Broken by a
\* Decide or AcceptDecide whose decided index is past the follower's log,
\* e.g. after a lost message the sequence numbers failed to reveal.
DecidedWithinLog ==
    LET st == storage
        ssDecided == st.stopsign # None /\ st.stopsign.decided
    IN  st.decided_idx <= LogLen(st) + (IF ssDecided THEN 1 ELSE 0)

\* Every entry the follower holds as decided, in its snapshot or in its
\* log up to decided_idx, is the chosen entry at that index, also across
\* storage faults, crashes and the snapshot installed by an AcceptSync.
DecidedIsChosen ==
    /\ \A i \in HeldDecided(storage) :
         i <= Len(chosen) /\ Entry(storage, i) = chosen[i]
    /\ storage.snapshot # None =>
         /\ Len(storage.snapshot) = storage.compacted_idx
         /\ IsPrefix(storage.snapshot, chosen)

\* The follower's log is the log of the round it last accepted: every entry
\* it holds past compacted_idx is that round's leader's entry at the same
\* virtual index, and its virtual length, which it reports as accepted_idx
\* in Promise and Accepted, is not past that log.  Broken when an
\* AcceptSync places the leader's suffix at another index than sync_idx,
\* when a write of the accepted round outlives the log writes it guards,
\* or when compaction moves compacted_idx past the entries held.
AcceptedRoundLog ==
    LET L == LogOf(storage.accepted_round)
    IN  /\ LogLen(storage) <= Len(L)
        /\ \A i \in storage.compacted_idx + 1 .. LogLen(storage) : Entry(storage, i) = L[i]

\* The back-index latest_accepted_meta, kept across handlers to coalesce
\* Accepted replies, designates a queued Accepted of the same round and
\* reports the follower's current log length: so accept_entries never
\* advances a reply of another round, or one the host has taken.
CachedAcceptedValid ==
    latest_accepted_meta # None =>
        LET pos == latest_accepted_meta[2]
        IN  /\ pos \in DOMAIN outgoing
            /\ outgoing[pos].type = "Accepted"
            /\ outgoing[pos].n = latest_accepted_meta[1]
            /\ outgoing[pos].accepted_idx = LogLen(storage)

\* The follower's handlers never hit one of their logic panics: the cached
\* Accepted index pointing past the outgoing queue or at another message,
\* a DecideStopSign without a stored stop-sign, or a u64 underflow.
NoLogicPanic == bugs = {}

\* The non-empty ranges [from, to) a read is checked on: up to two past the
\* virtual log, so that the ranges past its end are checked too.
ReadRanges ==
    {r \in (0..LogLen(storage) + 1) \X (0..LogLen(storage) + 2) : r[1] < r[2]}

\* read(from..to) returns the range of the virtual log (spec §4, §8 (6)):
\* the compacted placeholder, the held entries in log order with every
\* Decided one before every Undecided one, and the decided stop-sign;
\* Ok(None) for a range past the log.  read_decided_suffix(from) returns the log from
\* from to decided_idx, all of it Decided, and Ok(None) from decided_idx on.
\* Broken by an off-by-one in the translation of virtual to physical
\* indices across compaction, or in the entry type of a boundary index.
ReadSplicesVirtualLog ==
    LET st == storage
        Ordered(es) == \A i, j \in DOMAIN es :
                          i < j /\ es[i].kind = "Undecided" => es[j].kind # "Decided"
    IN
    /\ \A r \in ReadRanges :
         LET got == ReadRange(st, r[1], r[2])
         IN  IF InBounds(st, r[1], r[2])
             THEN /\ got.tag = "Some"
                  /\ Unmarked(got.es) = Unmarked(VirtualRead(st, r[1], r[2]))
                  /\ Ordered(got.es)
             ELSE got = NoEntries
    /\ \A f \in 0..LogLen(st) + 1 :
         LET got == ReadDecidedSuffix(st, f)
         IN  IF f < st.decided_idx
             THEN /\ got.tag = "Some"
                  /\ Unmarked(got.es) = Unmarked(VirtualRead(st, f, st.decided_idx))
                  /\ \A k \in DOMAIN got.es : got.es[k].kind # "Undecided"
             ELSE got = NoEntries

\* read(from..to) marks an entry Decided exactly when its virtual index is
\* below decided_idx, the number of decided entries (spec §4 and §2: a
\* Decided entry is one the replicas agreed on).
ReadIsVirtualLog ==
    \A r \in ReadRanges :
        InBounds(storage, r[1], r[2]) =>
            ReadRange(storage, r[1], r[2]) = Some(VirtualRead(storage, r[1], r[2]))

\* The Promises on their way to a leader.
PromisesInFlight ==
    {m \in Range(outgoing) \cup Range(back) : m.type = "Promise"}

\* The suffix of every Promise starts at the index handle_prepare chose for
\* it (the leader's decided index, its accepted index, or the follower's
\* decided index after a snapshot) and runs to the follower's accepted_idx:
\* the leader appends it at that index.  Broken when get_suffix saturates
\* at compacted_idx because the requested index lies in the compacted
\* prefix and no snapshot covers it.
PromiseSuffixAligned ==
    \A m \in PromisesInFlight :
        m.sfx_from <= m.accepted_idx => Len(m.suffix) = m.accepted_idx - m.sfx_from

\* Spec §8 (5): at most one Accepted per round is queued in outgoing, the
\* one accept_entries advances in place.
OneAcceptedPerRound ==
    \A i, j \in DOMAIN outgoing :
        /\ i < j
        /\ outgoing[i].type = "Accepted" /\ outgoing[j].type = "Accepted"
        => outgoing[i].n # outgoing[j].n

\* b's leader and the follower are in the same session: the follower is in
\* its Accept phase, promised b, and counts the sequence numbers of the
\* session b's leader sends in.
InSessionOf(b) ==
    /\ lstate[b] = "accept"
    /\ state = "Accept"
    /\ storage.promise = b
    /\ current_seq_num[1] = lseq[b][1]

\* Liveness: after a restart, a sequence gap (reconnected) or a new
\* leader, the follower eventually is, and stays, in a session of the
\* current leader, unless that leader has opened all the sessions it may.
\* Needs the Recover phase that crash and reconnected enter, the
\* PrepareReq they queue, handle_prepare's acceptance of a Prepare of the
\* promised ballot in Recover, and handle_acceptsync's move to Accept.
ResyncsWithCurrentLeader ==
    <>[](\A b \in Started : IsCurrent(b) => InSessionOf(b) \/ lseq[b][1] = MaxSessions)

\* The follower's virtual log: its compacted prefix, which the snapshot
\* summarises or, once trimmed, only the chosen entries it stood for
\* recall, then the entries it holds.
VirtualLog ==
    LET c == storage.compacted_idx
        prefix == IF storage.snapshot # None THEN storage.snapshot
                  ELSE SubSeq(chosen, 1, Min({c, Len(chosen)}))
    IN  prefix \o storage.log

Acceptor == INSTANCE AcceptorLog
    WITH promise <- storage.promise, accepted <- storage.accepted_round,
         alog <- VirtualLog

\* Refinement: the follower's storage cells implement the acceptor of
\* AcceptorLog.  Every handler moves promise and accepted_round only up,
\* writes the log only in the round it promised, and within one accepted
\* round only extends the virtual log, through every append_on_prefix,
\* snapshot install, trim, storage fault and rollback the handlers make.
AcceptorRefinement == Acceptor!Spec
=============================================================================
