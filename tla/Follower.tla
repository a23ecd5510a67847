------------------------------ MODULE Follower ------------------------------
(***************************************************************************)
(* The follower side of Sequence Paxos                                     *)
(* (src/omnipaxos/src/sequence_paxos/follower.rs): one replica's handlers *)
(* for the messages of a leader, each one step, since the replica is       *)
(* single-threaded and runs a handler to completion (spec §5).             *)
(*                                                                         *)
(* A storage error inside a handler makes it undo what the rollback list   *)
(* of that point names and panic: the replica crashes and restarts with   *)
(* its storage cells as they were left and its volatile state lost.        *)
(* Storage faults are injected only while faults < MaxFaults.              *)
(*                                                                         *)
(* The handlers take the message as a parameter and leave the network to   *)
(* the module that composes the follower with its leaders.                 *)
(***************************************************************************)
EXTENDS InternalStorage, PaxosBasics

CONSTANTS
    FollowerPid,    \* self.pid
    UseSnapshots,   \* T::Snapshot::use_snapshots()
    StorageFaults,  \* whether storage calls may fail at all
    MaxFaults,      \* bound on injected storage faults
    MaxPending      \* bound on buffered client proposals

ASSUME UseSnapshots \in BOOLEAN /\ StorageFaults \in BOOLEAN
ASSUME MaxFaults \in Nat /\ MaxPending \in Nat

VARIABLES
    storage,              \* the Storage Port's cells (see InternalStorage)
    state,                \* self.state.1, the phase; the role is Follower
    leader,               \* self.leader
    current_seq_num,      \* self.current_seq_num
    latest_accepted_meta, \* None, or <<round, position in outgoing>>
    outgoing,             \* self.outgoing
    pending_proposals,    \* the number of proposals buffered
    faults,               \* storage faults injected so far
    bugs                  \* the logic panics (not storage errors) that happened

followerVars == <<storage, state, leader, current_seq_num, latest_accepted_meta,
                  outgoing, pending_proposals, faults, bugs>>

CanFail == StorageFaults /\ faults < MaxFaults

-----------------------------------------------------------------------------
(********************* Outgoing messages (spec §6.2) **********************)

AcceptedMsg(to, n, idx) == [type |-> "Accepted", to |-> to, n |-> n, accepted_idx |-> idx]

AcceptedStopSignMsg(to, n) == [type |-> "AcceptedStopSign", to |-> to, n |-> n]

PrepareReqMsg(to) == [type |-> "PrepareReq", to |-> to]

\* SequencePaxos::get_stopsign(): the stored stop-sign, decided or not.
StoredStopSign(st) == IF st.stopsign = None THEN None ELSE st.stopsign.ss

-----------------------------------------------------------------------------
(*********************** Crashes and restarts *****************************)

\* A panic: the cells keep what was written, the volatile state is the one
\* the replica bootstraps with (spec §4.3: (Follower, Recover)).
Crash(st, why) ==
    /\ storage' = st
    /\ state' = "Recover"
    /\ leader' = BottomBallot
    /\ current_seq_num' = DefaultSeqNum
    /\ latest_accepted_meta' = None
    /\ outgoing' = <<>>
    /\ pending_proposals' = 0
    /\ faults' = IF why = "StorageError" THEN faults + 1 ELSE faults
    /\ bugs' = IF why = "StorageError" THEN bugs ELSE bugs \cup {why}

\* Mutation of FailWith: a storage error panics without rolling back.
FailWithoutRollback(st, vs) == Crash(st, "StorageError")

\* A storage error: the rollback values vs are written back in order (each
\* may fail in turn), then the replica panics.
FailWith(st, vs) == \E r \in Rollback(st, vs) : Crash(r, "StorageError")

\* A storage error with nothing to roll back, e.g. a failing read, or the
\* host process dying between two handlers.
CrashAnyTime ==
    /\ CanFail
    /\ Crash(storage, "StorageError")

-----------------------------------------------------------------------------
(*********************** Helpers of the handlers **************************)

\* forward_pending_proposals: take the buffered proposals and forward them.
ForwardPendingProposals == pending_proposals' = 0

\* reconnected(pid), spec §4.3: the replica asks pid for a fresh Prepare
\* and stops accepting the current sequence, going back to Recover.
Reconnected(pid) ==
    /\ state' = IF pid = BallotPid(leader) THEN "Recover" ELSE state
    /\ outgoing' = Append(outgoing, PrepareReqMsg(pid))

\* The position the Accepted pushed next takes in outgoing: cached_idx =
\* self.outgoing.len() before the push, 1-based here.
CachedIdxOfLast == Len(outgoing)   \* mutation: the message before the push

CachedIdx == Len(outgoing) + 1

\* mutation: every accept_entries queues a new Accepted (no coalescing)
AcceptEntriesOutgoingAppend(n, st) ==
    [out |-> Append(outgoing, AcceptedMsg(BallotPid(leader), n, LogLen(st))),
     meta |-> <<n, CachedIdx>>, bug |-> None]

\* accept_entries(n, entries) after its append_entries succeeded with the
\* cells st: the queued Accepted of round n is advanced in place, or a new
\* one is queued.  Returns the new outgoing, latest_accepted_meta and the
\* logic panic it hits, if any.
AcceptEntriesOutgoing(n, st) ==
    LET idx == LogLen(st)
    IN  IF latest_accepted_meta # None /\ latest_accepted_meta[1] = n
        THEN LET pos == latest_accepted_meta[2]
             IN  IF pos > Len(outgoing)
                 THEN [out |-> outgoing, meta |-> latest_accepted_meta,
                       bug |-> "CachedIdxOutOfRange"]
                 ELSE IF outgoing[pos].type # "Accepted"
                 THEN [out |-> outgoing, meta |-> latest_accepted_meta,
                       bug |-> "CachedIdxNotAccepted"]
                 ELSE [out |-> [outgoing EXCEPT ![pos].accepted_idx = idx],
                       meta |-> latest_accepted_meta, bug |-> None]
        ELSE [out |-> Append(outgoing, AcceptedMsg(BallotPid(leader), n, idx)),
              meta |-> <<n, CachedIdx>>, bug |-> None]

\* The cells after accept_stopsign(ss): stored, not decided.  Returns the
\* outcomes of the write (spec_modelled: the function is outside follower.rs).
AcceptStopSign(st, ss) ==
    {Ok([st EXCEPT !.stopsign = [ss |-> ss, decided |-> FALSE]])}
      \cup IfFaults(CanFail, {Err(st)})

-----------------------------------------------------------------------------
(******************************* Handlers *********************************)

\* mutation: the same round's suffix always sent from the leader's
\* accepted_idx, whether or not that part of the log is compacted
PromisePayloadsNoDelta(st, prep) ==
    LET na == st.accepted_round
        Plain(from) ==
            {[decided_snapshot |-> None, suffix |-> GetSuffix(st, from), sfx_from |-> from]}
    IN  IF BallotLess(prep.n_accepted, na) THEN Plain(prep.decided_idx)
        ELSE IF na = prep.n_accepted /\ LogLen(st) > prep.accepted_idx
        THEN Plain(prep.accepted_idx)
        ELSE {[decided_snapshot |-> None, suffix |-> <<>>, sfx_from |-> LogLen(st)]}

\* The Promise of handle_prepare: the snapshot and suffix the leader needs,
\* as a set of possible payloads (empty when create_diff_snapshot panics).
\* sfx_from is the index get_suffix was called with (kept for the checks).
PromisePayloads(st, prep) ==
    LET na == st.accepted_round
        accepted_idx == LogLen(st)
        decided_idx == st.decided_idx
        ld == prep.decided_idx
        Plain(from) ==
            {[decided_snapshot |-> None, suffix |-> GetSuffix(st, from), sfx_from |-> from]}
        WithDelta(from) ==
            {[decided_snapshot |-> d, suffix |-> GetSuffix(st, decided_idx),
              sfx_from |-> decided_idx] : d \in CreateDiffSnapshot(st, from, decided_idx)}
    IN  IF BallotLess(prep.n_accepted, na)
        THEN IF ld < decided_idx /\ UseSnapshots THEN WithDelta(ld) ELSE Plain(ld)
        ELSE IF na = prep.n_accepted /\ accepted_idx > prep.accepted_idx
        THEN IF UseSnapshots /\ st.compacted_idx > prep.accepted_idx
             THEN WithDelta(prep.decided_idx)
             ELSE Plain(prep.accepted_idx)
        ELSE {[decided_snapshot |-> None, suffix |-> <<>>, sfx_from |-> accepted_idx]}

\* mutation: a Prepare of the promised ballot is ignored in Recover too
PrepareAcceptedNewerOnly(st, n) == BallotLess(st.promise, n)

\* mutation: any other ballot than the promised one is a new ballot
PrepareAcceptedOtherBallot(st, n) == st.promise # n \/ state = "Recover"

\* The gate of handle_prepare: a higher ballot, or the promised one when the
\* replica is in Recover (after a restart or reconnected).
PrepareAccepted(st, n) ==
    \/ BallotLess(st.promise, n)
    \/ st.promise = n /\ state = "Recover"

\* handle_prepare(prep, from)
HandlePrepare(prep, from) ==
    LET st == storage
        promiseOf(p) ==
            [type |-> "Promise", to |-> from, n |-> prep.n,
             n_accepted |-> st.accepted_round,
             decided_snapshot |-> p.decided_snapshot, suffix |-> p.suffix,
             sfx_from |-> p.sfx_from,
             decided_idx |-> st.decided_idx, accepted_idx |-> LogLen(st),
             stopsign |-> StoredStopSign(st)]
    IN
    /\ PrepareAccepted(st, prep.n)
    /\ IF PromisePayloads(st, prep) = {}
       THEN Crash(st, "UnderflowPanic")
       ELSE \E p \in PromisePayloads(st, prep) :
              /\ storage' = [st EXCEPT !.promise = prep.n]
              /\ leader' = prep.n
              /\ state' = "Prepare"
              /\ current_seq_num' = DefaultSeqNum
              /\ outgoing' = Append(outgoing, promiseOf(p))
              /\ UNCHANGED <<latest_accepted_meta, pending_proposals, faults, bugs>>

\* Whether handle_acceptsync accepts the leader's stop-sign: only when the
\* replica has none, or has one not yet decided.
InstallsStopSignNever(acc, st) == FALSE                 \* mutation: stop-sign ignored

InstallsStopSign(acc, st) ==
    acc.stopsign # None /\ (st.stopsign = None \/ ~st.stopsign.decided)

\* What handle_acceptsync does once its log writes succeeded with cells st:
\* enter Accept, queue Accepted, then install or forward.
AcceptSyncFinish(acc, from, st) ==
    LET out1 == Append(outgoing, AcceptedMsg(from, acc.n, LogLen(st)))
        meta == <<acc.n, CachedIdx>>
        installs == InstallsStopSign(acc, st)
    IN
    IF acc.stopsign = None
    THEN /\ storage' = st
         /\ state' = "Accept"
         /\ current_seq_num' = acc.seq_num
         /\ latest_accepted_meta' = meta
         /\ outgoing' = out1
         /\ ForwardPendingProposals
         /\ UNCHANGED <<leader, faults, bugs>>
    ELSE \E o \in IF installs THEN AcceptStopSign(st, acc.stopsign) ELSE {Ok(st)} :
         IF ~o.ok THEN Crash(o.st, "StorageError")
         ELSE /\ storage' = o.st
              /\ state' = "Accept"
              /\ current_seq_num' = acc.seq_num
              /\ latest_accepted_meta' = meta
              /\ outgoing' = Append(out1, AcceptedStopSignMsg(from, acc.n))
              /\ UNCHANGED <<leader, pending_proposals, faults, bugs>>

\* The log write of an AcceptSync without a snapshot:
\* append_on_prefix(sync_idx, suffix), its outcomes.
SyncLogAppend(st, acc) == AppendEntries(st, acc.suffix, CanFail)  \* mutation: sync_idx ignored

SyncLog(st, acc) == AppendOnPrefix(st, acc.sync_idx, acc.suffix, CanFail)

\* handle_acceptsync(accsync, from): writes the accepted round, then the
\* decided index, then the snapshot and the entries, in this order.
HandleAcceptSync(acc, from) ==
    LET s0 == storage
        oldAR == <<"AcceptedRound", s0.accepted_round>>
        oldDI == <<"DecidedIdx", s0.decided_idx>>
        s1 == [s0 EXCEPT !.accepted_round = acc.n]
        s2 == [s1 EXCEPT !.decided_idx = acc.decided_idx]
        snapOutcomes ==
            IF acc.decided_snapshot = None THEN {}
            ELSE IF acc.decided_snapshot.kind = "Complete"
            THEN SetSnapshot(s2, acc.decided_idx, acc.decided_snapshot.snap, CanFail)
            ELSE MergeSnapshot(s2, acc.decided_idx, acc.decided_snapshot.snap, CanFail)
    IN
    /\ s0.promise = acc.n
    /\ state = "Prepare"
    /\ \/ CanFail /\ Crash(s0, "StorageError")          \* set_accepted_round
       \/ CanFail /\ FailWith(s1, <<oldAR>>)            \* set_decided_idx
       \/ /\ acc.decided_snapshot # None
          /\ IF snapOutcomes = {} THEN Crash(s2, "UnderflowPanic")
             ELSE \E o \in snapOutcomes :
                    IF ~o.ok THEN FailWith(o.st, <<oldAR, oldDI>>)
                    ELSE \E a \in AppendEntries(o.st, acc.suffix, CanFail) :
                           IF ~a.ok THEN FailWith(a.st, <<oldAR>>)
                           ELSE AcceptSyncFinish(acc, from, a.st)
       \/ /\ acc.decided_snapshot = None
          /\ LET ap == SyncLog(s2, acc)
             IN  IF ap = {} THEN Crash(s2, "UnderflowPanic")
                 ELSE \E a \in ap :
                        IF ~a.ok THEN FailWith(a.st, <<oldAR, oldDI>>)
                        ELSE AcceptSyncFinish(acc, from, a.st)

\* The common gate and sequence-number check of the accept-phase handlers.
InAcceptWith(n) == storage.promise = n /\ state = "Accept"

MsgStatus(m) == CheckMsgStatus(current_seq_num, m.seq_num)

\* The two outcomes of a sequence gap or a stale message.
DropOrReconnect(m) ==
    \/ /\ MsgStatus(m) = "DroppedPreceding"
       /\ Reconnected(BallotPid(m.n))
       /\ UNCHANGED <<storage, leader, current_seq_num, latest_accepted_meta, pending_proposals, faults, bugs>>
    \/ /\ MsgStatus(m) = "Outdated"
       /\ UNCHANGED followerVars

\* handle_acceptdecide(acc)
HandleAcceptDecide(acc) ==
    LET s0 == storage
        oldDI == <<"DecidedIdx", s0.decided_idx>>
        first == MsgStatus(acc) = "First"
        \* Some(old_accepted_round) exactly on First
        undoAR == IF first THEN <<<<"AcceptedRound", s0.accepted_round>>>> ELSE <<>>
        s1 == IF first THEN [s0 EXCEPT !.accepted_round = acc.n] ELSE s0
        writesDI == acc.decided_idx > s0.decided_idx
        s2 == IF writesDI THEN [s1 EXCEPT !.decided_idx = acc.decided_idx] ELSE s1
    IN
    /\ InAcceptWith(acc.n)
    /\ \/ DropOrReconnect(acc)
       \/ /\ MsgStatus(acc) \in {"First", "Expected"}
          /\ \/ first /\ CanFail /\ Crash(s0, "StorageError")   \* set_accepted_round
             \/ writesDI /\ CanFail /\ FailWith(s1, undoAR)     \* set_decided_idx
             \/ \E a \in AppendEntries(s2, acc.entries, CanFail) :
                  IF ~a.ok THEN FailWith(a.st, undoAR \o <<oldDI>>)
                  ELSE LET r == AcceptEntriesOutgoing(acc.n, a.st)
                       IN  IF r.bug # None THEN Crash(a.st, r.bug)
                           ELSE /\ storage' = a.st
                                /\ current_seq_num' = acc.seq_num
                                /\ outgoing' = r.out
                                /\ latest_accepted_meta' = r.meta
                                /\ IF first THEN ForwardPendingProposals
                                   ELSE UNCHANGED pending_proposals
                                /\ UNCHANGED <<state, leader, faults, bugs>>

\* handle_accept_stopsign(acc_ss)
HandleAcceptStopSignMsg(acc) ==
    LET s0 == storage
        first == MsgStatus(acc) = "First"
        s1 == IF first THEN [s0 EXCEPT !.accepted_round = acc.n] ELSE s0
    IN
    /\ InAcceptWith(acc.n)
    /\ \/ DropOrReconnect(acc)
       \/ /\ MsgStatus(acc) \in {"First", "Expected"}
          /\ \/ first /\ CanFail /\ Crash(s0, "StorageError")   \* set_accepted_round
             \/ \E o \in AcceptStopSign(s1, acc.ss) :
                  IF ~o.ok THEN Crash(o.st, "StorageError")     \* no rollback
                  ELSE /\ storage' = o.st
                       /\ current_seq_num' = acc.seq_num
                       /\ outgoing' = Append(outgoing,
                                        AcceptedStopSignMsg(BallotPid(leader), acc.n))
                       /\ IF first THEN ForwardPendingProposals
                          ELSE UNCHANGED pending_proposals
                       /\ UNCHANGED <<state, leader, latest_accepted_meta, faults, bugs>>

\* handle_decide(dec)
HandleDecide(dec) ==
    /\ InAcceptWith(dec.n)
    /\ \/ /\ MsgStatus(dec) = "First"      \* logged and dropped
          /\ UNCHANGED followerVars
       \/ DropOrReconnect(dec)
       \/ /\ MsgStatus(dec) = "Expected"
          /\ \/ CanFail /\ Crash(storage, "StorageError")
             \/ /\ storage' = [storage EXCEPT !.decided_idx = dec.decided_idx]
                /\ current_seq_num' = dec.seq_num
                /\ UNCHANGED <<state, leader, latest_accepted_meta, outgoing, pending_proposals, faults, bugs>>

\* The stored stop-sign entry with its decided flag set.
MarkDecidedUnset(st) == st   \* mutation: the flag is not set

MarkDecided(st) == [st EXCEPT !.stopsign.decided = TRUE]

\* handle_decide_stopsign(dec): decided_idx := log_len + 1, then the
\* stop-sign is stored again with its decided flag.
HandleDecideStopSign(dec) ==
    LET s0 == storage
        s1 == [s0 EXCEPT !.decided_idx = LogLen(s0) + 1]
        s2 == MarkDecided(s1)
    IN
    /\ InAcceptWith(dec.n)
    /\ \/ /\ MsgStatus(dec) = "First"
          /\ UNCHANGED followerVars
       \/ DropOrReconnect(dec)
       \/ /\ MsgStatus(dec) = "Expected"
          /\ IF s0.stopsign = None THEN Crash(s0, "NoStopSign")
             ELSE \/ CanFail /\ Crash(s0, "StorageError")          \* set_decided_idx
                  \/ CanFail /\ FailWith(s1, <<<<"DecidedIdx", s0.decided_idx>>>>)
                  \/ /\ storage' = s2
                     /\ current_seq_num' = dec.seq_num
                     /\ UNCHANGED <<state, leader, latest_accepted_meta, outgoing, pending_proposals, faults, bugs>>

-----------------------------------------------------------------------------
(************************ Host-driven operations **************************)

\* A client proposal buffered while the replica is not in the Accept phase
\* (SequencePaxos::propose, outside follower.rs).
ClientPropose ==
    /\ state # "Accept"
    /\ pending_proposals < MaxPending
    /\ pending_proposals' = pending_proposals + 1
    /\ UNCHANGED <<storage, state, leader, current_seq_num, latest_accepted_meta,
                   outgoing, faults, bugs>>

\* Mutation of TakeOutgoing: the back-index survives the queue it indexes.
TakeOutgoingKeepMeta ==
    /\ outgoing' = <<>>
    /\ UNCHANGED <<storage, state, leader, current_seq_num, latest_accepted_meta,
                   pending_proposals, faults, bugs>>

\* The host takes the outgoing messages; the back-index into the queue is
\* invalidated with them (spec §9).
TakeOutgoing ==
    /\ outgoing' = <<>>
    /\ latest_accepted_meta' = None
    /\ UNCHANGED <<storage, state, leader, current_seq_num,
                   pending_proposals, faults, bugs>>

\* Applying the outcome o of a host-requested compaction: an error is
\* returned to the host, the replica goes on.
Compacted(o) ==
    /\ storage' = o.st
    /\ faults' = IF o.fault THEN faults + 1 ELSE faults
    /\ UNCHANGED <<state, leader, current_seq_num, latest_accepted_meta, outgoing, pending_proposals, bugs>>

\* try_trim(idx) for an idx past the compacted prefix, up to one past the
\* end of the log.
TryTrimAction ==
    /\ ~UseSnapshots
    /\ \E idx \in storage.compacted_idx + 1 .. LogLen(storage) + 1 :
         \E o \in TryTrim(storage, idx, CanFail) : Compacted(o)

\* try_snapshot(Some(idx)) for an idx past the compacted prefix, up to one
\* past the end of the log.
TrySnapshotAction ==
    /\ UseSnapshots
    /\ \E idx \in storage.compacted_idx + 1 .. LogLen(storage) + 1 :
         \E o \in TrySnapshot(storage, idx, CanFail) : Compacted(o)
-----------------------------------------------------------------------------
(************************** Message dispatch ******************************)

\* The gates of the handlers: a message that fails its gate is dropped.
Gate(m) ==
    CASE m.type = "Prepare" -> PrepareAccepted(storage, m.n)
      [] m.type = "AcceptSync" -> storage.promise = m.n /\ state = "Prepare"
      [] OTHER -> InAcceptWith(m.n)

\* SequencePaxos::handle (outside follower.rs): the handler of each kind.
ReceiveMsg(m, from) ==
    IF ~Gate(m) THEN UNCHANGED followerVars
    ELSE CASE m.type = "Prepare"        -> HandlePrepare(m, from)
           [] m.type = "AcceptSync"     -> HandleAcceptSync(m, from)
           [] m.type = "AcceptDecide"   -> HandleAcceptDecide(m)
           [] m.type = "AcceptStopSign" -> HandleAcceptStopSignMsg(m)
           [] m.type = "Decide"         -> HandleDecide(m)
           [] m.type = "DecideStopSign" -> HandleDecideStopSign(m)

\* After a restart the replica asks for a Prepare (fail recovery, outside
\* follower.rs), once per restart.
RequestPrepare(pid) ==
    /\ state = "Recover"
    /\ \A i \in DOMAIN outgoing : outgoing[i].type # "PrepareReq"
    /\ outgoing' = Append(outgoing, PrepareReqMsg(pid))
    /\ UNCHANGED <<storage, state, leader, current_seq_num, latest_accepted_meta, pending_proposals, faults, bugs>>
=============================================================================
