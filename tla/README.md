# TLA+ models of the OmniPaxos follower and its storage layer

This directory model-checks the follower side of Sequence Paxos. It covers
`src/omnipaxos/src/sequence_paxos/follower.rs` and the storage layer under it,
`src/omnipaxos/src/storage.rs`. Running the follower against abstract leaders
and a lossy network shows whether its storage cells stay consistent with what
the leaders chose. That must hold through compaction, snapshots, stop-signs,
storage errors and the panics and restarts those errors cause.

## The system and how its parts interact

- **Storage Port** (`Storage` trait, storage.rs:101-166). The host implements
  it. It holds these cells: promise, accepted_round, decided_idx, the
  physical log, compacted_idx, the snapshot and the stop-sign. Every call
  returns a `StorageResult` and may fail.
- **InternalStorage** (storage.rs:187-609). It converts the *virtual* indices
  that Sequence Paxos uses (`compacted_idx + physical index`) to physical
  ones. It also builds snapshots, compacts the log (`try_trim`,
  `try_snapshot`) and rolls writes back after an error (`rollback_if_err`).
- **Follower handlers** (follower.rs). They are `handle_prepare`,
  `handle_acceptsync`, `handle_acceptdecide`, `handle_accept_stopsign`,
  `handle_decide` and `handle_decide_stopsign`, plus the helper
  `accept_entries`. Each one checks a gate and the session's
  `SequenceNumber`, then writes to storage in a fixed order. It queues its
  replies in `outgoing`. Replies of type `Accepted` are coalesced:
  `latest_accepted_meta` is a back-index into `outgoing`, and
  `accept_entries` advances that queued message in place. A storage error
  rolls back some of the cells and then panics. After the panic, fail
  recovery restarts the replica in `(Follower, Recover)` with its cells kept.
- **Leaders, the network and the host.** These are not part of the sources.
  Leaders send Prepare, AcceptSync, AcceptDecide, Decide, AcceptStopSign and
  DecideStopSign. The host takes the outgoing queue, buffers client
  proposals, and calls trim and snapshot between handlers.

## Modules

| module | models | state and actions |
|---|---|---|
| `PaxosBasics` | Ballot order and `SequenceNumber::check_msg_status` (spec §3; the code is outside src/) | operators only |
| `InternalStorage` | storage.rs: the port calls, the translation of indices, snapshots, compaction and rollback | operators over a record `st` of the cells; an operation that may fail returns a set of outcomes `[ok, fault, st]` |
| `Follower` | follower.rs: one action per handler, plus the host operations | `storage`, `state` (phase), `leader`, `current_seq_num`, `latest_accepted_meta`, `outgoing`, `pending_proposals`, and the ghosts `faults` and `bugs` (logic panics hit) |
| `FollowerSystem` | the follower composed with abstract leaders and FIFO links; the properties | adds the leaders' state, the links `chan[b]` and `back`, and the ghosts `chosen`, `chosenRound` and `chosenSS` |
| `StorageRead` | storage.rs read path: `get_entry_type`, `read(range)`, `create_read_log_entries_with_real_idx`, `read_decided_suffix`, `create_compacted_entry`, and a reference definition of the virtual log (spec §4) | operators only; reads change no cell |
| `AcceptorLog` | the abstract acceptor: what the follower promises its leaders over its virtual log | `promise`, `accepted`, `alog`; actions `Promise` and `Accept` |
| `MCFollowerSystem` | instantiates the model for TLC: ballots `<<1,2>>` and `<<1,3>>`, values `v1` and `v2`, symmetry over the values | |

**How the actions correspond to the code.**

- **The handlers.** Each handler is one action, with every storage call it
  makes in it, in the code's order.
  - A call that can fail (when `StorageFaults` is TRUE) has a disjunct of
    its own. That disjunct performs exactly the rollback that the code's
    `rollback_if_err` / `single_rollback` lists name, and then `Crash`.
  - A `.expect` on a read is covered by `CrashAnyTime`.
  - u64 subtraction is modelled by `U64Sub`. In a debug build an underflow
    panics (`Crash` with bug `UnderflowPanic`). In a release build it wraps
    to a huge value.
  - The two logic panics, `"Cached idx is not an Accepted"` and the
    out-of-range unwrap in `accept_entries`, are recorded in `bugs`, as is
    `"No stopsign found when deciding!"`.
- **Snapshots.** A snapshot is the sequence of entries it summarises, and
  `merge` is concatenation. Any real snapshot type is a function of that
  sequence, so this is the most informative choice.
- **`cached_promise`.** It is written at follower.rs:93 and never read in
  the sources, so it is left out.
- **Host compaction.** The host calls `try_trim` when the entry type has no
  snapshots (`UseSnapshots` FALSE) and `try_snapshot` when it has them.
  The code lets a host call both on one replica; no property needs the two
  mixed, and each run explores one of them.

**Abstract leaders.** The leader code is not under src/. It is modelled from
spec §5 as the weakest environment that a correct leader set refines:

- Only the highest started ballot acts.
- At start, a leader adopts a prefix of an earlier round's log. That prefix
  contains every chosen entry, and the chosen stop-sign if there is one.
- The leader's decided index may be any prefix of `chosen`. It may be
  *smaller* than the follower's, because the majority that elected the
  leader need not include this follower.
- The leader re-prepares on a `PrepareReq` by opening a new session.
- After a restart, the host asks the current leader for a Prepare
  (`PromptResync`, which calls `RequestPrepare`). It sends at most one
  request while an earlier one is in flight.
- It decides only entries that it has sent, and records them in the ghost
  `chosen`.
- Each ballot has one FIFO link to the follower. The faults in the set
  `LinkFaults` can happen while `netFaults < MaxNetFaults`:
  - `"Lose"`: a message to or from the follower is lost;
  - `"Duplicate"`: the head of a link is delivered twice;
  - `"Reorder"`: the first two messages of a link swap places.

  When a link is full (`MaxChan`), the message is dropped, but its sequence
  number is still spent. This is how a gap arises. A duplicated or swapped
  message of a session reaches the follower with a sequence number that is
  already seen or skips ahead, so only `check_msg_status` keeps it out.

## Properties

- **`TypeOK`**: the type invariant. It is defined for reading the model,
  and no run checks it: its only mutation (dropping the `MaxPending`
  bound, which the code's unbounded `Vec` does not have) says nothing about
  the code.
- **`DecidedWithinLog`**: `decided_idx <= log_len`, or `log_len + 1` once the
  stop-sign is decided (spec §8). Breaking it takes a storage write order, a
  failed rollback, or a wrong sequence check.
- **`DecidedIsChosen`**: every decided entry the follower still holds equals
  the chosen entry at the same virtual index. The snapshot equals the chosen
  prefix of length `compacted_idx`. This relates the follower's cells to what
  the leaders decided, across compaction.
- **`AcceptedRoundLog`**: the follower's log is no longer than the log of the
  leader of its `accepted_round`, and agrees with it entry for entry. The
  follower never reports entries that the leader of its round did not send.
- **`CachedAcceptedValid`**: when `latest_accepted_meta` is set, it points at
  a queued `Accepted` of the same round that carries the current `log_len`.
- **`NoLogicPanic`**: no handler hits one of the code's logic panics.
- **`ReadSplicesVirtualLog`**: in every reachable storage state, every
  non-empty range `read(from..to)` of the virtual log returns the
  placeholder (Snapshotted or Trimmed), the held entries and the decided
  stop-sign in order, with no Decided entry after an Undecided one. A range
  past the log returns `None`. `read_decided_suffix(f)` returns the entries
  from `f` to `decided_idx`, all marked Decided. The Decided/Undecided marks
  themselves are checked only by `ReadIsVirtualLog`, in a violation run.
- **`OneAcceptedPerRound`**: the outgoing queue never holds two `Accepted`
  of the same round (spec §5: coalescing). Breaking it takes
  `accept_entries` without its back-index, or a stale back-index.
- **`ResyncsWithCurrentLeader`** (liveness): after a restart, a sequence
  gap or a new leader, the follower is eventually, and from then on, in a
  session of the current leader. The one exception is that the leader has
  opened all the sessions it may.
- **`AcceptorRefinement`** (refinement): the storage cells implement
  `AcceptorLog`. It is stated as `Acceptor!Spec`, with
  `Acceptor == INSTANCE AcceptorLog WITH promise <- storage.promise,
  accepted <- storage.accepted_round, alog <- VirtualLog`. `VirtualLog` is
  the snapshot, or the chosen entries that a trimmed prefix stood for,
  followed by the held log.
  - Promise and accepted round never decrease.
  - Within one accepted round, the virtual log only grows.
  - Trim and snapshot leave the virtual log unchanged.
- **`PromiseSuffixAligned`**: every Promise suffix starts at the index the
  leader splices it at. This property is only checked in a violation run.
- **`DecidedPrefixAppendable`**: `append_on_decided_prefix` on the
  follower's storage succeeds and leaves the virtual log `decided_idx + 1`
  long for one appended entry (spec §6). A leader elected from this
  replica uses the call to adopt its decided prefix. It holds only while
  `compacted_idx <= decided_idx` (spec §8): otherwise the u64 subtraction
  `decided_idx - compacted_idx` (storage.rs:431) panics in a debug build,
  and in a release build it wraps, so the whole log is kept and the entry
  lands after it. This property is only checked in a violation run.

## Runs

There are 5 passing runs and 7 violation runs. Each passing run enables one
feature, so that its interleavings are explored to depth.

| run | cfg | bounds | checks |
|---|---|---|---|
| lossy | MCLossy | one loss, duplication or swap (MaxNetFaults 1), MaxChan 1, 2 proposals, 2 sessions per ballot | DecidedWithinLog, DecidedIsChosen, AcceptedRoundLog, CachedAcceptedValid, NoLogicPanic, OneAcceptedPerRound, AcceptorRefinement |
| stopsign | MCStopSign | stop-sign on, 1 proposal | DecidedWithinLog, AcceptedRoundLog, NoLogicPanic, ReadSplicesVirtualLog, AcceptorRefinement |
| trim | MCTrim | try_trim, 1 buffered proposal | DecidedIsChosen, AcceptedRoundLog, NoLogicPanic, ReadSplicesVirtualLog, AcceptorRefinement |
| snapshot | MCSnapshot | try_snapshot, Complete and Delta snapshots | DecidedWithinLog, CachedAcceptedValid, NoLogicPanic, ReadSplicesVirtualLog, AcceptorRefinement |
| faults | MCFaults | one storage fault, rollbacks succeed, `FairSpec`, no symmetry | DecidedWithinLog, AcceptedRoundLog, CachedAcceptedValid, NoLogicPanic, ResyncsWithCurrentLeader, AcceptorRefinement |

The passing runs reach between 157,000 and 525,000 distinct states. Each
takes under two minutes with two workers.

**Each violation run checks one property, which TLC finds violated:**

- **decided_regress.** `handle_acceptsync` overwrites `decided_idx` with a
  lagging leader's value (follower.rs:123). The result is
  `decided_idx < compacted_idx`, and `append_on_decided_prefix` then
  underflows (storage.rs:431). The same trace breaks the property in a
  release build, where the offset wraps and the log is not cut back.
- **trim_past_stopsign.** After a decided stop-sign, `decided_idx` is
  `log_len + 1`. `try_trim(decided_idx)` then trims one past the log
  (storage.rs:574), and `log_len` counts a phantom entry.
  `try_snapshot` has the same check (storage.rs:596, and it defaults to
  `decided_idx` at storage.rs:602). With snapshots and the stop-sign both
  enabled, TLC reaches the same phantom entry through `try_snapshot`. For
  this reason no passing run enables compaction and the stop-sign together.
- **snapshot_suffix.** The snapshot branch of AcceptSync appends the suffix
  with `append_entries` (follower.rs:147). The suffix lands behind stale
  undecided entries.
- **snapshot_merge.** When no snapshot is stored, `merge_snapshot` builds its
  base from the physical `log_len` (storage.rs:558-562). That base takes in
  the undecided tail, and the result duplicates entries.
- **rollback_fail.** In `handle_acceptsync`, `decided_idx` is written before
  the log. If the rollback of `decided_idx` fails, the restarted replica has
  `decided_idx > log_len`. This contradicts the "safe order" comment at
  follower.rs:102.
- **read_marks.** `create_read_log_entries_with_real_idx`
  (storage.rs:382-383) marks an entry Decided when
  `enumerate index + compacted_idx <= decided_idx`. This is wrong in two
  ways:
  - `decided_idx` counts decided entries, so the entry *at* `decided_idx`
    is marked Decided. With log `<<v1>>` and `decided_idx 0`, `read(0..1)`
    returns `Decided(v1)`.
  - The mark ignores the offset of a range that does not start at the
    compacted prefix.

  Spec §4 words the mark as `log_idx <= decided_idx`, so the spec shares the
  off-by-one.
- **promise_suffix.** This run uses three ballots and no snapshots.
  `handle_prepare` answers a leader that adopted an older round with
  `get_suffix(prep.decided_idx)` (follower.rs:52). If the follower has
  trimmed past that index, `get_suffix` saturates: the Promise carries an
  empty suffix with `accepted_idx 1`, which the leader splices at its
  decided index 0. Neither the code nor the spec keeps trimming below every
  leader's decided index.

**Mutants.** Every property of a passing run has a mutant in PROJECT.json: a
plausible bug in a mapped definition that TLC catches. Examples:

- the missing truncation in `append_on_prefix`;
- an off-by-one in `trim` or `cached_idx`;
- a dropped rollback, or a dropped decided check in `try_trim`;
- a gap treated as Expected;
- `handle_prepare` ignoring the promised ballot's Prepare in Recover. The
  liveness property catches this one.
- an undecided stop-sign read as part of the log;
- coalescing of `Accepted` dropped.

**Why the bounds are enough.** The smallest traces behind each finding use
two ballots, at most three log entries and one compaction. The bounds admit:

- a second leader whose log diverges from the first one's;
- a lost message followed by a reconnect, and a duplicated or overtaken
  message of the current session;
- a trim or snapshot placed between any two messages.

Larger logs only repeat these cases at higher indices.

## Fairness and deadlock

`FairSpec` adds weak fairness to `Spec` on four actions:

- `Deliver(b)` for each ballot: the host hands every message at the head of
  a link to the follower. Handlers run to completion (spec §5).
- `SendOutgoing`: the host takes the outgoing queue.
- `LeaderReceive`: a leader reads the replies addressed to it.
- `PromptResync`: the host asks the current leader for a Prepare on behalf
  of a replica in Recover. Spec §5 says the host "is expected to prompt
  re-sync via reconnected".

Leaders are not required to start, propose or decide.

`ResyncsWithCurrentLeader` is checked only in the faults run. That run has
no network faults (`MaxNetFaults 0`). The modelled leaders do not resend a lost
Prepare or AcceptSync; the real leader's resend is outside the sources.
The faults run drops `SYMMETRY`, because TLC's liveness checking is not
sound under symmetry.

`PromptResync` sends no second PrepareReq while one is still in flight
(`NoPrepareReqInFlight`). The follower's link back to the leaders is not
bounded by `MaxChan`; what it carries is bounded by the Prepares sent.
Leaders have bounded proposals and sessions, so the system stops by design.
For that reason every cfg sets `CHECK_DEADLOCK FALSE`.

## Not modelled

- **Ballot Leader Election, the transport and the runtime.** They are not in
  the sources.
- **The leaders' own safety.** It is assumed, through the adoption rule
  above.
- **`append_entry`.** No follower handler calls it.
  `append_on_decided_prefix` is modelled as an operator
  (`AppendOnDecidedPrefix`) and used by `DecidedPrefixAppendable`.
- **Empty read ranges.** `read(len..len)` with a decided stop-sign reaches
  `unimplemented!()`, and `read(0..0)` underflows in a debug build. The
  spec does not define empty ranges. No follower handler calls `read`; only
  the host's readers do. Showing the panic would take a violation run of
  its own, and every run the project can afford is already spent on a
  finding that the code's own handlers reach. So this stays a hazard, with
  a note.
- **How leaders use the Promise payload.** Leaders do not use it. The
  payload's alignment is checked directly, by `PromiseSuffixAligned`.
- **Faults across links.** A duplicate or swap happens within one ballot's
  link. Messages of different ballots are on different links, and their
  interleaving is already free.

## Plan for later work

1. Add leaders that resend on loss, so that liveness can be checked under
   message loss.
2. Add an abstract decided-log specification, once the `decided_regress`
   divergence is settled.
