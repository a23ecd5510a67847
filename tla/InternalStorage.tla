-------------------------- MODULE InternalStorage --------------------------
(***************************************************************************)
(* InternalStorage (src/omnipaxos/src/storage.rs): the translation layer   *)
(* between the virtual log indices Sequence Paxos uses and the physical    *)
(* log of the host's Storage Port, which shrinks when it is compacted.     *)
(*                                                                         *)
(* The Storage Port's cells are one record st:                             *)
(*   promise, accepted_round  ballots                                      *)
(*   decided_idx              a virtual index                              *)
(*   log                      the physical log, a sequence of entries     *)
(*   compacted_idx            the virtual index of log[1]                  *)
(*   snapshot                 None, or the entries it summarises           *)
(*   stopsign                 None, or [ss |-> stopsign, decided |-> BOOL] *)
(*                                                                         *)
(* A snapshot is modelled as the sequence of entries it was created from:  *)
(* Snapshot::create(es) = es and s.merge(d) = s \o d.  This is the most    *)
(* informative snapshot there is; any real snapshot is a function of it.   *)
(*                                                                         *)
(* Every port call may fail (spec §6.1).  A failed call leaves its cell    *)
(* unchanged.  An operation that makes several calls is modelled by the   *)
(* set of its outcomes [ok |-> BOOLEAN, st |-> the cells afterwards], the  *)
(* failing ones included when mayFail holds.  Writes done on the way to an *)
(* error and not undone stay in the cells.                                 *)
(***************************************************************************)
EXTENDS Naturals, Sequences

CONSTANTS
    None,            \* the absent Option value
    RollbackMayFail, \* whether a write that undoes an earlier one may fail too
    DebugBuild       \* u64 underflow panics (debug) or wraps around (release)

ASSUME RollbackMayFail \in BOOLEAN /\ DebugBuild \in BOOLEAN

(***************************************************************************)
(* u64 subtraction.  In a release build a - b with a < b wraps to a value  *)
(* of at least 2^63, far past every log length of the model; U64Wrapped   *)
(* stands for it (only its comparison with lengths matters).  In a debug   *)
(* build the subtraction panics, which callers model as a crash.           *)
(***************************************************************************)
U64Wrapped == 2^30

Underflows(a, b) == a < b

U64Sub(a, b) == IF a >= b THEN a - b ELSE U64Wrapped

SatSub(a, b) == a - (IF b < a THEN b ELSE a)   \* a - b.min(a)

Ok(st)  == [ok |-> TRUE, fault |-> FALSE, st |-> st]
Err(st) == [ok |-> FALSE, fault |-> TRUE, st |-> st]

\* CompactionErr::UndecidedIndex: refused, not a storage fault.
Refused(st) == [ok |-> FALSE, fault |-> FALSE, st |-> st]

\* The failing outcomes exist only when a fault may be injected.
IfFaults(mayFail, S) == IF mayFail THEN S ELSE {}

-----------------------------------------------------------------------------
(*************************** Storage Port (§6.1) **************************)

\* get_entries(from, to) of the port: [from, to) of the physical log, or
\* the empty sequence when the interval is not fully present.
PortGetEntries(st, from, to) ==
    IF from <= to /\ to <= Len(st.log) THEN SubSeq(st.log, from + 1, to) ELSE <<>>

\* get_suffix(from) of the port.
PortGetSuffix(st, from) == SubSeq(st.log, from + 1, Len(st.log))

\* Mutation of PortAppendOnPrefix: the prefix is not truncated.
PortAppendOnPrefixNoTruncate(st, from, es) == [st EXCEPT !.log = @ \o es]

\* append_on_prefix(from, es) of the port: truncate to from, then append.
PortAppendOnPrefix(st, from, es) ==
    [st EXCEPT !.log =
        SubSeq(st.log, 1, IF from < Len(st.log) THEN from ELSE Len(st.log)) \o es]

\* Mutation of PortTrim: one entry fewer dropped.
PortTrimShort(st, n) == [st EXCEPT !.log = SubSeq(st.log, n, Len(st.log))]

\* Mutation of PortTrim: one entry more dropped.
PortTrimLong(st, n) == [st EXCEPT !.log = SubSeq(st.log, n + 2, Len(st.log))]

\* trim(n) of the port: drop the first n physical entries.
PortTrim(st, n) ==
    [st EXCEPT !.log = SubSeq(st.log, n + 1, Len(st.log))]

-----------------------------------------------------------------------------
(****************************** Reading ***********************************)

\* get_log_len: the virtual length, as if the log was never compacted.
LogLen(st) == st.compacted_idx + Len(st.log)

\* get_entries(from, to), with saturating translation to physical indices.
GetEntries(st, from, to) ==
    PortGetEntries(st, SatSub(from, st.compacted_idx), SatSub(to, st.compacted_idx))

\* get_suffix(from), with saturating translation to physical indices.
GetSuffix(st, from) == PortGetSuffix(st, SatSub(from, st.compacted_idx))

\* create_snapshot(compact_idx): the entries up to compact_idx merged onto
\* the stored snapshot.  The set of its results: a debug build panics when
\* compact_idx < compacted_idx (the empty set, the caller crashes).
CreateSnapshot(st, compact_idx) ==
    IF Underflows(compact_idx, st.compacted_idx) /\ DebugBuild THEN {}
    ELSE LET delta == PortGetEntries(st, 0, U64Sub(compact_idx, st.compacted_idx))
         IN  {IF st.snapshot = None THEN delta ELSE st.snapshot \o delta}

\* create_diff_snapshot(from, to): the set of its results.
CreateDiffSnapshot(st, from, to) ==
    IF st.compacted_idx >= from
    THEN {[kind |-> "Complete", snap |-> s] : s \in CreateSnapshot(st, to)}
    ELSE {[kind |-> "Delta", snap |-> GetEntries(st, from, to)]}

-----------------------------------------------------------------------------
(****************************** Writing ***********************************)

\* append_entries(entries): its outcomes.  The new virtual length is
\* LogLen of the resulting cells.
AppendEntries(st, es, mayFail) ==
    {Ok([st EXCEPT !.log = @ \o es])} \cup IfFaults(mayFail, {Err(st)})

\* append_on_prefix(from_idx, entries): its outcomes.  from_idx below
\* compacted_idx underflows: a debug build panics (no outcome, the caller
\* crashes with the cells as they are), a release build passes a huge
\* physical index, so the port truncates nothing and appends at the end.
AppendOnPrefix(st, from, es, mayFail) ==
    IF Underflows(from, st.compacted_idx) /\ DebugBuild THEN {}
    ELSE {Ok(PortAppendOnPrefix(st, U64Sub(from, st.compacted_idx), es))}
           \cup IfFaults(mayFail, {Err(st)})

\* append_on_decided_prefix: append_on_prefix from decided_idx, so the same
\* u64 subtraction decided_idx - compacted_idx.
AppendOnDecidedPrefix(st, es, mayFail) ==
    AppendOnPrefix(st, st.decided_idx, es, mayFail)

\* A write that undoes an earlier one fails only when RollbackMayFail.
Restores(st, undone) == {undone} \cup (IF RollbackMayFail THEN {st} ELSE {})

\* set_snapshot(idx, snapshot): atomic with rollback, non-reversible after
\* completion.  Steps: set compacted_idx, set the snapshot, trim the log by
\* idx - old compacted_idx; a failing step restores compacted_idx (and,
\* when the trim fails, the old snapshot), each restore itself a port call.
SetSnapshot(st, idx, snap, mayFail) ==
    LET oldC == st.compacted_idx
        s1 == [st EXCEPT !.compacted_idx = idx]
        s2 == [s1 EXCEPT !.snapshot = snap]
        s3 == PortTrim(s2, idx - oldC)
    IN  IF idx <= oldC
        THEN {Ok(st)} \cup IfFaults(mayFail, {Err(st)})
        ELSE {Ok(s3)}
             \cup IfFaults(mayFail,
                    \* a read or the write of compacted_idx failed
                    {Err(st)}
                    \* set_snapshot failed: compacted_idx restored (or not)
                    \cup {Err(x) : x \in Restores(s1, st)}
                    \* trim failed: compacted_idx, then the snapshot restored
                    \cup (IF RollbackMayFail
                          THEN {Err(s2), Err([s2 EXCEPT !.compacted_idx = oldC])}
                          ELSE {}))

\* merge_snapshot(idx, delta): merge delta onto the stored snapshot, or onto
\* a snapshot created over get_log_len() of the port (the physical length)
\* when there is none, then set_snapshot(idx, merged).
MergeSnapshot(st, idx, delta, mayFail) ==
    LET base == IF st.snapshot # None THEN {st.snapshot}
                ELSE CreateSnapshot(st, Len(st.log))
    IN  IF base = {} THEN {}     \* create_snapshot panicked
        ELSE UNION {SetSnapshot(st, idx, b \o delta, mayFail) : b \in base}
               \cup IfFaults(mayFail, {Err(st)})

\* Mutation of TryTrim: the decided bound not checked.
TryTrimUndecided(st, idx, mayFail) ==
    LET c == st.compacted_idx
        s1 == [st EXCEPT !.compacted_idx = idx]
    IN  IF idx <= c THEN {Ok(st)} \cup IfFaults(mayFail, {Err(st)})
        ELSE {Ok(PortTrim(s1, idx - c))}
               \cup IfFaults(mayFail, {Err(st)} \cup {Err(x) : x \in Restores(s1, st)})

\* try_trim(idx): host-requested compaction without a snapshot.  Returns
\* UndecidedIndex (nothing written) when idx > decided_idx.
TryTrim(st, idx, mayFail) ==
    LET c == st.compacted_idx
        s1 == [st EXCEPT !.compacted_idx = idx]
    IN  IF idx <= c THEN {Ok(st)} \cup IfFaults(mayFail, {Err(st)})
        ELSE IF idx > st.decided_idx THEN {Refused(st)}
        ELSE {Ok(PortTrim(s1, idx - c))}
               \cup IfFaults(mayFail, {Err(st)} \cup {Err(x) : x \in Restores(s1, st)})

\* try_snapshot(Some(idx)) / try_snapshot(None) with idx = decided_idx.
TrySnapshot(st, idx, mayFail) ==
    IF idx > st.decided_idx THEN {Refused(st)}
    ELSE IF idx > st.compacted_idx
         THEN UNION {SetSnapshot(st, idx, s, mayFail) : s \in CreateSnapshot(st, idx)}
                \cup IfFaults(mayFail, {Err(st)})
         ELSE {Ok(st)} \cup IfFaults(mayFail, {Err(st)})

-----------------------------------------------------------------------------
(****************************** Rollback **********************************)

\* RollbackValue::DecidedIdx(i) is <<"DecidedIdx", i>>,
\* RollbackValue::AcceptedRound(b) is <<"AcceptedRound", b>>.
SingleRollback(st, v) ==
    IF v[1] = "DecidedIdx" THEN [st EXCEPT !.decided_idx = v[2]]
    ELSE [st EXCEPT !.accepted_round = v[2]]

RECURSIVE ApplyRollback(_, _)
ApplyRollback(st, vs) ==
    IF vs = <<>> THEN st ELSE ApplyRollback(SingleRollback(st, Head(vs)), Tail(vs))

\* rollback(values) in the order given; the first write that fails panics,
\* leaving the values before it written and the rest not.
Rollback(st, vs) ==
    {ApplyRollback(st, SubSeq(vs, 1, k)) :
        k \in IF RollbackMayFail THEN 0..Len(vs) ELSE {Len(vs)}}
=============================================================================
