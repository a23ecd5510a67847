---------------------------- MODULE StorageRead ----------------------------
(***************************************************************************)
(* The read path of InternalStorage (src/omnipaxos/src/storage.rs): the    *)
(* splice of the compacted prefix, the log entries and the decided         *)
(* stop-sign that read(range) and read_decided_suffix(from) return, and a  *)
(* reference definition of the same ranges of the virtual log to check it  *)
(* against.                                                                *)
(*                                                                         *)
(* A LogEntry is a record [kind, val, idx]: kind is "Decided",             *)
(* "Undecided", "StopSign", "Snapshotted" or "Trimmed"; val the entry, the *)
(* stop-sign or the snapshot; idx the compacted index of a placeholder.    *)
(* A read returns Some(entries), NoEntries (Ok(None)) or ReadPanic.       *)
(* Indices here are 0-based virtual indices, as in the code.  Reads change *)
(* nothing; a failing port read only returns its error and is left out.    *)
(***************************************************************************)
EXTENDS InternalStorage

\* The outcomes of a read: Ok(Some(es)), Ok(None), and a panic (a u64
\* underflow in a debug build, or the unimplemented!() of an unexpected
\* combination of entry types).
Some(es) == [tag |-> "Some", es |-> es]
NoEntries == [tag |-> "None", es |-> <<>>]
ReadPanic == [tag |-> "Panic", es |-> <<>>]

LogEntry(kind, val, idx) == [kind |-> kind, val |-> val, idx |-> idx]

\* Whether the stored stop-sign is decided.
StopSignDecided(st) == st.stopsign # None /\ st.stopsign.decided

\* mutation: the first index past the compacted prefix counted as compacted
GetEntryTypeAtCompacted(st, idx, compacted_idx, virtual_log_len) ==
    IF idx <= compacted_idx THEN "Compacted"
    ELSE IF idx < virtual_log_len THEN "Entry"
    ELSE IF idx = virtual_log_len /\ StopSignDecided(st) THEN "StopSign"
    ELSE None

\* mutation: an undecided stop-sign read as part of the log
GetEntryTypeAnyStopSign(st, idx, compacted_idx, virtual_log_len) ==
    IF idx < compacted_idx THEN "Compacted"
    ELSE IF idx < virtual_log_len THEN "Entry"
    ELSE IF idx = virtual_log_len /\ st.stopsign # None THEN "StopSign"
    ELSE None

\* get_entry_type(idx, compacted_idx, virtual_log_len): the IndexEntry of
\* virtual index idx, or None past the log (and past a decided stop-sign).
GetEntryType(st, idx, compacted_idx, virtual_log_len) ==
    IF idx < compacted_idx THEN "Compacted"
    ELSE IF idx < virtual_log_len THEN "Entry"
    ELSE IF idx = virtual_log_len /\ StopSignDecided(st) THEN "StopSign"
    ELSE None

\* mutation: the stored snapshot ignored
CreateCompactedEntryTrimmed(st, compacted_idx) == LogEntry("Trimmed", None, compacted_idx)

\* create_compacted_entry(compacted_idx): Snapshotted(idx, snapshot) when a
\* snapshot is stored, Trimmed(idx) otherwise.
CreateCompactedEntry(st, compacted_idx) ==
    IF st.snapshot # None THEN LogEntry("Snapshotted", st.snapshot, compacted_idx)
    ELSE LogEntry("Trimmed", None, compacted_idx)

StopSignEntry(st) == LogEntry("StopSign", st.stopsign.ss, None)

\* create_read_log_entries_with_real_idx(from, to, compacted_idx,
\* decided_idx): the physical entries [from, to); the k-th of them (k from
\* 0, as enumerate() counts) is Undecided when k + compacted_idx >
\* decided_idx, Decided otherwise.
CreateReadLogEntries(st, from_sfx_idx, to_sfx_idx, compacted_idx, decided_idx) ==
    LET es == PortGetEntries(st, from_sfx_idx, to_sfx_idx)
    IN  [k \in 1..Len(es) |->
           LogEntry(IF (k - 1) + compacted_idx > decided_idx THEN "Undecided" ELSE "Decided",
                    es[k], None)]

\* A RangeBounds bound is <<"Included", i>>, <<"Excluded", i>> or
\* <<"Unbounded", 0>>.  read(r) turns r into [from_idx, to_idx).
StartIdx(bound) ==
    CASE bound[1] = "Included" -> bound[2]
      [] bound[1] = "Excluded" -> bound[2] + 1
      [] OTHER                 -> 0

EndIdx(st, bound) ==
    CASE bound[1] = "Included" -> bound[2] + 1
      [] bound[1] = "Excluded" -> bound[2]
      [] OTHER                 -> LogLen(st) + (IF StopSignDecided(st) THEN 1 ELSE 0)

\* The body of read(r) once its bounds are [from_idx, to_idx): the types of
\* the last and the first index decide the splice.
ReadRange(st, from_idx, to_idx) ==
    LET len == LogLen(st)
        c == st.compacted_idx
        toType == GetEntryType(st, U64Sub(to_idx, 1), c, len)
        fromType == GetEntryType(st, from_idx, c, len)
        Entries(f, t) == CreateReadLogEntries(st, f, t, c, st.decided_idx)
        compacted == <<CreateCompactedEntry(st, c)>>
        ss == <<StopSignEntry(st)>>
    IN  IF Underflows(to_idx, 1) /\ DebugBuild THEN ReadPanic
        ELSE IF toType = "Compacted" THEN Some(compacted)
        ELSE IF toType = None \/ fromType = None THEN NoEntries
        ELSE CASE fromType = "Entry" /\ toType = "Entry" ->
                    Some(Entries(from_idx - c, to_idx - c))
               [] fromType = "Entry" /\ toType = "StopSign" ->
                    Some(Entries(from_idx - c, to_idx - c - 1) \o ss)
               [] fromType = "Compacted" /\ toType = "Entry" ->
                    Some(compacted \o Entries(0, to_idx - c))
               [] fromType = "Compacted" /\ toType = "StopSign" ->
                    Some(compacted \o Entries(0, to_idx - c - 1) \o ss)
               [] fromType = "StopSign" /\ toType = "StopSign" -> Some(ss)
               [] OTHER -> ReadPanic

\* read(r)
Read(st, start, end) == ReadRange(st, StartIdx(start), EndIdx(st, end))

\* mutation: the guard admits from_idx = decided_idx
ReadDecidedSuffixInclusive(st, from_idx) ==
    IF from_idx <= st.decided_idx THEN ReadRange(st, from_idx, st.decided_idx) ELSE NoEntries

\* read_decided_suffix(from_idx): read(from_idx..decided_idx), Ok(None)
\* when from_idx is not below decided_idx.
ReadDecidedSuffix(st, from_idx) ==
    IF from_idx < st.decided_idx THEN ReadRange(st, from_idx, st.decided_idx) ELSE NoEntries

-----------------------------------------------------------------------------
(*********************** Reference: the virtual log ***********************)

\* The ranges [from, to) that lie in the virtual log, a decided stop-sign
\* counting as its last element (spec §4: None outside them).
InBounds(st, from, to) ==
    from < to /\ to <= LogLen(st) + (IF StopSignDecided(st) THEN 1 ELSE 0)

\* Spec §4: the placeholder of the compacted prefix, Snapshotted when a
\* snapshot stands for it and Trimmed when it is gone.
Placeholder(st) ==
    LogEntry(IF st.snapshot # None THEN "Snapshotted" ELSE "Trimmed",
             st.snapshot, st.compacted_idx)

\* Spec §4: the placeholder when the range starts in the compacted prefix,
\* then each held entry, Decided when its index is below decided_idx (the
\* number of decided entries), then the stop-sign when the range reaches
\* past the log.
VirtualRead(st, from, to) ==
    LET c == st.compacted_idx
        first == IF from < c THEN c ELSE from
        last == IF to < LogLen(st) THEN to ELSE LogLen(st)
        held == [k \in 1..(IF last > first THEN last - first ELSE 0) |->
                   LET i == first + k - 1
                   IN  LogEntry(IF i < st.decided_idx THEN "Decided" ELSE "Undecided",
                                st.log[i - c + 1], None)]
    IN  (IF from < c THEN <<Placeholder(st)>> ELSE <<>>)
        \o held
        \o (IF to > LogLen(st) THEN <<StopSignEntry(st)>> ELSE <<>>)

\* A read with its Decided / Undecided marks erased.
Unmarked(es) ==
    [k \in DOMAIN es |->
       IF es[k].kind \in {"Decided", "Undecided"} THEN [es[k] EXCEPT !.kind = "Entry"]
       ELSE es[k]]
=============================================================================
