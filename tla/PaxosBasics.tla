---------------------------- MODULE PaxosBasics ----------------------------
(***************************************************************************)
(* The value types the follower of Sequence Paxos works with and that are  *)
(* defined outside the follower and the storage layer: ballots (module     *)
(* ballot_leader_election) and the per-leader sequence numbers with their  *)
(* classification check_msg_status (module util).  Neither module is part  *)
(* of the sources modelled here, so both are written from the spec (§3,    *)
(* §4.2).                                                                  *)
(***************************************************************************)
EXTENDS Naturals

(***************************************************************************)
(* Ballot {n, pid}, written <<n, pid>>.  Ballots are compared              *)
(* lexicographically; <<0, 0>> is the bottom element (spec §2, §3).        *)
(***************************************************************************)
BottomBallot == <<0, 0>>

BallotLess(a, b) == a[1] < b[1] \/ (a[1] = b[1] /\ a[2] < b[2])

BallotLeq(a, b) == a = b \/ BallotLess(a, b)

BallotPid(b) == b[2]

(***************************************************************************)
(* SequenceNumber {session, counter}; the default is <<0, 0>>.            *)
(***************************************************************************)
DefaultSeqNum == <<0, 0>>

MessageStatuses == {"First", "Expected", "DroppedPreceding", "Outdated"}

(***************************************************************************)
(* SequenceNumber::check_msg_status(self = cur, msg_seq_num = m), spec     *)
(* §4.2: Expected is the next counter of the current session, First is a   *)
(* newer session, Outdated an older session or a counter already seen, and *)
(* DroppedPreceding a counter of the current session past the next one.    *)
(***************************************************************************)
\* Mutation of CheckMsgStatus: any later counter of the session accepted.
CheckMsgStatusNoGap(cur, m) ==
    CASE m[1] = cur[1] /\ m[2] > cur[2] -> "Expected"
      [] m[1] > cur[1]                  -> "First"
      [] OTHER                          -> "Outdated"

\* Mutation of CheckMsgStatus: the counter already seen taken as Expected.
CheckMsgStatusRepeat(cur, m) ==
    CASE m[1] = cur[1] /\ m[2] \in {cur[2], cur[2] + 1} -> "Expected"
      [] m[1] > cur[1]                              -> "First"
      [] m[1] < cur[1] \/ m[2] < cur[2]              -> "Outdated"
      [] OTHER                                      -> "DroppedPreceding"

CheckMsgStatus(cur, m) ==
    CASE m[1] = cur[1] /\ m[2] = cur[2] + 1   -> "Expected"
      [] m[1] > cur[1]                         -> "First"
      [] m[1] < cur[1] \/ m[2] <= cur[2]       -> "Outdated"
      [] OTHER                                 -> "DroppedPreceding"
=============================================================================
