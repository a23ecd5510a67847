---------------------------- MODULE AcceptorLog ----------------------------
(***************************************************************************)
(* What a Sequence Paxos acceptor promises the leaders, stated over its    *)
(* virtual log and with nothing about storage, compaction or messages:     *)
(*                                                                         *)
(*  - its promise only grows;                                              *)
(*  - it accepts only in the round it promised, and its accepted round     *)
(*    only grows;                                                          *)
(*  - within one accepted round its log only grows: an entry it has        *)
(*    reported as accepted (Accepted{n, accepted_idx}, Promise) is never   *)
(*    withdrawn or replaced while it stays in round n.  A leader counts    *)
(*    those reports toward the majority that chooses an entry.             *)
(*                                                                         *)
(* Compacting the log is invisible at this level: the virtual log keeps    *)
(* its entries, whether held, trimmed or summarised in a snapshot.         *)
(***************************************************************************)
EXTENDS PaxosBasics, SequencesExt

CONSTANTS Values

VARIABLES
    promise,    \* the highest ballot promised
    accepted,   \* the round the log was accepted in
    alog        \* the virtual log, compacted prefix included

avars == <<promise, accepted, alog>>

Init ==
    /\ promise = BottomBallot
    /\ accepted = BottomBallot
    /\ alog = <<>>

\* The acceptor promises a higher ballot.
Promise ==
    /\ BallotLess(promise, promise')
    /\ UNCHANGED <<accepted, alog>>

\* The acceptor accepts a log in the round it promised; in the round it had
\* already accepted in, only an extension of its log.
Accept ==
    /\ BallotLeq(accepted, promise)
    /\ accepted' = promise
    /\ alog' \in Seq(Values)
    /\ accepted = promise => IsPrefix(alog, alog')
    /\ UNCHANGED promise

Next == Promise \/ Accept

Spec == Init /\ [][Next]_avars
=============================================================================
