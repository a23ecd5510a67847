-------------------------- MODULE MCFollowerSystem --------------------------
(* Model values and small bounds for checking FollowerSystem with TLC.      *)
EXTENDS FollowerSystem

CONSTANTS v1, v2, ss

\* Leaders choose entries freely, so the entries are interchangeable.
ValueSymmetry == Permutations({v1, v2})

\* Node ids are u64: the follower is node 1, the leaders nodes 2 and 3.
\* Ballots <<1, 2>> < <<1, 3>>: two leaders.
MCBallots == {<<1, 2>>, <<1, 3>>}

\* Three leaders: a third can adopt the log of the first after the second.
MCBallots3 == {<<1, 2>>, <<1, 3>>, <<1, 4>>}
====
