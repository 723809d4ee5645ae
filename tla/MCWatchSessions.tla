-------------------------- MODULE MCWatchSessions --------------------------
(* WatchSessions on small instances: a video that is watched to the middle, *)
(* and one whose viewer has gone to its end and sees its last seconds.      *)
EXTENDS WatchSessions, TLC

CONSTANTS r1, r2, t1, t2

MCReports ==
    {[delta |-> 4, position |-> 20, completed |-> FALSE],
     [delta |-> 3, position |-> 40, completed |-> TRUE]}
MCSymmetry == Permutations({r1, r2}) \cup Permutations({t1, t2})

=============================================================================
