--------------------------- MODULE MCSegmentCache --------------------------
(* SegmentCache on small instances.  The video with the higher id is worth  *)
(* less; the threads that serve requests are interchangeable.               *)
EXTENDS SegmentCache, TLC

CONSTANTS r1, r2

MCPriority == [v \in Videos |-> 3 - v]
MCSymmetry == Permutations({r1, r2})

=============================================================================
