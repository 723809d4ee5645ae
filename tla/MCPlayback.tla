----------------------------- MODULE MCPlayback -----------------------------
(* Playback on small instances.  The responses are interchangeable.        *)
EXTENDS Playback, TLC

CONSTANTS s1, s2

\* Players that read the first segment and leave, and players that may also
\* read the second one.
MCProbe == {<<0, 0>>}
MCBoth == {<<0, 0>>, <<0, 1>>}

MCSymmetry == Permutations({s1, s2})

=============================================================================
