---------------------------- MODULE MCAudioStream ----------------------------
(* AudioStream with a soundtrack that starts late and has a gap, one whose time
   stamps drift and overlap, and one with a chunk that carries no stamp. *)
EXTENDS AudioStream, TLC

Late    == <<[start |-> 2, count |-> 2], [start |-> 8, count |-> 1]>>
Drift   == <<[start |-> 0, count |-> 3], [start |-> 4, count |-> 2], [start |-> 2, count |-> 6]>>
Bare    == <<[start |-> 0, count |-> 2], [start |-> Unstamped, count |-> 1],
             [start |-> 4, count |-> 1]>>
Tracks  == {Late, Drift, Bare}
=============================================================================
