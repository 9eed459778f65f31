----------------------------- MODULE MCFrameIndex -----------------------------
EXTENDS FrameIndex

\* a packet both modes show, and one that they treat differently
p(stamp, key) == [stamp |-> stamp, key |-> key, fate |-> [m \in Mode |-> "shown"]]
q(stamp, key, strict, lenient) ==
  [stamp |-> stamp, key |-> key, fate |-> [m \in Mode |-> IF m = 0 THEN strict ELSE lenient]]

\* time stamps of their own, with a picture that may be suppressed; none, and one that is
\* missing; repeated ones, from a demuxer that lands where it is asked and from a late
\* one; a damaged picture
Videos ==
  {[late |-> TRUE,  packets |-> <<p(0, TRUE), q(1, FALSE, "shown", "dropped"), p(2, TRUE), p(3, FALSE)>>],
   [late |-> FALSE, packets |-> <<p(Absent, TRUE), p(Absent, TRUE), p(Absent, FALSE)>>],
   [late |-> TRUE,  packets |-> <<p(0, TRUE), p(1, TRUE), p(Absent, TRUE), p(2, FALSE)>>],
   [late |-> FALSE, packets |-> <<p(0, TRUE), p(1, FALSE), p(1, TRUE), p(2, TRUE)>>],
   [late |-> TRUE,  packets |-> <<p(0, TRUE), p(1, TRUE), p(2, TRUE), p(2, TRUE)>>],
   [late |-> TRUE,  packets |-> <<p(0, TRUE), q(1, FALSE, "shown", "rejected"), p(2, TRUE)>>]}
=============================================================================
