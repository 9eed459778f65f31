----------------------------- MODULE MCTimeline -----------------------------
(* Timeline over a source of two frames, to which a third can be appended. *)
EXTENDS Timeline, TLC

Run(b, n)  == [start |-> b, count |-> n, masked |-> FALSE]
Mask(b, n) == [start |-> b, count |-> n, masked |-> TRUE]

MCClips == {<<Run(1, 1)>>}

(* A list with empty and mergeable parts, one with leading and other masks, an
   empty one, one that reaches past the source. *)
MCLoads == {<<>>, <<Run(0, 1), Run(1, 0), Run(1, 1)>>,
            <<Mask(1, 1), Run(0, 1), Mask(1, 1)>>, <<Run(1, 3)>>}
=============================================================================
