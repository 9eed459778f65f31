---------------------------- MODULE MCFrameServer ----------------------------
(* FrameServer with a source whose frames stay for a third, a third, one and
   one and a half of the nominal time. *)
EXTENDS FrameServer, TLC

Stamps == <<0, 2, 4, 10, 19>>

Whole == <<[start |-> 0, count |-> 4, masked |-> FALSE]>>
Plain == [segments |-> Whole, first |-> 0, last |-> 3, step |-> 1, phases |-> 1,
          preserve |-> TRUE, custom |-> 0, convert |-> FALSE]

(* The end goes first, then a mask, then the beginning; two masks go first. *)
Edited == <<[start |-> 2, count |-> 2, masked |-> FALSE],
            [start |-> 1, count |-> 1, masked |-> TRUE],
            [start |-> 0, count |-> 1, masked |-> FALSE]>>
Hidden == <<[start |-> 0, count |-> 1, masked |-> TRUE],
            [start |-> 2, count |-> 1, masked |-> TRUE],
            [start |-> 1, count |-> 2, masked |-> FALSE]>>

(* What can be served: the source's rate, another one, or resampled to another
   one; whole, edited or decimated; with one or two phases to a frame. *)
Served == {
  [Plain EXCEPT !.first = 1, !.phases = 2],
  [Plain EXCEPT !.segments = Edited, !.first = 2, !.last = 2],
  [Plain EXCEPT !.segments = Edited, !.custom = 4, !.convert = TRUE],
  [Plain EXCEPT !.segments = Edited, !.last = 2, !.step = 2, !.custom = 9],
  [Plain EXCEPT !.segments = Edited, !.first = 1, !.phases = 2, !.preserve = FALSE],
  [Plain EXCEPT !.segments = Hidden, !.preserve = FALSE, !.custom = 9],
  [Plain EXCEPT !.segments = Hidden, !.step = 3, !.phases = 2, !.custom = 4],
  [Plain EXCEPT !.segments = Hidden, !.first = 1, !.custom = 9, !.convert = TRUE],
  [Plain EXCEPT !.step = 3, !.last = 2],
  [Plain EXCEPT !.last = 4],
  [Plain EXCEPT !.step = 2, !.preserve = FALSE, !.custom = 9, !.convert = TRUE]}
=============================================================================
