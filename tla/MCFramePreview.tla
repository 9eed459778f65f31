---------------------------- MODULE MCFramePreview ----------------------------
(* FramePreview with an AviSynth graph, a container whose length is a guess,
   and timelines that were cut down, reversed and emptied. *)
EXTENDS FramePreview, TLC

ShortCuts == {<<1>>, <<1, 0>>}
AllCuts   == ShortCuts \cup {<<>>}
=============================================================================
