--------------------------- MODULE MCSourceSession ---------------------------
(* SourceSession with two ordinary files, one raw file and two copies of it. *)
EXTENDS SourceSession, TLC
=============================================================================
