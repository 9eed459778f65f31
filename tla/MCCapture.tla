------------------------------ MODULE MCCapture ------------------------------
(* Capture of two parts, among the files of another program. *)
EXTENDS Capture

CONSTANTS one, two, a

Parts  == {one, two}
Others == {a}
=============================================================================
