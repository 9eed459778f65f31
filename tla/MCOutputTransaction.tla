------------------------ MODULE MCOutputTransaction ------------------------
(* OutputTransaction on a family of two files, with two foreign files: enough
   for one entry to be moved while another fails, and for a second foreign
   file to arrive where the first one was quarantined. *)
EXTENDS OutputTransaction
=============================================================================
