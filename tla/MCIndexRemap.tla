---------------------------- MODULE MCIndexRemap ----------------------------
(* IndexRemap on 8-bit unsigned numbers. *)
EXTENDS IndexRemap
=============================================================================
