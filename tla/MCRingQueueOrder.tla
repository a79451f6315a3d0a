--------------------------- MODULE MCRingQueueOrder ---------------------------
(* RingQueueOrder with one popping thread, the program's own use. *)
EXTENDS RingQueueOrder, TLC
Symm == Permutations(Producers)
===============================================================================
