---------------------------- MODULE MCAtomicQueue ----------------------------
(***************************************************************************)
(* AtomicQueue on small rings.  Swap is remap_index<1> on four slots: bits *)
(* 0 and 1 of the index change places.                                     *)
(***************************************************************************)
EXTENDS AtomicQueue, TLC
Straight == [k \in Slots |-> k]
Swap == IF Size = 2 THEN [k \in Slots |-> 1 - k] ELSE [k \in Slots |-> IF k = 1 THEN 2 ELSE IF k = 2 THEN 1 ELSE k]
Symm == Permutations(Producers) \cup Permutations(Consumers)
ProgramOps == {"push", "try_pop"}
AllOps == {"push", "try_push", "pop", "try_pop"}
==============================================================================
