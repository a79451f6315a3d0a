------------------------------ MODULE MCReplay ------------------------------
(* Replay of short recordings.  Word = 4: of the sizes 1 is kept, and 3    *)
(* comes back negative.                                                    *)
EXTENDS Replay, TLC
Symm == Permutations(Addrs)
=============================================================================
