----------------------------- MODULE MCCapture -----------------------------
EXTENDS Capture, TLC

(* Any writer is as good as any other. *)
Symm == Permutations(Writers)

(* Bound: a program whose threads race for the first event makes two calls *)
(* and registers nothing.                                                  *)
FewWhenBare ==
    started = "bare" => mode = "capture" /\ calls <= 2 /\ loader = None /\ handled = {}
=============================================================================
