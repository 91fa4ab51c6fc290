----------------------------- MODULE MCImageState -----------------------------
(* Two packages and two processes; which process is which does not matter. *)
EXTENDS ImageState, TLC

CONSTANTS a, b, p1, p2

Symmetric == Permutations({p1, p2})
=============================================================================
