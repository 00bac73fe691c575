---------------------------- MODULE MCRenderPhases ----------------------------
(* RenderPhases for TLC: render targets are interchangeable, as they are only *)
(* compared with each other.                                                  *)
EXTENDS RenderPhases, TLC

Symmetry == Permutations(RTs)

\* Registering passes, resizing and the late reset of the dispatcher touch different
\* variables: one of the three at a time.
Apart ==
  /\ passes # <<>> => size = 0 /\ forgotten = {}
  /\ size > 0 => forgotten = {}
=============================================================================
