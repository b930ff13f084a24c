--------------------------- MODULE MCUsageEmitter ---------------------------
(* Model-checking instances of UsageEmitter. *)
EXTENDS UsageEmitter, TLC

(* Records only differ by name, so their permutations are symmetries of the
   safety runs. *)
Symmetry == Permutations(Events)
=============================================================================
