---------------------------- MODULE MCUsageImport ----------------------------
(* Model-checking instances of UsageImport. *)
EXTENDS UsageImport, TLC

CONSTANTS b1, b2, b3, q1, q2

(* Capture is at-least-once: q1 is in two blobs.  A blob may be empty. *)
MCContent == b1 :> {q1, q2} @@ b2 :> {q1} @@ b3 :> {}
=============================================================================
