------------------------- MODULE MCCanvasController -------------------------
(***************************************************************************)
(* CanvasController with small constants.                                  *)
(***************************************************************************)
EXTENDS CanvasController, TLC

\* Scheduled jobs only, on a backend that obeys run: False or does not; a
\* workspace on the controller's disk; jobs started by hand.
MCSetups == {[remote |-> TRUE, overlap |-> FALSE, auto |-> FALSE],
             [remote |-> TRUE, overlap |-> FALSE, auto |-> TRUE],
             [remote |-> FALSE, overlap |-> FALSE, auto |-> FALSE],
             [remote |-> TRUE, overlap |-> TRUE, auto |-> FALSE]}

Symmetry == Permutations(Job)
=============================================================================
