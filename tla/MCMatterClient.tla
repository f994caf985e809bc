--------------------------- MODULE MCMatterClient ---------------------------
(* Two callers share a session whose buffers hold one command and one event. *)
EXTENDS MatterClient, TLC

CONSTANTS c1, c2
MCCallers == {c1, c2}
Symmetry == Permutations(MCCallers)
=============================================================================
