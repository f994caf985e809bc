-------------------------- MODULE MCTrackedTopics ---------------------------
(* A node with two attributes, so that a clear or a dump takes several steps. *)
EXTENDS TrackedTopics

MCLeaves == {"value", "label"}
=============================================================================
