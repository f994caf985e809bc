----------------------------- MODULE MCConsole -----------------------------
(* Two nodes; nothing but events, everything but dropped messages, everything. *)
EXTENDS Console

MCNodeIds == {4, 9}
MCEnvironments == {{}, Kinds \ {"overflow"}, Kinds}
=============================================================================
