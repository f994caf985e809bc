--------------------------- MODULE MCBridgeMirror ---------------------------
(* The nodes and labels of MCBridge, where only sessions fail. *)
EXTENDS BridgeMirror, MCBridge
=============================================================================
