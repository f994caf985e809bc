--------------------------- MODULE MCFlowRequests ---------------------------
(* Two out nodes, one of which has two requests open at a time; the other one *)
(* keeps the subscription alive while the first is deployed again.            *)
EXTENDS FlowRequests, TLC

CONSTANTS o1, o2, m1, m2
MCOutNodes == {o1, o2}
MCMsgs == {m1, m2}
MCFrom == (m1 :> o1) @@ (m2 :> o1)
=============================================================================
