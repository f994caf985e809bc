------------------------------- MODULE MCFlow -------------------------------
(* Two devices that may have one of two names each; one in node follows the   *)
(* first name in another case, one a node id.                                 *)
EXTENDS Flow, TLC

CONSTANTS n4, n9, sensor, SENSOR, other, x, y

MCNodeIds == {n4, n9}
MCNames == {SENSOR, other}
MCLower == (sensor :> sensor) @@ (SENSOR :> sensor) @@ (other :> other)
MCInNodes == {x, y}
MCDevice == (x :> sensor) @@ (y :> n4)
MCNodeOrders == {<<n4, n9>>}
MCDeployments == {<<x, y>>}
MCClearOrders == {<<"value", "name", "availability">>}
MCFabrics == {(n4 :> SENSOR) @@ (n9 :> Empty)}
=============================================================================
