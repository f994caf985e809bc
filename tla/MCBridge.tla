------------------------------ MODULE MCBridge ------------------------------
(* Two nodes whose labels may be missing, blank, equal, or differ by case.   *)
EXTENDS Bridge, TLC

CONSTANTS sensor, SENSOR

MCNodeIds == {4, 9}
MCWords == {sensor, SENSOR}
MCLower == (sensor :> sensor) @@ (SENSOR :> sensor)
MCSegment == ("none" :> Empty) @@ ("blank" :> Empty) @@ ("Sensor" :> <<sensor>>)
MCLabels == DOMAIN MCSegment

N(l) == [label |-> l, value |-> 0, available |-> TRUE]
\* Two nodes that share a label; one alone.
MCFabrics == {(4 :> N("Sensor") @@ 9 :> N("Sensor")), (4 :> N("Sensor") @@ 9 :> Absent)}

\* Nothing but sessions fail; changes are missed; the bridge is restarted;
\* everything at once.
MCCalm == {{}}
MCUnseen == {{"unwatched"}}
MCEnvironments == {{}, {"unwatched", "overflow"}, {"requests", "unwatched", "crash"}, Kinds}
==============================================================================
