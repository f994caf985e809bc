------------------------------ MODULE MCCommands ------------------------------
(* Three nodes and the labels that make names collide: two that differ only *)
(* by case, two words in one, a missing one.  Two tables: an orderly one,   *)
(* and one where two clusters have one name up to case, an attribute has    *)
(* the name of a global one, and another has a second name for a global.    *)
EXTENDS Commands, TLC

CONSTANTS sensor, SENSOR, salotto,
          OnOff, Onoff, Level, FeatureMap, Own, onoff, level, featuremap, own, Toggle

MCNodeIds == {4, 7, 9}
MCWords == {sensor, SENSOR, salotto}
MCLower == (sensor :> sensor) @@ (SENSOR :> sensor) @@ (salotto :> salotto)

MCSegment ==
  ("none" :> Empty) @@ ("Sensor" :> <<sensor>>) @@ ("SENSOR" :> <<SENSOR>>)
    @@ ("Sensor/Salotto" :> <<sensor, salotto>>)

MCLabels == DOMAIN MCSegment

MCModelNames == {OnOff, Onoff, Level, FeatureMap, Own, onoff, level, featuremap, own}
MCLowerName ==
  (OnOff :> onoff) @@ (Onoff :> onoff) @@ (onoff :> onoff) @@ (Level :> level)
    @@ (level :> level) @@ (FeatureMap :> featuremap) @@ (featuremap :> featuremap)
    @@ (Own :> own) @@ (own :> own) @@ (Empty :> Empty)
MCGlobals == (3 :> FeatureMap)

\* Cluster 8 has no name; 9 is unknown, as a manufacturer's own is.
Orderly == (6 :> [name |-> OnOff, attributes |-> (0 :> OnOff) @@ (1 :> Level)])
             @@ (8 :> [name |-> Empty, attributes |-> (0 :> Level)])
Alike == (6 :> [name |-> OnOff, attributes |-> (0 :> OnOff) @@ (1 :> Onoff)])
           @@ (8 :> [name |-> Onoff, attributes |-> (0 :> FeatureMap) @@ (3 :> Own)])
MCTables == {Orderly, Alike}
===============================================================================
