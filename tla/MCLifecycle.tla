----------------------------- MODULE MCLifecycle -----------------------------
(* A key is set in the environment, on up to two lines of the file, or both, *)
(* and the console's three keys in every combination.                        *)
EXTENDS Lifecycle, TLC

MCTexts == {"", "/", "0", "2", "3", "256", "true", "false", "me",
            "127.0.0.1:8099", "0.0.0.0:8099", "ws://m", "http://m", "matter", "home", "home/"}
MCAsInt ==
  [t \in MCTexts |-> CASE t = "0" -> 0 [] t = "2" -> 2 [] t = "3" -> 3 [] t = "256" -> 256
                       [] OTHER -> Unset]
MCAsBool ==
  [t \in MCTexts |-> CASE t = "0" -> FALSE [] t \in {"true", "1"} -> TRUE
                       [] t = "false" -> FALSE [] OTHER -> Unset]
MCTrimSlash == [t \in MCTexts |-> CASE t = "/" -> "" [] t = "home/" -> "home" [] OTHER -> t]

NoEnv == [k \in Keys |-> Unset]
Choices(key) ==
  {Unset, ""} \cup
    CASE key = "MQTT_QOS" -> {"2", "3", "256", "me"}
      [] key = "HTTP_ENABLED" -> {"false", "me"}
      [] key = "HTTP_ADDR" -> {"0.0.0.0:8099", "127.0.0.1:8099"}
      [] key = "HTTP_USERNAME" -> {"me"}
      [] key = "MQTT_TOPIC_PREFIX" -> {"/", "home/"}
      [] key = "MATTER_WS_URL" -> {"ws://m", "http://m"}

LinesOf(key) == {[kind |-> "skip"], [kind |-> "broken"]}
                  \cup {[kind |-> "set", key |-> key, text |-> t] : t \in Choices(key) \ {Unset}}
Files(key) == {<<>>} \cup {<<l>> : l \in LinesOf(key)} \cup (LinesOf(key) \X LinesOf(key))

OneKey ==
  UNION {{[env |-> [NoEnv EXCEPT ![key] = t],
           file |-> [found |-> TRUE, missing |-> FALSE, explicit |-> FALSE, lines |-> f],
           modelReadable |-> TRUE] : t \in Choices(key), f \in Files(key)} : key \in Keys}

ConsoleKeys ==
  {[env |-> [NoEnv EXCEPT !["HTTP_ENABLED"] = e, !["HTTP_ADDR"] = a, !["HTTP_USERNAME"] = u],
    file |-> [found |-> FALSE, missing |-> missing, explicit |-> explicit, lines |-> <<>>],
    modelReadable |-> readable] :
     e \in Choices("HTTP_ENABLED"), a \in Choices("HTTP_ADDR"), u \in Choices("HTTP_USERNAME"),
     missing \in BOOLEAN, explicit \in BOOLEAN, readable \in BOOLEAN}

MCInputs == OneKey \cup ConsoleKeys
MCEnvironments == {{}, {"kill"}, {"hasty_stop"}}
==============================================================================
