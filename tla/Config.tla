------------------------------- MODULE Config -------------------------------
(***************************************************************************)
(* config.go: how the process environment and a .env file become the       *)
(* configuration, or a refusal to start.                                   *)
(*                                                                         *)
(* A text is an element of Texts; what the strconv and net functions make  *)
(* of it is given by functions on Texts.  A line of the file is a record:  *)
(* "skip" is blank or a comment, "broken" is not KEY=VALUE, and "set" is an *)
(* assignment, whose text is what is left of the value without its quotes. *)
(***************************************************************************)
EXTENDS Integers, Sequences

CONSTANTS Texts,       \* values of variables
          Blank,       \* the empty one
          Unset,       \* os.LookupEnv: no such variable
          AsInt,       \* strconv.Atoi, Unset where it fails
          AsBool,      \* strconv.ParseBool, likewise
          TrimSlash,   \* strings.TrimSuffix(v, "/")
          WebsocketURLs, Loopback, \* texts that start with ws:// or wss://,
                                   \* addresses for which isLoopbackAddr holds
          DefaultPrefix, DefaultURL, DefaultAddr

Keys == {"MQTT_QOS", "HTTP_ENABLED", "HTTP_ADDR", "HTTP_USERNAME",
         "MQTT_TOPIC_PREFIX", "MATTER_WS_URL"}

ASSUME ConfigAssumption ==
  /\ Blank \in Texts /\ Unset \notin Texts
  /\ {DefaultPrefix, DefaultURL, DefaultAddr} \subseteq Texts \ {Blank}
  /\ TrimSlash \in [Texts -> Texts]
  /\ WebsocketURLs \subseteq Texts /\ Loopback \subseteq Texts
  /\ DOMAIN AsInt = Texts /\ DOMAIN AsBool = Texts
  /\ AsInt[Blank] = Unset /\ \A t \in Texts : AsInt[t] = Unset \/ AsInt[t] \in Int

Lines == [kind : {"skip", "broken"}] \cup [kind : {"set"}, key : Keys, text : Texts]
Environs == [Keys -> Texts \cup {Unset}]

\* What a process may find: its environment, and a file that may be there.
IsInput(input) == /\ input.env \in Environs
                  /\ {input.file.found, input.file.missing, input.file.explicit} \subseteq BOOLEAN
                  /\ input.file.lines \in Seq(Lines)

\* Mutant: the file overwrites what is set.
ParseLineOver(so, line) ==
  IF so.failed \/ line.kind = "skip" THEN so
    ELSE IF line.kind = "broken" THEN [so EXCEPT !.failed = TRUE]
    ELSE [so EXCEPT !.env[line.key] = line.text]

\* One line of the file, after those that gave so: a broken line ends the parse,
\* and a variable that exists, blank or set by a line above, is left as it is.
ParseLine(so, line) ==
  IF so.failed \/ line.kind = "skip" THEN so
    ELSE IF line.kind = "broken" THEN [so EXCEPT !.failed = TRUE]
    ELSE IF so.env[line.key] # Unset THEN so
    ELSE [so EXCEPT !.env[line.key] = line.text]

ParseDotEnv(env, lines) ==
  LET after[i \in 0 .. Len(lines)] ==
        IF i = 0 THEN [env |-> env, failed |-> FALSE] ELSE ParseLine(after[i - 1], lines[i])
  IN  after[Len(lines)]

\* file.found: the file opens; file.missing: it does not because there is none.  Only
\* a file that ENV_FILE names must exist.
LoadDotEnv(env, file) ==
  IF file.found THEN ParseDotEnv(env, file.lines)
                ELSE [env |-> env, failed |-> file.explicit \/ ~file.missing]

\* envStr, envInt and envBool: blank counts as unset, and so does what does not parse.
EnvText(env, key, default) == IF env[key] \in {Unset, Blank} THEN default ELSE env[key]
EnvParsed(parse, env, key, default) ==
  IF env[key] \in {Unset, Blank} \/ parse[env[key]] = Unset THEN default ELSE parse[env[key]]

Valid(c) == /\ c.prefix # Blank /\ c.qos <= 2 /\ c.url \in WebsocketURLs
            /\ c.http /\ c.username = Blank => c.addr \in Loopback

\* The conversion of MQTT_QOS to a byte keeps its last eight bits.
ConfigOf(env) ==
  [qos      |-> EnvParsed(AsInt, env, "MQTT_QOS", 0) % 256,
   http     |-> EnvParsed(AsBool, env, "HTTP_ENABLED", TRUE),
   addr     |-> EnvText(env, "HTTP_ADDR", DefaultAddr),
   username |-> EnvText(env, "HTTP_USERNAME", Blank),
   prefix   |-> TrimSlash[EnvText(env, "MQTT_TOPIC_PREFIX", DefaultPrefix)],
   url      |-> EnvText(env, "MATTER_WS_URL", DefaultURL)]

\* The configuration main comes to, <<>> when it exits with status 2.
LoadConfig(input) ==
  LET loaded == LoadDotEnv(input.env, input.file)
  IN  IF loaded.failed \/ ~Valid(ConfigOf(loaded.env)) THEN <<>>
      ELSE <<ConfigOf(loaded.env)>>

-----------------------------------------------------------------------------
\* What a reader of the comments expects a variable to be: what is exported,
\* "the real environment always wins", or else what the file says of it first.
Expected(input, key) ==
  LET lines == IF input.file.found THEN input.file.lines ELSE <<>>
      set == {i \in DOMAIN lines : lines[i].kind = "set" /\ lines[i].key = key}
  IN  IF input.env[key] # Unset THEN input.env[key]
      ELSE IF set = {} THEN Unset
      ELSE lines[CHOOSE i \in set : \A j \in set : i <= j].text

\* Only a configuration that is complete and valid starts the bridge, and it is
\* the one the environment and the file ask for: the environment over the file,
\* the file over the defaults, a QoS of 0, 1 or 2 (of those that fit a byte: 256
\* passes for 0), and a console that is reachable from elsewhere only with a user
\* (config.go:61-63, 146-164).
FaithfulTo(input) ==
  LoadConfig(input) # <<>> =>
    LET c == LoadConfig(input)[1]
        qos == Expected(input, "MQTT_QOS")
        addr == Expected(input, "HTTP_ADDR")
        user == Expected(input, "HTTP_USERNAME")
    IN  /\ c.qos \in 0 .. 2
        /\ qos # Unset /\ AsInt[qos] # Unset /\ AsInt[qos] \in 0 .. 255 => c.qos = AsInt[qos]
        /\ addr \notin {Unset, Blank} => c.addr = addr
        /\ user # Unset => c.username = user
        /\ c.http => c.addr \in Loopback \/ user \notin {Unset, Blank}
        /\ \A i \in DOMAIN input.file.lines : input.file.found => input.file.lines[i].kind # "broken"
=============================================================================
