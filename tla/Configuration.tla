--------------------------- MODULE Configuration ----------------------------
(***************************************************************************)
(* internal/config: how a process comes to its configuration, and the      *)
(* environment the operator gives it.  Of the fields, the ones that decide *)
(* where a process connects and whether it starts, and the size limits.    *)
(* A configuration has strings and numbers; durations, pool sizes and the  *)
(* like are set in the same way and decide nothing here.                   *)
(***************************************************************************)
EXTENDS Integers

CONSTANTS
  Absent,          \* a key that the JSON file leaves out
  Unset,           \* a variable that is not set, or empty
  Malformed,       \* text that does not parse as a number
  Unreadable,      \* a JSON file that is missing or does not parse
  Refused,         \* no configuration: Load returned an error
  StrongSecrets    \* secrets of at least 32 bytes

Strings == {"tcpAddr", "httpAddr", "httpTcpAddr", "targetDB", "targetRedis",
            "dsn", "redis", "secret"}
Numbers == {"queue", "maxFrame", "maxBody", "maxUpload"}
Fields == Strings \cup Numbers

Default ==
  [tcpAddr |-> "9000", httpAddr |-> "8081", httpTcpAddr |-> "9000",
   targetDB |-> "", targetRedis |-> "", dsn |-> "", redis |-> "", secret |-> "",
   queue |-> 2048, maxFrame |-> 8388608, maxBody |-> 4194304, maxUpload |-> 2097152]

\* json.Unmarshal over the defaults.
Merged(file) ==
  [f \in Fields |-> IF file[f] = Absent THEN Default[f] ELSE file[f]]

\* setString, setInt, setInt64 and setUint32.
Set(value, var) == IF var \in {Unset, Malformed} THEN value ELSE var

ApplyDBCP(c) ==
  [c EXCEPT !.dsn   = IF c.targetDB # "" THEN c.targetDB ELSE @,
            !.redis = IF c.targetRedis # "" THEN c.targetRedis ELSE @]

\* Mutants are wrong versions of the definition that follows them; no
\* specification uses them.

\* Mutant: the targets are applied once, before the environment is read.
ApplyEnvLast(c, env) == [f \in Fields |-> Set(c[f], env[f])]

ApplyEnv(c, env) == ApplyDBCP([f \in Fields |-> Set(c[f], env[f])])

Validate(c) ==
  /\ \A f \in {"tcpAddr", "httpAddr", "httpTcpAddr", "dsn", "secret"} : c[f] # ""
  /\ c.maxFrame # 0
  /\ c.maxUpload > 0

\* Mutant: the file has the last word.
LoadFileLast(file, env) ==
  IF file = Unreadable THEN Refused
  ELSE LET c == [f \in Fields |->
                   IF file[f] = Absent THEN ApplyEnv(Default, env)[f] ELSE file[f]]
       IN  IF Validate(c) THEN c ELSE Refused

Load(file, env) ==
  IF file = Unreadable THEN Refused
  ELSE LET c == ApplyEnv(ApplyDBCP(Merged(file)), env)
       IN  IF Validate(c) THEN c ELSE Refused

-----------------------------------------------------------------------------
(* The environment of a Pod.                                               *)

\* desiredConfigData: what the ConfigMap of a CR holds.  The CRD requires both
\* targets but admits empty ones, which the processes take for Unset.
DesiredConfigData(db, redis, secret) ==
  [tcpAddr |-> "9000", httpAddr |-> "8081", httpTcpAddr |-> "9000",
   targetDB |-> db, targetRedis |-> redis, dsn |-> Unset, redis |-> Unset,
   secret |-> secret, queue |-> 2048, maxFrame |-> 8388608, maxBody |-> 4194304,
   maxUpload |-> 2097152]

\* The entrypoint gives addresses that are missing their defaults.
Exported(env) ==
  [env EXCEPT !.tcpAddr     = Set("9000", @),
              !.httpAddr    = Set("8081", @),
              !.httpTcpAddr = Set("9000", @)]
=============================================================================
