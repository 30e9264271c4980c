----------------------------- MODULE Container ------------------------------
(***************************************************************************)
(* The container of an application Pod: the entrypoint runs the migration  *)
(* if it is told to, starts tcpd and httpd once, in the background, and    *)
(* stays with nginx; the kubelet probes /api/health through nginx and      *)
(* httpd and starts the container again when it has ended or the probe     *)
(* keeps failing.  Each process loads its configuration by itself (module  *)
(* Configuration).                                                         *)
(***************************************************************************)
EXTENDS Configuration

CONSTANTS
  Files,       \* contents of config.json in the image
  Envs,        \* contents of the ConfigMap
  MaxFaults    \* bound: edits of the ConfigMap, dying processes, outages

ASSUME MaxFaultsAssumption == MaxFaults \in Nat

ASSUME FilesAssumption ==
  \A f \in Files \ {Unreadable} : f = [k \in Fields |-> f[k]]

\* An empty variable counts as Unset, and every string parses as one.
ASSUME EnvsAssumption ==
  \A e \in Envs :
    /\ e = [k \in Fields |-> e[k]]
    /\ \A k \in Strings : e[k] \notin {"", Malformed}

ASSUME MarksAssumption == {Unset, Malformed} \cap {"9000", "8081"} = {}

VARIABLES
  file,       \* config.json, part of the image
  configMap,
  env,        \* the container's environment, read when it starts
  migrate,    \* RUN_MIGRATION is true
  tables,     \* the databases in which the schema has been applied
  nginx,      \* the entrypoint: "migrating", or "up" while nginx runs
  tcpd,
  httpd,
  conf,       \* what tcpd and httpd loaded
  sessions,   \* tcpd: sessions and pictureCache # nil
  misses,     \* failed probes in a row
  mysqlUp,
  redisUp,
  faults

processes == <<nginx, tcpd, httpd, conf, sessions, misses>>
services == <<mysqlUp, redisUp, faults>>
image == <<file, migrate>>
vars == <<image, configMap, env, tables, processes, services>>

FailureThreshold == 3   \* the kubelet's default
Upstream == "8081"      \* proxy_pass of nginx.conf

Loaded == Load(file, Exported(env))

Configurations == {Load(f, Exported(e)) : f \in Files, e \in Envs} \ {Refused}
Databases == {c.dsn : c \in Configurations}

TypeOK ==
  /\ file \in Files
  /\ configMap \in Envs /\ env \in Envs
  /\ migrate \in BOOLEAN
  /\ tables \subseteq Databases
  /\ nginx \in {"down", "migrating", "up"}
  /\ tcpd \in {"off", "load", "pingDB", "pingRedis", "serving", "exited"}
  /\ httpd \in {"off", "load", "serving", "exited"}
  /\ conf \in [{"tcpd", "httpd"} -> Configurations \cup {Refused}]
  /\ {sessions, mysqlUp, redisUp} \subseteq BOOLEAN
  /\ misses \in 0 .. FailureThreshold - 1
  /\ faults \in 0 .. MaxFaults

NoConf == [tcpd |-> Refused, httpd |-> Refused]

Init ==
  /\ file \in Files
  /\ configMap \in Envs
  /\ env = configMap
  /\ migrate \in BOOLEAN
  /\ tables = {}
  /\ nginx = "down" /\ tcpd = "off" /\ httpd = "off"
  /\ conf = NoConf
  /\ sessions = FALSE
  /\ misses = 0
  /\ mysqlUp \in BOOLEAN
  /\ redisUp \in BOOLEAN
  /\ faults = 0

Fault ==
  /\ faults < MaxFaults
  /\ faults' = faults + 1

-----------------------------------------------------------------------------
(* The kubelet and the entrypoint.                                         *)

ProcessesStart == nginx' = "up" /\ tcpd' = "load" /\ httpd' = "load"

\* Mutant: the migration runs in the background, too.
StartContainerBackground ==
  /\ nginx = "down"
  /\ env' = configMap
  /\ ProcessesStart
  /\ UNCHANGED <<image, configMap, tables, conf, sessions, misses, services>>

StartContainer ==
  /\ nginx = "down"
  /\ env' = configMap
  /\ \/ /\ migrate
        /\ nginx' = "migrating"
        /\ UNCHANGED <<tcpd, httpd>>
     \/ /\ ~ migrate
        /\ ProcessesStart
  /\ UNCHANGED <<image, configMap, tables, conf, sessions, misses, services>>

\* Mutant: the failed probes are counted on over the restart.
EndedCounting ==
  /\ nginx' = "down" /\ tcpd' = "off" /\ httpd' = "off"
  /\ conf' = NoConf
  /\ sessions' = FALSE
  /\ misses' = misses + 1

\* nginx is the entrypoint's last command: all processes end with it.
Ended ==
  /\ nginx' = "down" /\ tcpd' = "off" /\ httpd' = "off"
  /\ conf' = NoConf
  /\ sessions' = FALSE
  /\ misses' = 0

\* cmd/migrate; under set -e its failure ends the script.
Migrate ==
  /\ nginx = "migrating"
  /\ \/ /\ Loaded # Refused /\ mysqlUp
        /\ tables' = tables \cup {Loaded.dsn}
        /\ ProcessesStart
        /\ UNCHANGED <<conf, sessions, misses>>
     \/ /\ Loaded = Refused \/ ~ mysqlUp
        /\ Ended
        /\ UNCHANGED tables
  /\ UNCHANGED <<image, configMap, env, services>>

\* GET /api/health reaches httpd, which answers without asking tcpd.
Healthy == httpd = "serving" /\ conf.httpd.httpAddr = Upstream

\* Mutant: nginx answers the probe by itself.
ProbeNginx ==
  /\ nginx = "up"
  /\ misses' = 0
  /\ UNCHANGED <<image, configMap, env, tables, nginx, tcpd, httpd, conf, sessions, services>>

\* The probes are seconds apart: httpd is not found loading three times in a row.
Probe ==
  /\ nginx = "up"
  /\ \/ /\ Healthy
        /\ misses' = 0
        /\ UNCHANGED <<nginx, tcpd, httpd, conf, sessions>>
     \/ /\ ~ Healthy /\ misses + 1 < FailureThreshold
        /\ misses' = misses + 1
        /\ UNCHANGED <<nginx, tcpd, httpd, conf, sessions>>
     \/ /\ ~ Healthy /\ misses + 1 = FailureThreshold
        /\ httpd # "load"
        /\ Ended
  /\ UNCHANGED <<image, configMap, env, tables, services>>

-----------------------------------------------------------------------------
(* main of httpd and of tcpd.                                              *)

HttpdLoads ==
  /\ httpd = "load"
  /\ conf' = [conf EXCEPT !.httpd = Loaded]
  /\ httpd' = IF Loaded = Refused THEN "exited" ELSE "serving"
  /\ UNCHANGED <<image, configMap, env, tables, nginx, tcpd, sessions, misses, services>>

TcpdLoads ==
  /\ tcpd = "load"
  /\ conf' = [conf EXCEPT !.tcpd = Loaded]
  /\ tcpd' = IF Loaded = Refused THEN "exited" ELSE "pingDB"
  /\ UNCHANGED <<image, configMap, env, tables, nginx, httpd, sessions, misses, services>>

TcpdPingsDB ==
  /\ tcpd = "pingDB"
  /\ tcpd' = IF mysqlUp THEN "pingRedis" ELSE "exited"
  /\ UNCHANGED <<image, configMap, env, tables, nginx, httpd, conf, sessions, misses, services>>

\* The ping of Redis, service.New, which wants a strong secret, and NewTCPServer,
\* where a negative queue size panics.
TcpdServes ==
  /\ tcpd = "pingRedis"
  /\ sessions' = (conf.tcpd.redis # "" /\ redisUp)
  /\ tcpd' = IF conf.tcpd.secret \in StrongSecrets /\ conf.tcpd.queue >= 0
             THEN "serving" ELSE "exited"
  /\ UNCHANGED <<image, configMap, env, tables, nginx, httpd, conf, misses, services>>

-----------------------------------------------------------------------------
(* What happens to them.                                                   *)

EditConfigMap ==
  /\ Fault
  /\ \E e \in Envs \ {configMap} : configMap' = e
  /\ UNCHANGED <<image, env, tables, processes, mysqlUp, redisUp>>

TcpdDies ==
  /\ tcpd \notin {"off", "exited"}
  /\ Fault
  /\ tcpd' = "exited"
  /\ UNCHANGED <<image, configMap, env, tables, nginx, httpd, conf, sessions, misses, mysqlUp, redisUp>>

HttpdDies ==
  /\ httpd \notin {"off", "exited"}
  /\ Fault
  /\ httpd' = "exited"
  /\ UNCHANGED <<image, configMap, env, tables, nginx, tcpd, conf, sessions, misses, mysqlUp, redisUp>>

NginxDies ==
  /\ nginx = "up"
  /\ Fault
  /\ Ended
  /\ UNCHANGED <<image, configMap, env, tables, mysqlUp, redisUp>>

ServiceChanges ==
  /\ Fault
  /\ \/ mysqlUp' = ~ mysqlUp /\ UNCHANGED redisUp
     \/ redisUp' = ~ redisUp /\ UNCHANGED mysqlUp
  /\ UNCHANGED <<image, configMap, env, tables, processes>>

Next ==
  \/ StartContainer \/ Migrate \/ Probe
  \/ HttpdLoads \/ TcpdLoads \/ TcpdPingsDB \/ TcpdServes
  \/ EditConfigMap \/ TcpdDies \/ HttpdDies \/ NginxDies \/ ServiceChanges

\* A process is done with its configuration, the script with the migration.
HttpdLeavesLoad == httpd = "load" /\ httpd' \in {"off", "serving", "exited"}
TcpdLeavesLoad == tcpd = "load" /\ tcpd' \in {"off", "pingDB", "exited"}
MigrateEnds == nginx = "migrating" /\ nginx' \in {"down", "up"}

\* The kubelet works and the processes run.
Spec ==
  /\ Init /\ [][Next]_vars
  /\ WF_vars(StartContainer) /\ WF_vars(Probe)
  /\ WF_nginx(MigrateEnds) /\ WF_httpd(HttpdLeavesLoad) /\ WF_tcpd(TcpdLeavesLoad)
  /\ WF_vars(TcpdPingsDB) /\ WF_vars(TcpdServes)

-----------------------------------------------------------------------------
(* Properties.                                                             *)

\* The value a field has by itself: environment before file before default.
Given(f) ==
  LET var == Exported(env)[f]
  IN  IF var \notin {Unset, Malformed} THEN var
      ELSE IF file[f] # Absent THEN file[f] ELSE Default[f]

\* A process that loaded its configuration has for each field the value that its
\* sources give it, except that a target, from whichever source, replaces the
\* database or Redis address that any other source names.
LoadsByPrecedence ==
  \A x \in {"tcpd", "httpd"} : conf[x] # Refused =>
    \A f \in Fields :
      conf[x][f] =
        IF f = "dsn" /\ Given("targetDB") # "" THEN Given("targetDB")
        ELSE IF f = "redis" /\ Given("targetRedis") # "" THEN Given("targetRedis")
        ELSE Given(f)

\* What config.json gives where the environment names no target.
FromImage(target, direct) ==
  IF file[target] \notin {Absent, ""} THEN file[target]
  ELSE IF file[direct] # Absent THEN file[direct] ELSE Default[direct]

\* With the environment that the operator renders, tcpd and httpd use the database
\* and the Redis that the CR names, whatever config.json the image brings along.
\* Where the CR's target is empty, setString skips it and the image decides: its
\* own target first.  The secret is the CR's in any case, httpd calls tcpd where
\* it listens, and nginx finds httpd.
OperatorDecides ==
  (env = DesiredConfigData(env.targetDB, env.targetRedis, env.secret) /\ env.secret # Unset) =>
    \A x, y \in {conf.tcpd, conf.httpd} \ {Refused} :
      /\ x.dsn = IF env.targetDB # Unset THEN env.targetDB ELSE FromImage("targetDB", "dsn")
      /\ x.redis = IF env.targetRedis # Unset THEN env.targetRedis
                   ELSE FromImage("targetRedis", "redis")
      /\ x.secret = env.secret
      /\ x.tcpAddr = y.httpTcpAddr
      /\ x.httpAddr = Upstream

\* With RUN_MIGRATION a tcpd that serves has the schema in the database it uses:
\* the script ends where the migration fails, as when MySQL is down, and a
\* container that starts again with another environment migrates once more.
ServesMigrated == migrate /\ tcpd = "serving" => conf.tcpd.dsn \in tables

\* The configurations that are refused or hide httpd from nginx.
Unreachable ==
  {x \in Files \X Envs :
     LET c == Load(x[1], Exported(x[2])) IN c = Refused \/ c.httpAddr # Upstream}

\* Once edits and faults rest, the gateway is up for good and tcpd serves or has
\* exited, unless the configuration is refused or hides httpd from nginx, or the
\* migration finds no MySQL.  Whatever ended nginx or httpd is repaired by the
\* kubelet; only a tcpd that exited, like one that found MySQL down when it
\* started, is left as it is.
Heals ==
  <>[]\/ <<file, env>> \in Unreachable
      \/ migrate /\ ~ mysqlUp
      \/ nginx = "up" /\ Healthy /\ tcpd \in {"serving", "exited"}
=============================================================================
