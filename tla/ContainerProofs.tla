-------------------------- MODULE ContainerProofs ---------------------------
(***************************************************************************)
(* Proofs about Container, for any contents of config.json and of the      *)
(* ConfigMap.                                                              *)
(*                                                                         *)
(* The argument: what a process has loaded is what it would load again, as *)
(* file and environment stay while the container runs and nothing is       *)
(* loaded before it starts; the rest is about Load, and about the script,  *)
(* which starts tcpd only after the migration of the database that both    *)
(* read from the same environment.                                         *)
(***************************************************************************)
EXTENDS Container, TLAPS

\* The prover of the steps that name no other.
USE ZenonT(40)

\* Before the processes start there are none, and nothing is loaded.
ScriptInv == nginx # "up" => tcpd = "off" /\ httpd = "off" /\ conf = NoConf

\* What a process loaded is what it would load now.
LoadedInv ==
  /\ \A x \in {"tcpd", "httpd"} : conf[x] \in {Refused, Loaded}
  /\ tcpd \in {"pingDB", "pingRedis", "serving"} => conf.tcpd = Loaded /\ Loaded # Refused

\* The processes start after the migration.
MigratedInv == migrate /\ nginx = "up" => Loaded # Refused /\ Loaded.dsn \in tables

\* The inductive invariant.
IInv == TypeOK /\ ScriptInv /\ LoadedInv /\ MigratedInv

-----------------------------------------------------------------------------
(* What Load computes.                                                     *)

\* With configurations as functions on the fields, the value of each.
LEMMA LoadFields ==
  ASSUME file \in Files, env \in Envs, Loaded # Refused
  PROVE  /\ Validate(Loaded)
         /\ \A f \in Fields :
              Loaded[f] =
                IF f = "dsn" /\ Given("targetDB") # "" THEN Given("targetDB")
                ELSE IF f = "redis" /\ Given("targetRedis") # "" THEN Given("targetRedis")
                ELSE Given(f)
<1>1. /\ file # Unreadable
      /\ file = [k \in Fields |-> file[k]]
  BY FilesAssumption DEF Loaded, Load
<1>2. /\ env = [k \in Fields |-> env[k]]
      /\ \A k \in Strings : env[k] \notin {"", Malformed}
  BY EnvsAssumption
<1>. DEFINE var == Exported(env)
            m == Merged(file)
            d == ApplyDBCP(m)
            e == [f \in Fields |-> Set(d[f], var[f])]
<1>3. Loaded = ApplyDBCP(e) /\ Validate(Loaded)
  BY <1>1 DEF Loaded, Load, ApplyEnv
<1>4. \A f \in Fields : Given(f) = Set(m[f], var[f])
  BY DEF Given, Set, Merged
<1>5. /\ m = [f \in Fields |-> m[f]]
      /\ {"targetDB", "targetRedis", "dsn", "redis"} \subseteq Fields
  BY DEF Merged, Fields, Strings
<1>6. \A f \in Fields :
        d[f] = IF f = "dsn" /\ m["targetDB"] # "" THEN m["targetDB"]
               ELSE IF f = "redis" /\ m["targetRedis"] # "" THEN m["targetRedis"]
               ELSE m[f]
  <2>. HIDE DEF m
  <2>. QED
    BY <1>5 DEF ApplyDBCP
<1>7. \A f \in Fields :
        ApplyDBCP(e)[f] = IF f = "dsn" /\ e["targetDB"] # "" THEN e["targetDB"]
                          ELSE IF f = "redis" /\ e["targetRedis"] # "" THEN e["targetRedis"]
                          ELSE e[f]
  <2>1. e = [f \in Fields |-> e[f]]
    OBVIOUS
  <2>. HIDE DEF e
  <2>. QED
    BY <1>5, <2>1 DEF ApplyDBCP
<1>8. \A f \in {"targetDB", "targetRedis"} : var[f] # "" /\ e[f] = Given(f)
  BY <1>2, <1>4, <1>5, <1>6 DEF Exported, Strings
<1>9. \A f \in Fields : e[f] = IF d[f] = m[f] THEN Given(f) ELSE Set(d[f], var[f])
  BY <1>4
<1>10. /\ Given("targetDB") = "" => m["targetDB"] = ""
       /\ Given("targetRedis") = "" => m["targetRedis"] = ""
  BY <1>4, <1>5, <1>8 DEF Set
<1>. HIDE DEF var, m, d, e
<1>. QED
  BY <1>3, <1>5, <1>6, <1>7, <1>8, <1>9, <1>10

LEMMA LoadedTyped ==
  ASSUME file \in Files, env \in Envs
  PROVE  /\ Loaded \in Configurations \cup {Refused}
         /\ Loaded # Refused => Loaded.dsn \in Databases
  BY SMTT(20) DEF Loaded, Configurations, Databases

-----------------------------------------------------------------------------
(* The inductive invariant.                                                *)

LEMMA InitIInv == Init => IInv
<1>. SUFFICES ASSUME Init PROVE IInv
  OBVIOUS
<1>0. {sessions, mysqlUp, redisUp} \subseteq BOOLEAN
  BY DEF Init
<1>1. conf \in [{"tcpd", "httpd"} -> {Refused}]
  BY SMTT(20) DEF Init, NoConf
<1>2. TypeOK
  BY <1>0, <1>1, MaxFaultsAssumption, SMTT(20) DEF Init, TypeOK, FailureThreshold
<1>3. ScriptInv /\ LoadedInv /\ MigratedInv
  BY <1>1 DEF Init, ScriptInv, LoadedInv, MigratedInv
<1>. QED
  BY <1>2, <1>3 DEF IInv

\* The container starts, from nothing, with the ConfigMap as it is.
LEMMA StartKeeps == IInv /\ StartContainer => IInv'
<1>. SUFFICES ASSUME IInv, StartContainer PROVE IInv'
  OBVIOUS
<1>. USE DEF IInv, StartContainer, ProcessesStart, image, services
<1>1. tcpd = "off" /\ httpd = "off" /\ conf = NoConf /\ conf' = NoConf
  BY DEF ScriptInv
<1>2. TypeOK'
  BY DEF TypeOK
<1>3. ScriptInv'
  BY <1>1 DEF ScriptInv, NoConf
<1>4. LoadedInv'
  BY <1>1 DEF LoadedInv, NoConf
<1>5. MigratedInv'
  BY DEF MigratedInv
<1>. QED
  BY <1>2, <1>3, <1>4, <1>5

\* All processes end.
LEMMA EndKeeps ==
  ASSUME IInv, Ended, UNCHANGED <<image, configMap, env, tables, mysqlUp, redisUp>>,
         faults' \in 0 .. MaxFaults
  PROVE  IInv'
<1>. USE DEF IInv, Ended, image
<1>0. {sessions', mysqlUp', redisUp'} \subseteq BOOLEAN
  BY DEF TypeOK
<1>a. conf' \in [{"tcpd", "httpd"} -> {Refused}]
  BY SMTT(20) DEF NoConf
<1>1. TypeOK'
  BY <1>0, <1>a, SMTT(20) DEF TypeOK, FailureThreshold
<1>2. ScriptInv' /\ MigratedInv'
  BY DEF ScriptInv, MigratedInv, NoConf
<1>3. LoadedInv'
  BY SMTT(20) DEF LoadedInv, NoConf
<1>. QED
  BY <1>1, <1>2, <1>3

LEMMA MigrateKeeps == IInv /\ Migrate => IInv'
<1>. SUFFICES ASSUME IInv, Migrate PROVE IInv'
  OBVIOUS
<1>1. CASE Ended /\ UNCHANGED tables
  BY <1>1, EndKeeps DEF IInv, TypeOK, Migrate, services
<1>2. CASE Loaded # Refused /\ tables' = tables \cup {Loaded.dsn} /\ ProcessesStart
           /\ UNCHANGED <<conf, sessions, misses>>
  <2>. USE <1>2 DEF IInv, Migrate, ProcessesStart, image, services
  <2>1. Loaded' = Loaded
    BY DEF Loaded
  <2>2. TypeOK'
    BY LoadedTyped DEF TypeOK
  <2>3. ScriptInv'
    BY DEF ScriptInv
  <2>4. LoadedInv'
    BY <2>1 DEF LoadedInv
  <2>5. MigratedInv'
    BY <2>1 DEF MigratedInv
  <2>. QED
    BY <2>2, <2>3, <2>4, <2>5
<1>. QED
  BY <1>1, <1>2 DEF Migrate

LEMMA ProbeKeeps == IInv /\ Probe => IInv'
<1>. SUFFICES ASSUME IInv, Probe PROVE IInv'
  OBVIOUS
<1>1. CASE Ended
  BY <1>1, EndKeeps DEF IInv, TypeOK, Probe, services
<1>2. CASE misses' \in 0 .. FailureThreshold - 1 /\ UNCHANGED <<nginx, tcpd, httpd, conf, sessions>>
  <2>. USE <1>2 DEF IInv, Probe, image, services
  <2>1. Loaded' = Loaded
    BY DEF Loaded
  <2>2. TypeOK'
    BY DEF TypeOK
  <2>3. ScriptInv' /\ LoadedInv' /\ MigratedInv'
    BY <2>1 DEF ScriptInv, LoadedInv, MigratedInv
  <2>. QED
    BY <2>2, <2>3
<1>. QED
  BY <1>1, <1>2, SMTT(20) DEF IInv, TypeOK, Probe, FailureThreshold

\* The processes go on, or die, in a container that runs.
LEMMA ProcessKeeps ==
  ASSUME IInv, nginx = "up", UNCHANGED <<image, configMap, env, tables, nginx, misses, mysqlUp, redisUp>>,
         httpd' \in {"serving", "exited", httpd}, sessions' \in BOOLEAN, faults' \in 0 .. MaxFaults,
         \/ UNCHANGED conf
         \/ conf' = [conf EXCEPT !.httpd = Loaded]
         \/ conf' = [conf EXCEPT !.tcpd = Loaded],
         \/ tcpd' \in {"exited", tcpd}
         \/ tcpd' \in {"pingDB", "pingRedis", "serving"} /\ conf'.tcpd = Loaded /\ Loaded # Refused
  PROVE  IInv'
<1>. USE DEF IInv, image
<1>1. Loaded' = Loaded
  BY DEF Loaded
<1>2. conf' \in [{"tcpd", "httpd"} -> {Refused, Loaded}]
  BY DEF TypeOK, LoadedInv
<1>3. TypeOK'
  BY <1>2, LoadedTyped DEF TypeOK
<1>4. ScriptInv' /\ MigratedInv'
  BY <1>1 DEF ScriptInv, MigratedInv
<1>5. tcpd' \in {"pingDB", "pingRedis", "serving"} => conf'.tcpd = Loaded /\ Loaded # Refused
  BY DEF TypeOK, LoadedInv
<1>6. LoadedInv'
  BY <1>1, <1>2, <1>5 DEF LoadedInv
<1>. QED
  BY <1>3, <1>4, <1>6

\* The world outside the container changes.
LEMMA OutsideKeeps ==
  ASSUME IInv, configMap' \in Envs, {mysqlUp', redisUp'} \subseteq BOOLEAN, faults' \in 0 .. MaxFaults,
         UNCHANGED <<image, env, tables, processes>>
  PROVE  IInv'
<1>. USE DEF IInv, image, processes
<1>1. Loaded' = Loaded
  BY DEF Loaded
<1>2. TypeOK'
  BY DEF TypeOK
<1>3. ScriptInv' /\ LoadedInv' /\ MigratedInv'
  BY <1>1 DEF ScriptInv, LoadedInv, MigratedInv
<1>. QED
  BY <1>2, <1>3

LEMMA StepIInv == IInv /\ [Next]_vars => IInv'
<1>. SUFFICES ASSUME IInv, [Next]_vars PROVE IInv'
  OBVIOUS
<1>0. /\ Fault \/ faults' = faults => faults' \in 0 .. MaxFaults
      /\ nginx # "up" => tcpd = "off" /\ httpd = "off"
      /\ sessions \in BOOLEAN
  BY MaxFaultsAssumption, SMTT(20) DEF Fault, IInv, TypeOK, ScriptInv
<1>1. CASE StartContainer \/ Migrate \/ Probe
  BY <1>1, StartKeeps, MigrateKeeps, ProbeKeeps
<1>2. CASE HttpdLoads
  BY <1>0, <1>2, ProcessKeeps DEF HttpdLoads, services
<1>3. CASE TcpdLoads
  <2>1. conf'.tcpd = Loaded
    BY <1>3 DEF TcpdLoads, IInv, TypeOK
  <2>. QED
    BY <1>0, <1>3, <2>1, ProcessKeeps DEF TcpdLoads, services
<1>4. CASE TcpdPingsDB
  BY <1>0, <1>4, ProcessKeeps DEF TcpdPingsDB, services, IInv, LoadedInv
<1>5. CASE TcpdServes
  <2>1. sessions' \in BOOLEAN
    BY <1>5 DEF TcpdServes
  <2>. QED
    BY <1>0, <1>5, <2>1, ProcessKeeps DEF TcpdServes, services, IInv, LoadedInv
<1>6. CASE EditConfigMap
  <2>1. configMap' \in Envs /\ {mysqlUp', redisUp'} \subseteq BOOLEAN
    BY <1>6 DEF EditConfigMap, IInv, TypeOK
  <2>. QED
    BY <1>0, <1>6, <2>1, OutsideKeeps DEF EditConfigMap
<1>7. CASE TcpdDies \/ HttpdDies
  BY <1>0, <1>7, ProcessKeeps DEF TcpdDies, HttpdDies
<1>8. CASE NginxDies
  BY <1>0, <1>8, EndKeeps DEF NginxDies
<1>9. CASE ServiceChanges
  <2>1. configMap' \in Envs /\ {mysqlUp', redisUp'} \subseteq BOOLEAN
    BY <1>9 DEF ServiceChanges, IInv, TypeOK
  <2>. QED
    BY <1>0, <1>9, <2>1, OutsideKeeps DEF ServiceChanges
<1>10. CASE UNCHANGED vars
  <2>1. configMap' \in Envs /\ {mysqlUp', redisUp'} \subseteq BOOLEAN
    BY <1>10 DEF vars, services, IInv, TypeOK
  <2>. QED
    BY <1>0, <1>10, <2>1, OutsideKeeps DEF vars, services
<1>. QED
  BY <1>1, <1>2, <1>3, <1>4, <1>5, <1>6, <1>7, <1>8, <1>9, <1>10 DEF Next

-----------------------------------------------------------------------------
(* Theorems.                                                               *)

\* The inductive invariant holds of every behaviour.
THEOREM Invariance == Spec => []IInv
  BY InitIInv, StepIInv, PTL DEF Spec

\* The state stays well typed: a container that starts again has no failed probes
\* and no schema is applied to a database that no configuration names.
THEOREM TypeCorrect == Spec => []TypeOK
<1>1. IInv => TypeOK
  BY DEF IInv
<1>. QED
  BY Invariance, <1>1, PTL

\* For every config.json and every environment, each field of what tcpd and httpd
\* loaded has the value that the precedence of the sources gives it.
THEOREM LoadedByPrecedence == Spec => []LoadsByPrecedence
<1>1. IInv => LoadsByPrecedence
  <2>. SUFFICES ASSUME IInv, NEW x \in {"tcpd", "httpd"}, conf[x] # Refused
                PROVE  \A f \in Fields :
                         conf[x][f] =
                           IF f = "dsn" /\ Given("targetDB") # "" THEN Given("targetDB")
                           ELSE IF f = "redis" /\ Given("targetRedis") # "" THEN Given("targetRedis")
                           ELSE Given(f)
    BY DEF LoadsByPrecedence
  <2>1. conf[x] = Loaded /\ Loaded # Refused /\ file \in Files /\ env \in Envs
    BY DEF IInv, LoadedInv, TypeOK
  <2>. QED
    BY <2>1, LoadFields
<1>. QED
  BY Invariance, <1>1, PTL

\* With the environment the operator renders, for every CR, its empty targets
\* included, and every config.json in the image: the processes use what the CR
\* names, and for a target that it leaves empty what the image's file gives.
THEOREM OperatorAlwaysDecides == Spec => []OperatorDecides
<1>1. IInv => OperatorDecides
  <2>. SUFFICES ASSUME IInv, env = DesiredConfigData(env.targetDB, env.targetRedis, env.secret),
                       env.secret # Unset,
                       NEW x \in {conf.tcpd, conf.httpd} \ {Refused},
                       NEW y \in {conf.tcpd, conf.httpd} \ {Refused}
                PROVE  /\ x.dsn = IF env.targetDB # Unset THEN env.targetDB
                                  ELSE FromImage("targetDB", "dsn")
                       /\ x.redis = IF env.targetRedis # Unset THEN env.targetRedis
                                    ELSE FromImage("targetRedis", "redis")
                       /\ x.secret = env.secret
                       /\ x.tcpAddr = y.httpTcpAddr
                       /\ x.httpAddr = Upstream
    BY DEF OperatorDecides
  <2>1. x = Loaded /\ y = Loaded /\ Loaded # Refused /\ file \in Files /\ env \in Envs
    BY DEF IInv, LoadedInv, TypeOK
  <2>2. /\ env.tcpAddr = "9000" /\ env.httpAddr = "8081" /\ env.httpTcpAddr = "9000"
        /\ env.dsn = Unset /\ env.redis = Unset
    BY SMTT(20) DEF DesiredConfigData
  <2>3. {"targetDB", "targetRedis", "dsn", "redis", "secret", "tcpAddr", "httpAddr", "httpTcpAddr"}
          \subseteq Strings
    BY DEF Strings
  <2>4. env = [k \in Fields |-> env[k]] /\ \A k \in Strings : env[k] \notin {"", Malformed}
    BY <2>1, EnvsAssumption
  <2>5. \A k \in {"targetDB", "targetRedis", "dsn", "redis", "secret"} : Exported(env)[k] = env[k]
    BY <2>3, <2>4 DEF Exported, Fields
  <2>6. /\ Exported(env)["tcpAddr"] = "9000" /\ Exported(env)["httpAddr"] = "8081"
        /\ Exported(env)["httpTcpAddr"] = "9000"
    BY <2>2, <2>3, <2>4 DEF Exported, Fields, Set
  <2>7. /\ Given("secret") = env.secret
        /\ Given("tcpAddr") = "9000" /\ Given("httpAddr") = "8081" /\ Given("httpTcpAddr") = "9000"
    BY <2>3, <2>4, <2>5, <2>6, MarksAssumption, SMTT(20), ZenonT(40) DEF Given
  <2>8. \A f \in {"targetDB", "targetRedis"} :
          /\ env[f] # ""
          /\ Given(f) = IF env[f] # Unset THEN env[f]
                        ELSE IF file[f] # Absent THEN file[f] ELSE ""
    <3>1. Default.targetDB = "" /\ Default.targetRedis = ""
      BY SMTT(20) DEF Default
    <3>. QED
      BY <2>3, <2>4, <2>5, <3>1 DEF Given
  <2>9. \A f \in {"dsn", "redis"} :
          Given(f) = IF file[f] # Absent THEN file[f] ELSE Default[f]
    BY <2>2, <2>5 DEF Given
  <2>10. \A f \in {"dsn", "redis", "secret", "tcpAddr", "httpAddr", "httpTcpAddr"} :
           Loaded[f] = IF f = "dsn" /\ Given("targetDB") # "" THEN Given("targetDB")
                       ELSE IF f = "redis" /\ Given("targetRedis") # "" THEN Given("targetRedis")
                       ELSE Given(f)
    BY <2>1, LoadFields DEF Fields, Strings
  <2>11. Loaded.dsn = IF env.targetDB # Unset THEN env.targetDB ELSE FromImage("targetDB", "dsn")
    BY <2>8, <2>9, <2>10 DEF FromImage
  <2>12. Loaded.redis = IF env.targetRedis # Unset THEN env.targetRedis
                        ELSE FromImage("targetRedis", "redis")
    BY <2>8, <2>9, <2>10 DEF FromImage
  <2>. QED
    BY <2>1, <2>7, <2>10, <2>11, <2>12 DEF Upstream
<1>. QED
  BY Invariance, <1>1, PTL

\* With RUN_MIGRATION, tcpd serves only on a database that has the schema.
THEOREM AlwaysServesMigrated == Spec => []ServesMigrated
<1>1. IInv => ServesMigrated
  <2>. SUFFICES ASSUME IInv, migrate, tcpd = "serving" PROVE conf.tcpd.dsn \in tables
    BY DEF ServesMigrated
  <2>1. nginx = "up"
    BY DEF IInv, ScriptInv
  <2>. QED
    BY <2>1 DEF IInv, LoadedInv, MigratedInv
<1>. QED
  BY Invariance, <1>1, PTL
=============================================================================
