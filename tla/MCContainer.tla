---------------------------- MODULE MCContainer -----------------------------
(***************************************************************************)
(* An instance of Container for TLC: images with and without targets and   *)
(* addresses of their own, and ConfigMaps as the operator writes them, for *)
(* CRs with and without targets, as somebody else might, and empty.        *)
(***************************************************************************)
EXTENDS Container, TLC

NoKeys == [f \in Fields |-> Absent]
NoVars == [f \in Fields |-> Unset]

Images ==
  {Unreadable, NoKeys,
   [NoKeys EXCEPT !.dsn = "fileDSN", !.targetRedis = "fileRedis", !.secret = "weak",
                  !.tcpAddr = "7000"],
   [NoKeys EXCEPT !.dsn = "fileDSN", !.targetDB = "fileDB", !.queue = -1]}

ConfigMaps ==
  {DesiredConfigData(t[1], t[2], "strong") :
     t \in {<<"crDB", "crRedis">>, <<"crDB", Unset>>, <<Unset, "crRedis">>}}
  \cup {NoVars,
        [NoVars EXCEPT !.dsn = "envDSN", !.redis = "envRedis", !.secret = "strong",
                       !.httpAddr = "7081"],
        [NoVars EXCEPT !.dsn = "envDSN", !.secret = "strong", !.queue = Malformed,
                       !.maxFrame = 1600]}
=============================================================================
