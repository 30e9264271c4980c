---------------------------- MODULE MCTcpServer -----------------------------
(* TcpServer for TLC.  The configuration gives model values to calls and   *)
(* workers; they are not declared symmetric, since liveness is checked.    *)
EXTENDS TcpServer
=============================================================================
