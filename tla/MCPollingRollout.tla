-------------------------- MODULE MCPollingRollout --------------------------
(***************************************************************************)
(* A small instance of PollingRollout for TLC: configuration and replica   *)
(* count are replaced, directly or by way of a spec that parseSpec refuses. *)
(***************************************************************************)
EXTENDS PollingRollout

S(c, i, n) == [config |-> c, image |-> i, replicas |-> n]

Refused == {S(2, 1, 1)}
ThreeSpecs == {S(1, 1, 1), S(3, 1, 2)} \cup Refused
Onwards == {e \in Specs \X Specs : e[1] # e[2] /\ e[1].config <= e[2].config}
=============================================================================
