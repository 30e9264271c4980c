-------------------------- MODULE MCEntryOperator ---------------------------
(***************************************************************************)
(* Small instances of EntryOperator for TLC.                               *)
(***************************************************************************)
EXTENDS EntryOperator

S(c, i, n) == [config |-> c, image |-> i, replicas |-> n]

\* One spec, never edited.
OneSpec == {S(1, 1, 1)}
NoEdits == {}

\* A configuration is rolled out and, with Reverts, taken back.
TwoConfigs == {S(1, 1, 1), S(2, 1, 1)}
Upwards == {e \in Specs \X Specs : e[1].config < e[2].config}
Reverts == {e \in Specs \X Specs : e[1] # e[2]}

\* The replica count goes up and down.
TwoScales == {S(1, 1, 1), S(1, 1, 2)}
=============================================================================
