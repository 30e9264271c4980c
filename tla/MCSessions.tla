----------------------------- MODULE MCSessions -----------------------------
(* Instances of Sessions for TLC.                                          *)
EXTENDS Sessions, TLC

SessionSymmetry == Permutations(Pods) \cup Permutations(Tokens)
=============================================================================
