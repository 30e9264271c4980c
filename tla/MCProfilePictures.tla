------------------------- MODULE MCProfilePictures --------------------------
(* Instances of ProfilePictures for TLC.                                   *)
EXTENDS ProfilePictures, TLC

PictureSymmetry == Permutations(Pods) \cup Permutations(Uploaders) \cup Permutations(Readers)
=============================================================================
