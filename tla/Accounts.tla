------------------------------ MODULE Accounts ------------------------------
(***************************************************************************)
(* Seeding and nickname updates on the same users table: the seed command  *)
(* may be run again while users change their nicknames.                    *)
(***************************************************************************)
EXTENDS Seeding, Nicknames

vars == <<users, seedVars, nicknameVars>>

TypeOK ==
  /\ users \in [Ids -> Ids \cup Names \cup {NoUser}]
  /\ SeedTypeOK
  /\ NicknameTypeOK

Init == UsersInit /\ SeedInit /\ NicknameInit

SeedStep == SeedSteps /\ UNCHANGED nicknameVars

Next ==
  \/ StartSeed /\ UNCHANGED nicknameVars
  \/ SeedStep
  \/ NicknameNext /\ UNCHANGED seedVars

\* The goroutines of a run are scheduled; nobody has to start one.
Spec == Init /\ [][Next]_vars /\ WF_vars(SeedStep)
=============================================================================
