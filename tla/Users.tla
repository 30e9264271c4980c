------------------------------- MODULE Users --------------------------------
(***************************************************************************)
(* The users table as the seed command and the nickname handler use it: a  *)
(* nickname per user.  A user is known by the number in the name user%08d, *)
(* which is unique, so two INSERTs of the same number meet in one row.     *)
(***************************************************************************)
EXTENDS Naturals

CONSTANTS
  Count,    \* users to seed
  NoUser    \* "no such row"

VARIABLE users   \* per number, the nickname in the row

Ids == 1 .. Count

\* The nickname makeUsers gives.
SeedNickname(u) == u

ASSUME CountAssumption == Count \in Nat
ASSUME NoUserAssumption == NoUser \notin Ids

UsersInit == users = [u \in Ids |-> NoUser]

\* Mutants are wrong versions of the definition that follows them; no
\* specification uses them.

\* Mutant: ON DUPLICATE KEY UPDATE nickname = VALUES(nickname).
InsertedOver(batch) ==
  [u \in Ids |-> IF u \in batch THEN SeedNickname(u) ELSE users[u]]

\* INSERT ... ON DUPLICATE KEY UPDATE username = username: one statement, which
\* leaves a row that exists as it is.
Inserted(batch) ==
  [u \in Ids |-> IF u \in batch /\ users[u] = NoUser THEN SeedNickname(u) ELSE users[u]]

\* RowsAffected of UPDATE users SET nickname = n WHERE id = u is not 0: MySQL
\* counts the rows it changed, not the rows it found.
Affected(u, n) == users[u] \notin {NoUser, n}

UpdatedNickname(u, n) ==
  IF users[u] = NoUser THEN users ELSE [users EXCEPT ![u] = n]
=============================================================================
