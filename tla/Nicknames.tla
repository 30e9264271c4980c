----------------------------- MODULE Nicknames ------------------------------
(***************************************************************************)
(* PUT /api/me/nickname, from the gateway's answer down to the row: the    *)
(* gateway calls the backend with the guarantees of RemoteCall (TcpServer  *)
(* implements them), the backend runs UpdateNickname, and the gateway turns *)
(* the outcome into a status.  One user, as rows of different users have   *)
(* nothing in common, with several browser tabs whose requests overlap; a  *)
(* request is used once.                                                   *)
(***************************************************************************)
EXTENDS Users

CONSTANTS
  Requests,
  Self,            \* the user
  Names,           \* nicknames that the service and the column take
  Blank,           \* empty after TrimSpace, not UTF-8 or above maxNicknameBytes
  Wide,            \* within maxNicknameBytes, with too many characters for VARCHAR(191)
  MaxUpdateFaults  \* bound: failed statements and session lookups

ASSUME NamesAssumption ==
  /\ NoUser \notin Names \cup {Blank, Wide}
  /\ Blank # Wide /\ {Blank, Wide} \cap (Names \cup Ids) = {}
ASSUME SelfAssumption == Self \in Ids
ASSUME UpdateFaultsAssumption == MaxUpdateFaults \in Nat

VARIABLES
  outcome, runs,   \* of RemoteCall
  req,             \* per request: the backend's pc, its nickname and code,
                   \* the gateway's status, and the requests that were over when
                   \* it began
  changed,         \* requests whose UPDATE changed a row
  late,            \* requests whose UPDATE MySQL may still carry out, although
                   \* the backend has taken it for failed
  updateFaults

nicknameVars == <<outcome, runs, req, changed, late, updateFaults>>

Call == INSTANCE RemoteCall WITH Calls <- Requests

Codes == {"none", "ok", "unauthorized", "invalid_nickname", "not_found",
          "server_busy", "internal_error"}

\* Mutants are wrong versions of the definition that follows them; no
\* specification uses them.

\* statusFor, for the codes that ErrorCode yields here.
StatusFor(code) ==
  CASE code = "unauthorized"     -> 401
    [] code = "not_found"        -> 404
    [] code = "server_busy"      -> 429
    [] code = "invalid_nickname" -> 400
    [] OTHER                     -> 500

Pending == 0   \* no status yet
Statuses == {Pending, 200, 400, 401, 404, 429, 500, 502}

Locals == [pc : {"new", "sent", "select", "coded"}, ask : Names \cup Ids \cup {Blank, Wide},
           code : Codes, status : Statuses, before : SUBSET Requests]

NicknameTypeOK ==
  /\ outcome \in [Requests -> {"idle", "pending", "answered", "refused", "lost"}]
  /\ runs \in [Requests -> 0 .. 1]
  /\ req \in [Requests -> Locals]
  /\ changed \subseteq Requests /\ late \subseteq Requests
  /\ updateFaults \in 0 .. MaxUpdateFaults

NicknameInit ==
  /\ Call!Init
  /\ req = [r \in Requests |-> [pc |-> "new", ask |-> Blank, code |-> "none",
                                status |-> Pending, before |-> {}]]
  /\ changed = {} /\ late = {}
  /\ updateFaults = 0

UpdateFault ==
  /\ updateFaults < MaxUpdateFaults
  /\ updateFaults' = updateFaults + 1

Respond(r, status) == req' = [req EXCEPT ![r].status = status]
Code(r, code) == req' = [req EXCEPT ![r].pc = "coded", ![r].code = code]

\* A request is over when it has been answered and no part of it runs any more.
\* One that ended in 502 may still be executed.
Over == {q \in Requests : req[q].status \notin {Pending, 502} /\ q \notin late}

-----------------------------------------------------------------------------
(* The gateway.                                                            *)

\* No cookie, or a body that decodeJSON refuses: the backend is not called.
Reject(r) ==
  /\ outcome[r] = "idle" /\ req[r].status = Pending
  /\ \E status \in {400, 401} : Respond(r, status)
  /\ UNCHANGED <<users, outcome, runs, changed, late, updateFaults>>

\* The user, who is in the table, sends a nickname: one of the other names, or the one the
\* form showed, which is the nickname in the row.
Send(r) ==
  /\ req[r].status = Pending
  /\ Call!Start(r)
  /\ users[Self] # NoUser
  /\ \E n \in Names \cup {Blank, Wide, users[Self]} :
       req' = [req EXCEPT ![r].pc = "sent", ![r].ask = n, ![r].before = Over]
  /\ UNCHANGED <<users, changed, late, updateFaults>>

Answered(r) ==
  /\ req[r].pc = "coded"
  /\ Call!Answer(r)
  /\ Respond(r, IF req[r].code = "ok" THEN 200 ELSE StatusFor(req[r].code))
  /\ UNCHANGED <<users, changed, late, updateFaults>>

Busy(r) ==
  /\ Call!Refuse(r)
  /\ Respond(r, StatusFor("server_busy"))
  /\ UNCHANGED <<users, changed, late, updateFaults>>

\* Mutant: a call that was sent once is reported as not carried out.
UnavailableBusy(r) ==
  /\ req[r].status = Pending
  /\ Call!Lose(r)
  /\ Respond(r, IF outcome[r] = "idle" THEN 502 ELSE 429)
  /\ UNCHANGED <<users, changed, late, updateFaults>>

\* Dialling fails, the deadline passes or the connection breaks.
Unavailable(r) ==
  /\ req[r].status = Pending
  /\ Call!Lose(r)
  /\ Respond(r, 502)
  /\ UNCHANGED <<users, changed, late, updateFaults>>

-----------------------------------------------------------------------------
(* The backend.                                                            *)

\* requireUser fails.
Unauthorized(r) ==
  /\ req[r].pc = "sent"
  /\ Call!Execute(r)
  /\ \/ Code(r, "unauthorized") /\ UNCHANGED updateFaults
     \/ Code(r, "internal_error") /\ UpdateFault
  /\ UNCHANGED <<users, changed, late>>

\* The service refuses the nickname, or MySQL in its strict mode does.
Invalid(r) ==
  /\ req[r].pc = "sent"
  /\ req[r].ask \in {Blank, Wide}
  /\ Call!Execute(r)
  /\ Code(r, IF req[r].ask = Blank THEN "invalid_nickname" ELSE "internal_error")
  /\ UNCHANGED <<users, changed, late, updateFaults>>

UpdateNickname(r) ==
  /\ req[r].pc = "sent"
  /\ req[r].ask \notin {Blank, Wide}
  /\ Call!Execute(r)
  /\ \/ /\ Affected(Self, req[r].ask)
        /\ users' = UpdatedNickname(Self, req[r].ask)
        /\ changed' = changed \cup {r}
        /\ req' = [req EXCEPT ![r].pc = "select"]
     \/ /\ ~ Affected(Self, req[r].ask)
        /\ Code(r, "not_found")
        /\ UNCHANGED <<users, changed>>
  /\ UNCHANGED <<late, updateFaults>>

\* The statement fails, or only its answer is lost, before MySQL carries it out
\* or after.
UpdateFails(r) ==
  /\ req[r].pc = "sent"
  /\ req[r].ask \notin {Blank, Wide}
  /\ Call!Execute(r)
  /\ UpdateFault
  /\ Code(r, "internal_error")
  /\ \/ /\ Affected(Self, req[r].ask)
        /\ users' = UpdatedNickname(Self, req[r].ask)
        /\ changed' = changed \cup {r}
        /\ UNCHANGED late
     \/ UNCHANGED <<users, changed, late>>
     \/ late' = late \cup {r} /\ UNCHANGED <<users, changed>>

\* MySQL carries out a statement that the backend has given up.
UpdateLate(r) ==
  /\ r \in late
  /\ late' = late \ {r}
  /\ \/ /\ Affected(Self, req[r].ask)
        /\ users' = UpdatedNickname(Self, req[r].ask)
        /\ changed' = changed \cup {r}
     \/ /\ ~ Affected(Self, req[r].ask)
        /\ UNCHANGED <<users, changed>>
  /\ UNCHANGED <<outcome, runs, req, updateFaults>>

\* GetUserProfileByID, a statement of its own.
SelectProfile(r) ==
  /\ req[r].pc = "select"
  /\ \/ Code(r, "ok") /\ UNCHANGED updateFaults
     \/ Code(r, "internal_error") /\ UpdateFault
  /\ UNCHANGED <<users, outcome, runs, changed, late>>

NicknameNext ==
  \E r \in Requests :
    \/ Reject(r) \/ Send(r) \/ Answered(r) \/ Busy(r) \/ Unavailable(r)
    \/ Unauthorized(r) \/ Invalid(r) \/ UpdateNickname(r) \/ UpdateFails(r)
    \/ UpdateLate(r) \/ SelectProfile(r)

-----------------------------------------------------------------------------
(* Properties.                                                             *)

\* 404 is what an update that changed nothing is answered with.
Conclusive(q) == req[q].status \in {200, 404}

\* The nickname in the row was asked for by an update that no later one replaced:
\* when an update is answered with 200 or 404, nothing but itself, updates that
\* overlapped it, updates that ended in 502 and updates that ended in 500 with
\* their statement still on its way to MySQL is behind the row any more.  A retry
\* of an update that had been carried out, answered with 404, counts.
LatestUpdateWins ==
  users[Self] # NoUser =>
    \/ /\ users[Self] = SeedNickname(Self)
       /\ \A q \in Requests : ~ Conclusive(q)
    \/ \E r \in {q \in Requests : q \in changed \/ Conclusive(q)} :
         /\ req[r].ask = users[Self]
         /\ \A q \in Requests : Conclusive(q) => r \notin req[q].before

\* An update answered with 400, 401 or 429 has not changed the row and never
\* will: those statuses tell the browser that nothing happened, and only 500 and
\* 502 leave it open.
RefusedNeverStored ==
  \A r \in changed : req[r].status \in {Pending, 200, 500, 502}
=============================================================================
