------------------------------ MODULE Sessions ------------------------------
(***************************************************************************)
(* Login, logout and the check of every other request (Login, Logout and   *)
(* requireUser of internal/service), over signed tokens that expire and    *)
(* the Redis sessions that may back them.  Several Pods share Redis and    *)
(* the token secret.  A token is issued once, to one user; that its        *)
(* signature cannot be made up is taken for granted.                       *)
(*                                                                         *)
(* Redis carries out a command some time after it was sent, even when the  *)
(* client has given up on it; it may lose its data when it fails.          *)
(*                                                                         *)
(* Time runs in ticks, finer than the seconds that tokens and Redis count. *)
(***************************************************************************)
EXTENDS Integers

CONSTANTS
  Pods,        \* backend processes
  Tokens,      \* tokens that logins can issue
  Second,      \* ticks per second
  SessionTTL,  \* cfg.Security.SessionTTL, in ticks
  MaxClock,    \* bound: ticks
  MaxFaults    \* bound: outages, lost answers, failed reads and restarts

ASSUME TimeAssumption == Second \in Nat \ {0} /\ {SessionTTL, MaxClock} \subseteq Nat
ASSUME FaultsAssumption == MaxFaults \in Nat

VARIABLES
  clock,
  redisUp,   \* Redis answers
  session,   \* per token, the tick its Redis key expires; 0 without a key
  sets,      \* per token, the seconds of a SET on its way to Redis, or 0
  dels,      \* tokens with a DEL on its way
  enabled,   \* per Pod, sessions # nil, decided when the process starts
  login,     \* per token, where its login stands and what the token says
  asking,    \* per token, the Pod in requireUser after Verify, before GET
  answer,    \* per token, the outcome of the latest requireUser; "unchecked"
             \* when a Pod without sessions passed it
  ended,     \* tokens whose logout was carried out by Redis
  lost,      \* tokens whose session Redis lost
  faults

redis == <<redisUp, session, sets, dels, ended, lost>>
vars == <<clock, redis, enabled, login, asking, answer, faults>>

Expiries == 0 .. MaxClock + SessionTTL
NoPod == "nobody"

ASSUME PodsAssumption == NoPod \notin Pods

Logins == [pc : {"none", "save", "sent", "profile", "done", "failed"},
           pod : Pods \cup {NoPod}, exp : Expiries, backed : BOOLEAN]

TypeOK ==
  /\ clock \in 0 .. MaxClock
  /\ redisUp \in BOOLEAN
  /\ session \in [Tokens -> Expiries]
  /\ sets \in [Tokens -> Expiries]
  /\ enabled \in [Pods -> BOOLEAN]
  /\ login \in [Tokens -> Logins]
  /\ asking \in [Tokens -> Pods \cup {NoPod}]
  /\ answer \in [Tokens -> {"none", "served", "unchecked", "unauthorized", "error"}]
  /\ {dels, ended, lost} \subseteq SUBSET Tokens
  /\ faults \in 0 .. MaxFaults

\* Redis may be unreachable while the first Pods start.
Init ==
  /\ clock = 0
  /\ redisUp \in BOOLEAN
  /\ session = [t \in Tokens |-> 0]
  /\ sets = [t \in Tokens |-> 0]
  /\ enabled = [p \in Pods |-> redisUp]
  /\ login = [t \in Tokens |-> [pc |-> "none", pod |-> NoPod, exp |-> 0, backed |-> FALSE]]
  /\ asking = [t \in Tokens |-> NoPod]
  /\ answer = [t \in Tokens |-> "none"]
  /\ dels = {} /\ ended = {} /\ lost = {}
  /\ faults = 0

Fault ==
  /\ faults < MaxFaults
  /\ faults' = faults + 1

-----------------------------------------------------------------------------
(* Login.                                                                  *)

LoginAt(t, pc) == login' = [login EXCEPT ![t].pc = pc]

\* Mutants are wrong versions of the definition that follows them; no
\* specification uses them.

\* Mutant: the expiry is kept in the clock's own unit.
IssueUnits(t, p) ==
  /\ login[t].pc = "none"
  /\ login' = [login EXCEPT ![t] =
       [pc |-> IF enabled[p] THEN "save" ELSE "profile", pod |-> p,
        exp |-> (clock + SessionTTL) * Second, backed |-> enabled[p]]]
  /\ UNCHANGED <<clock, redis, enabled, asking, answer, faults>>

\* The password is right; tokens.Issue.
Issue(t, p) ==
  /\ login[t].pc = "none"
  /\ login' = [login EXCEPT ![t] =
       [pc |-> IF enabled[p] THEN "save" ELSE "profile", pod |-> p,
        exp |-> (clock + SessionTTL) \div Second, backed |-> enabled[p]]]
  /\ UNCHANGED <<clock, redis, enabled, asking, answer, faults>>

\* int(ttl.Seconds()) of what is left of the token's life.
Seconds(t) ==
  IF login[t].exp * Second <= clock THEN 0
  ELSE (login[t].exp * Second - clock) \div Second

\* The SET ... EX goes out, unless the life is too short or Redis unreachable.
SaveSession(t) ==
  /\ login[t].pc = "save"
  /\ \/ /\ redisUp /\ Seconds(t) > 0
        /\ sets' = [sets EXCEPT ![t] = Seconds(t)]
        /\ LoginAt(t, "sent")
     \/ /\ ~ redisUp \/ Seconds(t) = 0
        /\ LoginAt(t, "failed")
        /\ UNCHANGED sets
  /\ UNCHANGED <<clock, redisUp, session, dels, ended, lost, enabled, asking, answer, faults>>

\* Redis sets the key; its answer may come too late or be lost.
RedisSets(t) ==
  /\ redisUp
  /\ sets[t] > 0
  /\ session' = [session EXCEPT ![t] = clock + sets[t] * Second]
  /\ sets' = [sets EXCEPT ![t] = 0]
  /\ \/ login[t].pc = "sent" /\ LoginAt(t, "profile") /\ UNCHANGED faults
     \/ login[t].pc = "sent" /\ LoginAt(t, "failed") /\ Fault
     \/ login[t].pc # "sent" /\ UNCHANGED <<login, faults>>
  /\ UNCHANGED <<clock, redisUp, dels, ended, lost, enabled, asking, answer>>

\* Mutant: the user gets the token whether or not the session was stored.
SaveTimesOutIgnored(t) ==
  /\ login[t].pc = "sent"
  /\ Fault
  /\ LoginAt(t, "profile")
  /\ UNCHANGED <<clock, redis, enabled, asking, answer>>

\* The client's deadline passes, or the connection breaks, before Redis gets to it.
SaveTimesOut(t) ==
  /\ login[t].pc = "sent"
  /\ Fault
  /\ LoginAt(t, "failed")
  /\ UNCHANGED <<clock, redis, enabled, asking, answer>>

\* GetUserProfileByID and the response that carries the token.
LoginReturns(t) ==
  /\ login[t].pc = "profile"
  /\ \/ LoginAt(t, "done") /\ UNCHANGED faults
     \/ LoginAt(t, "failed") /\ Fault
  /\ UNCHANGED <<clock, redis, enabled, asking, answer>>

-----------------------------------------------------------------------------
(* Requests with a token that a login returned, sent to any Pod.           *)

\* The gateway ignores the outcome and clears the cookie.  Only a DEL that goes
\* out changes anything.
Logout(t, p) ==
  /\ login[t].pc = "done"
  /\ enabled[p] /\ redisUp
  /\ dels' = dels \cup {t}
  /\ UNCHANGED <<clock, redisUp, session, sets, ended, lost, enabled, login, asking,
                 answer, faults>>

RedisDeletes(t) ==
  /\ redisUp
  /\ t \in dels
  /\ session' = [session EXCEPT ![t] = 0]
  /\ dels' = dels \ {t}
  /\ ended' = ended \cup {t}
  /\ UNCHANGED <<clock, redisUp, sets, lost, enabled, login, asking, answer, faults>>

Answer(t, a) == answer' = [answer EXCEPT ![t] = a]

\* tokens.Verify
Verify(t) == login[t].exp > clock \div Second

RequireUser(t, p) ==
  /\ login[t].pc = "done"
  /\ asking[t] = NoPod
  /\ \/ ~ Verify(t) /\ Answer(t, "unauthorized") /\ UNCHANGED asking
     \/ Verify(t) /\ ~ enabled[p] /\ Answer(t, "unchecked") /\ UNCHANGED asking
     \/ /\ Verify(t) /\ enabled[p]
        /\ asking' = [asking EXCEPT ![t] = p]
        /\ UNCHANGED answer
  /\ UNCHANGED <<clock, redis, enabled, login, faults>>

Live(t) == session[t] > clock

\* Mutant: any session that was ever stored will do.
GetSessionEver(t) ==
  /\ asking[t] # NoPod
  /\ asking' = [asking EXCEPT ![t] = NoPod]
  /\ Answer(t, IF redisUp THEN "served" ELSE "error")
  /\ UNCHANGED <<clock, redis, enabled, login, faults>>

\* Mutant: an error of Redis is taken for a missing key.
GetSessionStrict(t) ==
  /\ asking[t] # NoPod
  /\ asking' = [asking EXCEPT ![t] = NoPod]
  /\ Answer(t, IF redisUp /\ Live(t) THEN "served" ELSE "unauthorized")
  /\ UNCHANGED <<clock, redis, enabled, login, faults>>

\* GET and the comparison of users, which the key of the token settles.
GetSession(t) ==
  /\ asking[t] # NoPod
  /\ asking' = [asking EXCEPT ![t] = NoPod]
  /\ \/ redisUp /\ Live(t) /\ Answer(t, "served")
     \/ redisUp /\ ~ Live(t) /\ Answer(t, "unauthorized")
     \/ ~ redisUp /\ Answer(t, "error")
  /\ UNCHANGED <<clock, redis, enabled, login, faults>>

-----------------------------------------------------------------------------
(* Time, Redis and processes.                                              *)

Tick ==
  /\ clock < MaxClock
  /\ clock' = clock + 1
  /\ UNCHANGED <<redis, enabled, login, asking, answer, faults>>

\* What was on its way is gone and, unless Redis persists them, the keys are.
RedisFails ==
  /\ redisUp
  /\ Fault
  /\ redisUp' = FALSE
  /\ sets' = [t \in Tokens |-> 0]
  /\ dels' = {}
  /\ login' = [t \in Tokens |-> IF login[t].pc = "sent"
                                THEN [login[t] EXCEPT !.pc = "failed"] ELSE login[t]]
  /\ \/ UNCHANGED <<session, lost>>
     \/ /\ session' = [t \in Tokens |-> 0]
        /\ lost' = lost \cup {t \in Tokens : session[t] > 0}
  /\ UNCHANGED <<clock, ended, enabled, asking, answer>>

RedisReturns ==
  /\ ~ redisUp
  /\ redisUp' = TRUE
  /\ UNCHANGED <<clock, session, sets, dels, ended, lost, enabled, login, asking, answer, faults>>

\* tcpd starts again and pings Redis; the requests it was serving fail.
Restart(p) ==
  /\ Fault
  /\ enabled' = [enabled EXCEPT ![p] = redisUp]
  /\ login' = [t \in Tokens |->
       IF login[t].pod = p /\ login[t].pc \in {"save", "sent", "profile"}
       THEN [login[t] EXCEPT !.pc = "failed"] ELSE login[t]]
  /\ asking' = [t \in Tokens |-> IF asking[t] = p THEN NoPod ELSE asking[t]]
  /\ UNCHANGED <<clock, redis, answer>>

Next ==
  \/ \E t \in Tokens :
       \/ \E p \in Pods : Issue(t, p) \/ Logout(t, p) \/ RequireUser(t, p)
       \/ SaveSession(t) \/ RedisSets(t) \/ SaveTimesOut(t) \/ LoginReturns(t)
       \/ RedisDeletes(t) \/ GetSession(t)
  \/ Tick \/ RedisFails \/ RedisReturns
  \/ \E p \in Pods : Restart(p)

Spec == Init /\ [][Next]_vars

-----------------------------------------------------------------------------
(* Properties.                                                             *)

\* The last second of a token's life has come.
Ending(t) == clock > (login[t].exp - 1) * Second

\* A user who got a token from a Pod with sessions has a session for all but the
\* last second of the token's life, unless Redis carried out a logout or lost its
\* data: no step of Login hands out a token whose session was not stored.
BackedUntilExpiry ==
  \A t \in Tokens :
    (login[t].pc = "done" /\ login[t].backed /\ t \notin ended \cup lost)
      => session[t] > (login[t].exp - 1) * Second

\* requireUser turns down the token of a login for a cause: it is about to expire,
\* it was logged out, Redis lost the session, or the Pod that issued it had none.
\* An outage of Redis shows as an error, not as an end of the session, and until the
\* first fault (a call given up on, an outage, a restart) there is no error either,
\* also when Redis could not be reached as the Pods started and came later: the Pods
\* that need it are those that found it.
RefusedForCause ==
  /\ \A t \in Tokens :
       answer[t] = "unauthorized" =>
         Ending(t) \/ t \in ended \cup lost \/ ~ login[t].backed
  /\ faults = 0 => \A t \in Tokens : answer[t] # "error"

\* Once Redis has carried out a logout, no Pod with sessions lets the token pass,
\* however requireUser and the DEL overlap.
LogoutHolds ==
  [][\A t \in ended :
       answer'[t] = "served" => answer[t] = "served" /\ ~ GetSession(t)]_vars

\* No request fails because Redis cannot be reached.
RedisOptional == \A t \in Tokens : answer[t] # "error"
=============================================================================
