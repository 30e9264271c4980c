--------------------------- MODULE SessionsProofs ---------------------------
(***************************************************************************)
(* Proofs about Sessions, for any Pods, tokens, length of a second and     *)
(* session lifetime.                                                       *)
(*                                                                         *)
(* The argument for BackedUntilExpiry: a SET carries the seconds that were *)
(* left when it was sent, rounded down, so a key that Redis sets later     *)
(* lives at least as long as it would have, and ends less than a second    *)
(* before the token.  Only the answer to that SET lets the login go on.    *)
(* The argument for LogoutHolds: a token can be logged out only after its  *)
(* login is done, and by then no SET of it is on its way.                  *)
(***************************************************************************)
EXTENDS Sessions, TLAPS

\* The prover of the steps that name no other.
USE ZenonT(40)

\* The token's expiry, and the beginning of its last second, in ticks.
ExpiryTick(t) == login[t].exp * Second
LastSecond(t) == (login[t].exp - 1) * Second

\* What a SET on its way will do.
SetInv(t) ==
  sets[t] > 0 =>
    /\ login[t].pc \in {"sent", "failed"}
    /\ sets[t] * Second <= SessionTTL
    /\ clock + sets[t] * Second > LastSecond(t)

\* A token's session, once its login has seen it stored.
StoredInv(t) ==
  (login[t].pc \in {"profile", "done"} /\ login[t].backed /\ t \notin ended \cup lost)
    => session[t] > LastSecond(t)

\* Only tokens of finished logins are used.
UseInv(t) ==
  /\ t \in dels \cup ended \/ asking[t] # NoPod \/ answer[t] # "none" => login[t].pc = "done"
  /\ t \in ended => session[t] = 0

CauseInv(t) ==
  answer[t] = "unauthorized" =>
    clock > LastSecond(t) \/ t \in ended \cup lost \/ ~ login[t].backed

TokenInv(t) ==
  /\ ExpiryTick(t) <= clock + SessionTTL
  /\ SetInv(t)
  /\ StoredInv(t)
  /\ UseInv(t)
  /\ CauseInv(t)

\* The inductive invariant.
IInv == TypeOK /\ \A t \in Tokens : TokenInv(t)

-----------------------------------------------------------------------------
(* Arithmetic of whole seconds.                                            *)

\* Multiplying by a positive number.
LEMMA Times ==
  ASSUME NEW n \in Nat, NEW d \in Nat \ {0}
  PROVE  n * d \in Nat /\ n <= n * d /\ (n - 1) * d = n * d - d
<1>1. n * d \in Nat /\ (n - 1) * d = n * d - d
  BY SMT
<1>2. n <= n * d
  BY SMT
<1>. QED
  BY <1>1, <1>2

\* Multiplying keeps the order.
LEMMA TimesMonotone ==
  ASSUME NEW m \in Nat, NEW n \in Nat, NEW d \in Nat \ {0}, m <= n
  PROVE  m * d <= n * d
  BY SMT

\* Whole seconds, rounded down.
LEMMA Div ==
  ASSUME NEW n \in Nat, NEW d \in Nat \ {0}
  PROVE  /\ n \div d \in Nat
         /\ (n \div d) * d <= n
         /\ n < (n \div d) * d + d
  BY SMT

-----------------------------------------------------------------------------
(* Types.                                                                  *)

\* A login that moves on.
LEMMA LoginAtType ==
  ASSUME TypeOK, NEW t \in Tokens, NEW pc \in {"sent", "profile", "done", "failed"},
         LoginAt(t, pc)
  PROVE  login' \in [Tokens -> Logins]
<1>1. login \in [Tokens -> Logins] /\ login' = [login EXCEPT ![t] = [login[t] EXCEPT !.pc = pc]]
  BY DEF TypeOK, LoginAt
<1>2. \A r \in Logins : [r EXCEPT !.pc = pc] \in Logins
  BY DEF Logins
<1>. QED
  BY <1>1, <1>2

\* Logins that end.
LEMMA LoginsFailType ==
  ASSUME TypeOK, NEW S \in SUBSET Tokens,
         login' = [t \in Tokens |-> IF t \in S THEN [login[t] EXCEPT !.pc = "failed"] ELSE login[t]]
  PROVE  login' \in [Tokens -> Logins]
<1>1. login \in [Tokens -> Logins]
  BY DEF TypeOK
<1>2. \A r \in Logins : [r EXCEPT !.pc = "failed"] \in Logins
  BY DEF Logins
<1>. QED
  BY <1>1, <1>2

\* The numbers of a state.
LEMMA Numbers ==
  ASSUME TypeOK
  PROVE  /\ clock \in Nat /\ Second \in Nat \ {0} /\ SessionTTL \in Nat /\ MaxClock \in Nat
         /\ login \in [Tokens -> Logins]
         /\ \A t \in Tokens :
              /\ login[t] \in Logins /\ login[t].exp \in Nat
              /\ sets[t] \in Nat /\ session[t] \in Nat
              /\ ExpiryTick(t) \in Nat /\ login[t].exp <= ExpiryTick(t)
              /\ LastSecond(t) = ExpiryTick(t) - Second
              /\ sets[t] * Second \in Nat /\ sets[t] <= sets[t] * Second
<1>1. /\ clock \in Nat /\ Second \in Nat \ {0} /\ SessionTTL \in Nat /\ MaxClock \in Nat
      /\ login \in [Tokens -> Logins]
  BY TimeAssumption, SMTT(20) DEF TypeOK, Logins
<1>2. ASSUME NEW t \in Tokens
      PROVE  login[t] \in Logins /\ login[t].exp \in Nat /\ sets[t] \in Nat /\ session[t] \in Nat
  BY <1>1, SMTT(20) DEF TypeOK, Logins, Expiries
<1>3. ASSUME NEW t \in Tokens
      PROVE  /\ ExpiryTick(t) \in Nat /\ login[t].exp <= ExpiryTick(t)
             /\ LastSecond(t) = ExpiryTick(t) - Second
             /\ sets[t] * Second \in Nat /\ sets[t] <= sets[t] * Second
  BY <1>1, <1>2, Times DEF ExpiryTick, LastSecond
<1>. QED
  BY <1>1, <1>2, <1>3

\* The seconds a SET carries: at most those left, and more than those left but one.
LEMMA SecondsLeft ==
  ASSUME TypeOK, NEW t \in Tokens, Seconds(t) > 0
  PROVE  /\ Seconds(t) \in Nat
         /\ Seconds(t) * Second \in Nat
         /\ Seconds(t) <= Seconds(t) * Second
         /\ Seconds(t) * Second <= ExpiryTick(t) - clock
         /\ clock + Seconds(t) * Second > LastSecond(t)
<1>1. ExpiryTick(t) > clock /\ Seconds(t) = (ExpiryTick(t) - clock) \div Second
  BY Numbers, SMTT(20) DEF Seconds, ExpiryTick
<1>2. ExpiryTick(t) - clock \in Nat /\ Second \in Nat \ {0}
  BY <1>1, Numbers, SMTT(20)
<1>3. /\ Seconds(t) \in Nat /\ Seconds(t) * Second <= ExpiryTick(t) - clock
      /\ ExpiryTick(t) - clock < Seconds(t) * Second + Second
  BY <1>1, <1>2, Div
<1>4. Seconds(t) * Second \in Nat /\ Seconds(t) <= Seconds(t) * Second
  BY <1>2, <1>3, Times
<1>. QED
  BY <1>3, <1>4, Numbers, SMTT(20)

\* What Issue puts in the token.
LEMMA IssuedExpiry ==
  ASSUME TypeOK
  PROVE  LET exp == (clock + SessionTTL) \div Second
         IN  /\ exp \in Nat /\ exp * Second <= clock + SessionTTL
             /\ exp \in Expiries
<1>1. clock + SessionTTL \in Nat /\ Second \in Nat \ {0}
  BY Numbers, SMTT(20)
<1>2. /\ (clock + SessionTTL) \div Second \in Nat
      /\ ((clock + SessionTTL) \div Second) * Second <= clock + SessionTTL
  BY <1>1, Div
<1>3. (clock + SessionTTL) \div Second <= ((clock + SessionTTL) \div Second) * Second
  BY <1>1, <1>2, Times
<1>4. (clock + SessionTTL) \div Second <= clock + SessionTTL
  BY <1>1, <1>2, <1>3, Times, SMTT(20)
<1>5. clock <= MaxClock /\ clock \in Nat /\ MaxClock \in Nat /\ SessionTTL \in Nat
  BY Numbers, SMTT(20) DEF TypeOK
<1>. QED
  BY <1>2, <1>4, <1>5, SMTT(20) DEF Expiries

\* The state stays well typed: in particular no key outlives the longest token.
LEMMA TypeStep == IInv /\ [Next]_vars => TypeOK'
<1>. SUFFICES ASSUME TypeOK, \A t \in Tokens : TokenInv(t), [Next]_vars
              PROVE  TypeOK'
  BY DEF IInv
<1>. USE FaultsAssumption, TimeAssumption DEF Fault, Answer, redis
<1>1. ASSUME NEW t \in Tokens, NEW p \in Pods, Issue(t, p) PROVE TypeOK'
  <2>1. (clock + SessionTTL) \div Second \in Expiries
    BY IssuedExpiry
  <2>2. enabled[p] \in BOOLEAN
    BY DEF TypeOK
  <2>3. login' \in [Tokens -> Logins]
    BY <1>1, <2>1, <2>2, Numbers DEF Issue, Logins
  <2>. QED
    BY <1>1, <2>3 DEF Issue, TypeOK
<1>2. ASSUME NEW t \in Tokens, SaveSession(t) PROVE TypeOK'
  <2>1. login' \in [Tokens -> Logins]
    BY <1>2, LoginAtType DEF SaveSession
  <2>2. sets' \in [Tokens -> Expiries]
    <3>1. CASE Seconds(t) > 0
      <4>1. Seconds(t) \in Expiries
        BY <3>1, SecondsLeft, Numbers, SMTT(20) DEF TokenInv, Expiries
      <4>. QED
        BY <1>2, <4>1 DEF SaveSession, TypeOK
    <3>2. CASE ~ Seconds(t) > 0
      BY <1>2, <3>2 DEF SaveSession, TypeOK
    <3>. QED
      BY <3>1, <3>2
  <2>. QED
    BY <1>2, <2>1, <2>2 DEF SaveSession, TypeOK
<1>3. ASSUME NEW t \in Tokens, RedisSets(t) PROVE TypeOK'
  <2>1. login' \in [Tokens -> Logins]
    BY <1>3, LoginAtType DEF RedisSets, TypeOK
  <2>2. clock + sets[t] * Second \in Expiries /\ 0 \in Expiries
    <3>1. sets[t] * Second <= SessionTTL
      BY <1>3 DEF RedisSets, TokenInv, SetInv
    <3>. QED
      BY <3>1, Numbers, SMTT(20) DEF TypeOK, Expiries
  <2>3. session' \in [Tokens -> Expiries] /\ sets' \in [Tokens -> Expiries]
    BY <1>3, <2>2 DEF RedisSets, TypeOK
  <2>4. /\ UNCHANGED <<clock, redisUp, dels, ended, lost, enabled, asking, answer>>
        /\ faults' \in 0 .. MaxFaults
    BY <1>3, SMTT(20) DEF RedisSets, TypeOK
  <2>. QED
    BY <2>1, <2>3, <2>4 DEF TypeOK
<1>4. ASSUME NEW t \in Tokens, SaveTimesOut(t) \/ LoginReturns(t) PROVE TypeOK'
  <2>1. login' \in [Tokens -> Logins]
    BY <1>4, LoginAtType DEF SaveTimesOut, LoginReturns
  <2>. QED
    BY <1>4, <2>1, SMTT(20) DEF SaveTimesOut, LoginReturns, TypeOK
<1>5. ASSUME NEW t \in Tokens, NEW p \in Pods, Logout(t, p) PROVE TypeOK'
  BY <1>5 DEF Logout, TypeOK
<1>6. ASSUME NEW t \in Tokens, NEW p \in Pods, RequireUser(t, p) PROVE TypeOK'
  BY <1>6 DEF RequireUser, TypeOK
<1>7. ASSUME NEW t \in Tokens, RedisDeletes(t) PROVE TypeOK'
  <2>1. 0 \in Expiries
    BY Numbers, SMTT(20) DEF Expiries
  <2>. QED
    BY <1>7, <2>1 DEF RedisDeletes, TypeOK
<1>8. ASSUME NEW t \in Tokens, GetSession(t) PROVE TypeOK'
  BY <1>8 DEF GetSession, TypeOK
<1>9. CASE Tick
  BY <1>9, SMTT(20) DEF Tick, TypeOK
<1>10. CASE RedisFails
  <2>1. login' \in [Tokens -> Logins]
    <3>. DEFINE S == {t \in Tokens : login[t].pc = "sent"}
    <3>1. login' = [t \in Tokens |-> IF t \in S THEN [login[t] EXCEPT !.pc = "failed"] ELSE login[t]]
      BY <1>10 DEF RedisFails
    <3>2. S \in SUBSET Tokens
      OBVIOUS
    <3>. HIDE DEF S
    <3>. QED
      BY <3>1, <3>2, LoginsFailType
  <2>3. 0 \in Expiries
    BY Numbers, SMTT(20) DEF Expiries
  <2>2. redisUp' \in BOOLEAN
    BY <1>10 DEF RedisFails
  <2>. QED
    BY <1>10, <2>1, <2>2, <2>3, SMTT(20) DEF RedisFails, TypeOK
<1>11. CASE RedisReturns
  BY <1>11 DEF RedisReturns, TypeOK
<1>12. ASSUME NEW p \in Pods, Restart(p) PROVE TypeOK'
  <2>1. login' \in [Tokens -> Logins]
    <3>. DEFINE S == {t \in Tokens : login[t].pod = p /\ login[t].pc \in {"save", "sent", "profile"}}
    <3>1. login' = [t \in Tokens |-> IF t \in S THEN [login[t] EXCEPT !.pc = "failed"] ELSE login[t]]
      BY <1>12 DEF Restart
    <3>2. S \in SUBSET Tokens
      OBVIOUS
    <3>. HIDE DEF S
    <3>. QED
      BY <3>1, <3>2, LoginsFailType
  <2>2. enabled' \in [Pods -> BOOLEAN]
    BY <1>12 DEF Restart, TypeOK
  <2>. QED
    BY <1>12, <2>1, <2>2, SMTT(20) DEF Restart, TypeOK
<1>13. CASE UNCHANGED vars
  BY <1>13 DEF vars, TypeOK
<1>. QED
  BY <1>1, <1>2, <1>3, <1>4, <1>5, <1>6, <1>7, <1>8, <1>9, <1>10, <1>11, <1>12, <1>13 DEF Next

-----------------------------------------------------------------------------
(* Tokens.                                                                 *)

\* A token that a step leaves alone.
LEMMA TokenKept ==
  ASSUME NEW t \in Tokens, TokenInv(t), clock' = clock,
         login'[t] = login[t], sets'[t] = sets[t], session'[t] = session[t],
         asking'[t] = asking[t], answer'[t] = answer[t],
         (t \in dels)' => t \in dels, (t \in ended)' <=> t \in ended, (t \in lost)' <=> t \in lost
  PROVE  TokenInv(t)'
<1>1. UNCHANGED <<ExpiryTick(t), LastSecond(t)>>
  BY DEF ExpiryTick, LastSecond
<1>. QED
  BY <1>1 DEF TokenInv, SetInv, StoredInv, UseInv, CauseInv

\* A login that moves on, or fails, without having used its token.
LEMMA LoginMoves ==
  ASSUME TypeOK, NEW t \in Tokens, TokenInv(t), UNCHANGED <<clock, session, asking, answer, dels, ended, lost>>,
         login[t].pc # "done", login'[t].exp = login[t].exp, login'[t].backed = login[t].backed,
         sets'[t] = sets[t],
         \/ login'[t].pc = "failed"
         \/ login'[t].pc \in {"profile", "done"} /\ login[t].pc = "profile"
  PROVE  TokenInv(t)'
<1>1. UNCHANGED <<ExpiryTick(t), LastSecond(t)>>
  BY DEF ExpiryTick, LastSecond
<1>. QED
  BY <1>1 DEF TokenInv, SetInv, StoredInv, UseInv, CauseInv

\* What is true of a token stays true.
LEMMA TokenStep == IInv /\ [Next]_vars => \A t \in Tokens : TokenInv(t)'
<1>. SUFFICES ASSUME TypeOK, \A t \in Tokens : TokenInv(t), [Next]_vars, NEW s \in Tokens
              PROVE  TokenInv(s)'
  BY DEF IInv
<1>. USE DEF Fault, LoginAt, Answer, redis
<1>1. ASSUME NEW t \in Tokens, NEW p \in Pods, Issue(t, p) PROVE TokenInv(s)'
  <2>1. CASE s = t
    <3>1. /\ login'[s].exp = (clock + SessionTTL) \div Second
          /\ login'[s].pc \in {"save", "profile"}
          /\ login'[s].pc = "profile" => ~ login'[s].backed
          /\ UNCHANGED <<clock, session, sets, dels, ended, lost, asking, answer>>
      BY <1>1, <2>1, Numbers DEF Issue
    <3>2. ExpiryTick(s)' <= clock + SessionTTL
      BY <3>1, IssuedExpiry, TimeAssumption DEF ExpiryTick
    <3>3. login[s].pc = "none"
      BY <1>1, <2>1 DEF Issue
    <3>4. /\ ~ sets[s] > 0 /\ s \notin dels \cup ended /\ asking[s] = NoPod
          /\ answer[s] = "none"
      BY <3>3 DEF TokenInv, SetInv, UseInv
    <3>. QED
      BY <3>1, <3>2, <3>4 DEF TokenInv, SetInv, StoredInv, UseInv, CauseInv
  <2>2. CASE s # t
    BY <1>1, <2>2, TokenKept, Numbers DEF Issue
  <2>. QED
    BY <2>1, <2>2
<1>2. ASSUME NEW t \in Tokens, SaveSession(t) PROVE TokenInv(s)'
  <2>1. CASE s = t /\ redisUp /\ Seconds(t) > 0 /\ sets' = [sets EXCEPT ![t] = Seconds(t)]
               /\ LoginAt(t, "sent")
    <3>1. /\ login'[s].exp = login[s].exp /\ login'[s].pc = "sent" /\ sets'[s] = Seconds(s)
          /\ UNCHANGED <<clock, session, dels, ended, lost, asking, answer>>
          /\ login[s].pc = "save"
      BY <1>2, <2>1, Numbers, SMTT(20), ZenonT(40) DEF SaveSession, TypeOK, Logins
    <3>2. UNCHANGED <<ExpiryTick(s), LastSecond(s)>>
      BY <3>1 DEF ExpiryTick, LastSecond
    <3>3. Seconds(s) * Second <= SessionTTL /\ clock + Seconds(s) * Second > LastSecond(s)
      BY <2>1, SecondsLeft, Numbers, SMTT(20) DEF TokenInv
    <3>4. s \notin dels \cup ended /\ asking[s] = NoPod /\ answer[s] = "none"
      BY <3>1 DEF TokenInv, UseInv
    <3>. QED
      BY <3>1, <3>2, <3>3, <3>4, TimeAssumption DEF TokenInv, SetInv, StoredInv, UseInv, CauseInv
  <2>2. CASE s = t /\ LoginAt(t, "failed") /\ UNCHANGED sets
    <3>1. /\ login'[s].exp = login[s].exp /\ login'[s].pc = "failed"
          /\ login'[s].backed = login[s].backed /\ login[s].pc = "save"
          /\ UNCHANGED <<clock, session, dels, ended, lost, asking, answer>>
      BY <1>2, <2>2, Numbers DEF SaveSession, Logins
    <3>. QED
      BY <2>2, <3>1, LoginMoves
  <2>3. CASE s # t
    BY <1>2, <2>3, TokenKept, Numbers DEF SaveSession, TypeOK
  <2>. QED
    BY <1>2, <2>1, <2>2, <2>3 DEF SaveSession
<1>3. ASSUME NEW t \in Tokens, RedisSets(t) PROVE TokenInv(s)'
  <2>1. CASE s = t
    <3>1. /\ login'[s].exp = login[s].exp /\ login'[s].backed = login[s].backed
          /\ sets'[s] = 0 /\ session'[s] = clock + sets[s] * Second /\ sets[s] > 0
          /\ UNCHANGED <<clock, dels, ended, lost, asking, answer>>
      BY <1>3, <2>1, Numbers, SMTT(20) DEF RedisSets, TypeOK, Logins
    <3>2. login[s].pc \in {"sent", "failed"} /\ clock + sets[s] * Second > LastSecond(s)
      BY <3>1 DEF TokenInv, SetInv
    <3>3. UNCHANGED <<ExpiryTick(s), LastSecond(s)>>
      BY <3>1 DEF ExpiryTick, LastSecond
    <3>4. s \notin dels \cup ended /\ asking[s] = NoPod /\ answer[s] = "none"
      BY <3>2 DEF TokenInv, UseInv
    <3>. QED
      BY <3>1, <3>2, <3>3, <3>4, SMTT(20) DEF TokenInv, SetInv, StoredInv, UseInv, CauseInv
  <2>2. CASE s # t
    BY <1>3, <2>2, TokenKept, Numbers DEF RedisSets, TypeOK
  <2>. QED
    BY <2>1, <2>2
<1>4. ASSUME NEW t \in Tokens, SaveTimesOut(t) \/ LoginReturns(t) PROVE TokenInv(s)'
  <2>1. CASE s = t
    <3>1. /\ login'[s].exp = login[s].exp /\ login'[s].backed = login[s].backed
          /\ login[s].pc # "done"
          /\ \/ login'[s].pc = "failed"
             \/ login'[s].pc = "done" /\ login[s].pc = "profile"
          /\ UNCHANGED <<clock, session, sets, dels, ended, lost, asking, answer>>
      <4>1. CASE SaveTimesOut(t)
        BY <2>1, <4>1, Numbers DEF SaveTimesOut, Logins
      <4>2. CASE LoginReturns(t)
        BY <2>1, <4>2, Numbers, SMTT(20) DEF LoginReturns, Logins
      <4>. QED
        BY <1>4, <4>1, <4>2
    <3>. QED
      BY <3>1, LoginMoves
  <2>2. CASE s # t
    BY <1>4, <2>2, TokenKept, Numbers DEF SaveTimesOut, LoginReturns
  <2>. QED
    BY <2>1, <2>2
<1>5. ASSUME NEW t \in Tokens, NEW p \in Pods, Logout(t, p) PROVE TokenInv(s)'
  <2>1. UNCHANGED <<ExpiryTick(s), LastSecond(s)>>
    BY <1>5 DEF Logout, ExpiryTick, LastSecond
  <2>. QED
    BY <1>5, <2>1 DEF Logout, TokenInv, SetInv, StoredInv, UseInv, CauseInv
<1>6. ASSUME NEW t \in Tokens, NEW p \in Pods, RequireUser(t, p) PROVE TokenInv(s)'
  <2>1. UNCHANGED <<ExpiryTick(s), LastSecond(s)>>
    BY <1>6 DEF RequireUser, ExpiryTick, LastSecond
  <2>2. ~ Verify(t) => clock > LastSecond(t)
    <3>1. clock \in Nat /\ Second \in Nat \ {0} /\ login[t].exp \in Nat
      BY Numbers
    <3>2. /\ clock \div Second \in Nat /\ (clock \div Second) * Second <= clock
      BY <3>1, Div
    <3>3. login[t].exp <= clock \div Second => login[t].exp * Second <= (clock \div Second) * Second
      BY <3>1, <3>2, TimesMonotone
    <3>. QED
      BY <3>1, <3>2, <3>3, Numbers, SMTT(20) DEF Verify, ExpiryTick
  <2>3. answer'[s] = answer[s] \/ (s = t /\ (answer'[s] = "unauthorized" => ~ Verify(t)))
    BY <1>6 DEF RequireUser, TypeOK
  <2>4. (asking'[s] = asking[s] /\ answer'[s] = answer[s]) \/ login[s].pc = "done"
    BY <1>6 DEF RequireUser, TypeOK
  <2>5. UNCHANGED <<clock, session, sets, dels, ended, lost, login>>
    BY <1>6 DEF RequireUser
  <2>. QED
    BY <2>1, <2>2, <2>3, <2>4, <2>5 DEF TokenInv, SetInv, StoredInv, UseInv, CauseInv
<1>7. ASSUME NEW t \in Tokens, RedisDeletes(t) PROVE TokenInv(s)'
  <2>1. UNCHANGED <<ExpiryTick(s), LastSecond(s)>>
    BY <1>7 DEF RedisDeletes, ExpiryTick, LastSecond
  <2>. QED
    BY <1>7, <2>1 DEF RedisDeletes, TypeOK, TokenInv, SetInv, StoredInv, UseInv, CauseInv
<1>8. ASSUME NEW t \in Tokens, GetSession(t) PROVE TokenInv(s)'
  <2>1. UNCHANGED <<ExpiryTick(s), LastSecond(s)>>
    BY <1>8 DEF GetSession, ExpiryTick, LastSecond
  <2>2. login[t].pc = "done" /\ StoredInv(t)
    BY <1>8 DEF GetSession, TokenInv, UseInv
  <2>3. UNCHANGED <<clock, session, sets, dels, ended, lost, login>>
    BY <1>8 DEF GetSession
  <2>4. CASE s = t
    <3>1. answer'[s] = "unauthorized" => ~ Live(s)
      BY <1>8, <2>4 DEF GetSession, TypeOK
    <3>. QED
      BY <2>1, <2>2, <2>3, <2>4, <3>1, Numbers, SMTT(20)
      DEF Live, TokenInv, SetInv, StoredInv, UseInv, CauseInv
  <2>5. CASE s # t
    BY <1>8, <2>3, <2>5, TokenKept DEF GetSession, TypeOK
  <2>. QED
    BY <2>4, <2>5
<1>9. CASE Tick
  <2>1. UNCHANGED <<ExpiryTick(s), LastSecond(s)>>
    BY <1>9 DEF Tick, ExpiryTick, LastSecond
  <2>. QED
    BY <1>9, <2>1, Numbers, SMTT(20) DEF Tick, TokenInv, SetInv, StoredInv, UseInv, CauseInv
<1>10. CASE RedisFails
  <2>1. /\ login'[s].exp = login[s].exp /\ login'[s].backed = login[s].backed
        /\ login'[s].pc = IF login[s].pc = "sent" THEN "failed" ELSE login[s].pc
        /\ sets'[s] = 0 /\ dels' = {}
        /\ UNCHANGED <<clock, ended, asking, answer>>
    BY <1>10, Numbers DEF RedisFails, Logins
  <2>2. UNCHANGED <<ExpiryTick(s), LastSecond(s)>>
    BY <2>1 DEF ExpiryTick, LastSecond
  <2>3. \/ session'[s] = session[s] /\ lost' = lost
        \/ session'[s] = 0 /\ session[s] > 0 /\ s \in lost' /\ lost \subseteq lost'
        \/ session'[s] = 0 /\ session[s] = 0 /\ lost \subseteq lost'
    BY <1>10, Numbers, SMTT(20) DEF RedisFails
  <2>. QED
    BY <2>1, <2>2, <2>3, SMTT(20) DEF TokenInv, SetInv, StoredInv, UseInv, CauseInv
<1>11. CASE RedisReturns
  BY <1>11, TokenKept DEF RedisReturns
<1>12. ASSUME NEW p \in Pods, Restart(p) PROVE TokenInv(s)'
  <2>1. /\ UNCHANGED <<clock, session, sets, dels, ended, lost, answer>>
        /\ asking'[s] \in {asking[s], NoPod}
        /\ login'[s].exp = login[s].exp /\ login'[s].backed = login[s].backed
        /\ \/ login'[s].pc = login[s].pc
           \/ login'[s].pc = "failed" /\ login[s].pc \in {"save", "sent", "profile"}
    BY <1>12, Numbers DEF Restart, Logins
  <2>2. UNCHANGED <<ExpiryTick(s), LastSecond(s)>>
    BY <2>1 DEF ExpiryTick, LastSecond
  <2>. QED
    BY <2>1, <2>2 DEF TokenInv, SetInv, StoredInv, UseInv, CauseInv
<1>13. CASE UNCHANGED vars
  BY <1>13, TokenKept DEF vars
<1>. QED
  BY <1>1, <1>2, <1>3, <1>4, <1>5, <1>6, <1>7, <1>8, <1>9, <1>10, <1>11, <1>12, <1>13 DEF Next

-----------------------------------------------------------------------------
(* Theorems.                                                               *)

\* The inductive invariant holds of every behaviour.
THEOREM Invariance == Spec => []IInv
<1>1. Init => IInv
  <2>. SUFFICES ASSUME Init PROVE IInv
    OBVIOUS
  <2>1. enabled \in [Pods -> BOOLEAN]
    BY DEF Init
  <2>2. TypeOK
    <3>1. 0 \in Expiries /\ 0 \in 0 .. MaxClock /\ 0 \in 0 .. MaxFaults
      BY TimeAssumption, FaultsAssumption, SMTT(20) DEF Expiries
    <3>2. login \in [Tokens -> Logins]
      BY <3>1 DEF Init, Logins
    <3>. QED
      BY <2>1, <3>1, <3>2 DEF Init, TypeOK
  <2>3. ASSUME NEW t \in Tokens PROVE TokenInv(t)
    <3>1. ExpiryTick(t) = 0
      BY TimeAssumption, SMTT(20) DEF Init, ExpiryTick
    <3>. QED
      BY <3>1, TimeAssumption, SMTT(20) DEF Init, TokenInv, SetInv, StoredInv, UseInv, CauseInv
  <2>. QED
    BY <2>2, <2>3 DEF IInv
<1>2. IInv /\ [Next]_vars => IInv'
  BY TypeStep, TokenStep DEF IInv
<1>. QED
  BY <1>1, <1>2, PTL DEF Spec

\* The state stays well typed: no session key outlives the longest possible token,
\* however late Redis carries out the SET of SaveSession.
THEOREM TypeCorrect == Spec => []TypeOK
<1>1. IInv => TypeOK
  BY DEF IInv
<1>. QED
  BY Invariance, <1>1, PTL

\* Login hands out no token whose session was not stored: for any SessionTTL, the
\* session lasts until the token's last second.
THEOREM SessionsLast == Spec => []BackedUntilExpiry
<1>1. IInv => BackedUntilExpiry
  BY DEF IInv, TokenInv, StoredInv, BackedUntilExpiry, LastSecond
<1>. QED
  BY Invariance, <1>1, PTL

\* As long as nothing fails, the Pods with sessions have Redis.
Reachable ==
  faults = 0 => /\ \A p \in Pods : enabled[p] => redisUp
                /\ \A t \in Tokens : asking[t] # NoPod => redisUp
                /\ \A t \in Tokens : answer[t] # "error"

\* requireUser answers with an error of Redis only after a fault, whether or not
\* Redis could be reached when the Pods started.
LEMMA ReachableUntilFault == Spec => []Reachable
<1>1. Init => Reachable
  BY DEF Init, Reachable
<1>2. TypeOK /\ Reachable /\ [Next]_vars => Reachable'
  <2>. SUFFICES ASSUME TypeOK, Reachable, [Next]_vars, faults' = 0
                PROVE  /\ \A p \in Pods : enabled'[p] => redisUp'
                       /\ \A t \in Tokens : asking'[t] # NoPod => redisUp'
                       /\ \A t \in Tokens : answer'[t] # "error"
    BY DEF Reachable
  <2>1. ~ Fault
    BY SMTT(20) DEF Fault, TypeOK
  <2>2. faults' = faults
    BY <2>1 DEF Next, vars, redis, Issue, SaveSession, RedisSets, SaveTimesOut, LoginReturns,
                Logout, RequireUser, RedisDeletes, GetSession, Tick, RedisFails, RedisReturns,
                Restart
  <2>3. /\ \A p \in Pods : enabled[p] => redisUp
        /\ \A t \in Tokens : asking[t] # NoPod => redisUp
        /\ \A t \in Tokens : answer[t] # "error"
    BY <2>2 DEF Reachable
  <2>4. ASSUME NEW t \in Tokens, GetSession(t) PROVE Reachable'
    BY <2>3, <2>4 DEF GetSession, Answer, Reachable, TypeOK, redis
  <2>5. ASSUME NEW t \in Tokens, NEW p \in Pods, RequireUser(t, p) PROVE Reachable'
    BY <2>3, <2>5 DEF RequireUser, Answer, Reachable, TypeOK, redis
  <2>6. CASE RedisReturns
    BY <2>3, <2>6 DEF RedisReturns
  <2>7. CASE UNCHANGED <<redisUp, enabled, asking, answer>>
    BY <2>3, <2>7
  <2>. QED
    BY <2>1, <2>4, <2>5, <2>6, <2>7
    DEF Reachable, Next, vars, redis, Issue, SaveSession, RedisSets, SaveTimesOut, LoginReturns,
        Logout, RedisDeletes, Tick, RedisFails, Restart
<1>. QED
  BY TypeCorrect, <1>1, <1>2, PTL DEF Spec

\* requireUser answers "unauthorized" only for a cause, and never because Redis
\* is out of reach; it answers with an error of Redis only after a fault, so that
\* RedisOptional fails in no other way.
THEOREM RefusalsHaveCause == Spec => []RefusedForCause
<1>1. IInv /\ Reachable => RefusedForCause
  BY DEF IInv, TokenInv, CauseInv, Reachable, RefusedForCause, Ending, LastSecond
<1>. QED
  BY Invariance, ReachableUntilFault, <1>1, PTL

\* After Redis has carried out a logout's DEL, no requireUser of a Pod with
\* sessions lets the token pass.
THEOREM LogoutsHold == Spec => LogoutHolds
<1>1. IInv /\ [Next]_vars =>
        [\A t \in ended :
           answer'[t] = "served" => answer[t] = "served" /\ ~ GetSession(t)]_vars
  <2>. SUFFICES ASSUME TypeOK, \A t \in Tokens : TokenInv(t), Next, NEW t \in ended,
                       answer'[t] = "served"
                PROVE  answer[t] = "served" /\ ~ GetSession(t)
    BY DEF IInv
  <2>1. t \in Tokens
    BY DEF TypeOK
  <2>2. session[t] = 0 /\ ~ Live(t)
    BY <2>1, Numbers, SMTT(20) DEF TokenInv, UseInv, Live
  <2>3. ~ GetSession(t)
    BY <2>1, <2>2 DEF GetSession, Answer, TypeOK
  <2>4. ASSUME NEW s \in Tokens, GetSession(s) PROVE answer[t] = "served"
    BY <2>1, <2>3, <2>4 DEF GetSession, Answer, TypeOK
  <2>5. ASSUME NEW s \in Tokens, NEW p \in Pods, RequireUser(s, p) PROVE answer[t] = "served"
    BY <2>1, <2>5 DEF RequireUser, Answer, TypeOK
  <2>. QED
    BY <2>3, <2>4, <2>5 DEF Next, Issue, SaveSession, RedisSets, SaveTimesOut, LoginReturns, Logout,
                            RedisDeletes, Tick, RedisFails, RedisReturns, Restart
<1>. QED
  BY Invariance, <1>1, PTL DEF Spec, LogoutHolds
=============================================================================
