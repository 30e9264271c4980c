----------------------------- MODULE RemoteCall -----------------------------
(***************************************************************************)
(* What the gateway may rely on when it calls the TCP backend: a call is   *)
(* executed at most once; an answer means that it was executed; server_busy *)
(* means that it was not and never will be; every other error leaves it    *)
(* open, even whether it is still to come.                                 *)
(***************************************************************************)
EXTENDS Naturals

CONSTANT Calls

VARIABLES
  outcome,   \* what the caller knows
  runs       \* how often the backend began to execute the call

callVars == <<outcome, runs>>

Init ==
  /\ outcome = [c \in Calls |-> "idle"]
  /\ runs = [c \in Calls |-> 0]

Start(c) ==
  /\ outcome[c] = "idle"
  /\ outcome' = [outcome EXCEPT ![c] = "pending"]
  /\ UNCHANGED runs

Execute(c) ==
  /\ outcome[c] \in {"pending", "lost"}
  /\ runs[c] = 0
  /\ runs' = [runs EXCEPT ![c] = 1]
  /\ UNCHANGED outcome

Answer(c) ==
  /\ outcome[c] = "pending"
  /\ runs[c] = 1
  /\ outcome' = [outcome EXCEPT ![c] = "answered"]
  /\ UNCHANGED runs

Refuse(c) ==
  /\ outcome[c] = "pending"
  /\ runs[c] = 0
  /\ outcome' = [outcome EXCEPT ![c] = "refused"]
  /\ UNCHANGED runs

Lose(c) ==
  /\ outcome[c] \in {"idle", "pending"}
  /\ outcome' = [outcome EXCEPT ![c] = "lost"]
  /\ UNCHANGED runs

Next == \E c \in Calls : Start(c) \/ Execute(c) \/ Answer(c) \/ Refuse(c) \/ Lose(c)

Spec == Init /\ [][Next]_callVars
=============================================================================
