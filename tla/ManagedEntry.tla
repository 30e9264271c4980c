---------------------------- MODULE ManagedEntry ----------------------------
(***************************************************************************)
(* What a controller promises of one custom resource and of the objects    *)
(* that belong to it, as if it knew no cache, no interrupted pass and no   *)
(* failed call: objects come into being only for the incarnation that      *)
(* exists, under its finalizer, and the finalizer goes last.               *)
(***************************************************************************)
EXTENDS Naturals

CONSTANTS PodIds, None

VARIABLES
  phase,     \* the CR: "absent", "new", "guarded" by the finalizer, "marked" for deletion
  uid,       \* the newest incarnation
  owner,     \* the incarnation that owns the ConfigMap, the Service, or None
  podOwner   \* the incarnation that owns each Pod, or None

managedVars == <<phase, uid, owner, podOwner>>

Singles == {"cm", "svc"}

Bare == \A k \in Singles : owner[k] = None

Without(f, gone) == [x \in DOMAIN f |-> IF x \in gone THEN None ELSE f[x]]

Init ==
  /\ phase = "absent"
  /\ uid = 0
  /\ owner = [k \in Singles |-> None]
  /\ podOwner = [p \in PodIds |-> None]

\* An incarnation starts, and ends, with neither ConfigMap nor Service: its own
\* are gone and there are none of an earlier one.
Create ==
  /\ phase = "absent"
  /\ Bare
  /\ phase' = "new"
  /\ uid' = uid + 1
  /\ UNCHANGED <<owner, podOwner>>

Guard ==
  /\ phase = "new"
  /\ phase' = "guarded"
  /\ UNCHANGED <<uid, owner, podOwner>>

Mark ==
  /\ phase = "guarded"
  /\ phase' = "marked"
  /\ UNCHANGED <<uid, owner, podOwner>>

Vanish ==
  /\ phase \in {"new", "marked"}
  /\ Bare
  /\ phase' = "absent"
  /\ UNCHANGED <<uid, owner, podOwner>>

\* A pass that read the CR before it was marked goes on making objects.
Adopt(k) ==
  /\ phase \in {"guarded", "marked"}
  /\ owner[k] = None
  /\ owner' = [owner EXCEPT ![k] = uid]
  /\ UNCHANGED <<phase, uid, podOwner>>

AdoptPod(p) ==
  /\ phase \in {"guarded", "marked"}
  /\ podOwner[p] = None
  /\ podOwner' = [podOwner EXCEPT ![p] = uid]
  /\ UNCHANGED <<phase, uid, owner>>

\* Objects may go at any time, by the controller or by another hand.
Lose ==
  /\ UNCHANGED <<phase, uid>>
  /\ \E gone \in SUBSET Singles : owner' = Without(owner, gone)
  /\ \E gone \in SUBSET PodIds : podOwner' = Without(podOwner, gone)

Next ==
  \/ Create
  \/ Guard
  \/ Mark
  \/ Vanish
  \/ Lose
  \/ \E k \in Singles : Adopt(k)
  \/ \E p \in PodIds : AdoptPod(p)

Spec == Init /\ [][Next]_managedVars
=============================================================================
