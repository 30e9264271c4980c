---------------------------- MODULE EntryCluster ----------------------------
(***************************************************************************)
(* The Kubernetes side of one DbcpEntryService custom resource: the        *)
(* objects the API server stores for it, and everything that changes them  *)
(* besides the operator.  Users create, edit, delete and re-create the     *)
(* custom resource (CR); the kubelet runs the Pods; the garbage collector  *)
(* follows owner references; somebody may delete a managed object by hand. *)
(*                                                                         *)
(* The controller in EntryOperator writes the same variable `api' through  *)
(* API calls.  All objects carry the names and labels derived from the one *)
(* CR name, so a name is not part of an object here; what tells two        *)
(* incarnations of the CR apart is their uid.                              *)
(***************************************************************************)
EXTENDS Integers, FiniteSets, Sequences

CONSTANTS
  Configs,     \* values of spec.config (database, Redis, exported port)
  Images,      \* values of spec.service.image together with its resources
  Specs,       \* the specs users write
  Edits,       \* pairs <<s, t>>: users may replace spec s by spec t
  PodIds,      \* names a Pod can get from its generateName; the Pod quota
  None,        \* "no such object"
  Faults,      \* which kinds of fault happen, a subset of FaultKinds
  MaxFaults,   \* bound: faults of all kinds together
  MaxUid,      \* bound: incarnations of the CR
  MaxRv,       \* bound: a user edits an incarnation up to this resourceVersion
  MaxClock     \* bound: creation timestamps are 0 .. MaxClock

FaultKinds == {"apiError", "crash", "podFailure", "restart", "drift"}

ASSUME SpecsAssumption ==
  /\ Specs \subseteq [config : Configs, image : Images, replicas : Nat \ {0}]
  /\ Edits \subseteq Specs \X Specs

ASSUME BoundsAssumption ==
  /\ {MaxFaults, MaxUid, MaxRv, MaxClock} \subseteq Nat
  /\ Faults \subseteq FaultKinds
  /\ IsFiniteSet(PodIds)

VARIABLES
  api,      \* what the API server stores: cr, cm (ConfigMap), svc (Service), pods
  lastUid,  \* uid of the newest incarnation of the CR
  clock,    \* the API server's clock, in the whole seconds of a timestamp
  faults    \* faults so far

clusterVars == <<api, lastUid, clock, faults>>

Kinds == {"cr", "cm", "svc", "pods"}

Uids == 1 .. MaxUid
Data == Uids \X Configs          \* rendered environment: token secret and config
Hashes == Data \X Images

Entry == [uid : Uids, spec : Specs, deleting : BOOLEAN, finalizer : BOOLEAN,
          rv : Nat]
ConfigMap == [owner : Uids, data : Data]
Service == [owner : Uids, port : Configs]

\* "Terminated" stands for the phases Failed and Succeeded.
Pod == [hash : Hashes, owner : Uids, env : Data \cup {None},
        phase : {"Pending", "Running", "Terminated"}, deleting : BOOLEAN,
        created : 0 .. MaxClock]

Objects == [cr : Entry \cup {None}, cm : ConfigMap \cup {None},
            svc : Service \cup {None}, pods : [PodIds -> Pod \cup {None}]]

ASSUME NoneAssumption == None \notin Entry \cup ConfigMap \cup Service \cup Pod \cup Data

ClusterTypeOK ==
  /\ api \in Objects
  /\ lastUid \in 0 .. MaxUid
  /\ clock \in 0 .. MaxClock
  /\ faults \in 0 .. MaxFaults

ClusterInit ==
  /\ api = [cr |-> None, cm |-> None, svc |-> None,
            pods |-> [p \in PodIds |-> None]]
  /\ lastUid = 0
  /\ clock = 0
  /\ faults = 0

Fault(kind) ==
  /\ kind \in Faults
  /\ faults < MaxFaults
  /\ faults' = faults + 1

Exists(p) == api.pods[p] # None

\* A graceful delete: the API server marks the Pod, the kubelet ends it.
\* Deleting a Pod that is gone (NotFound) changes nothing.
DeletePod(pods, p) ==
  IF pods[p] = None THEN pods ELSE [pods EXCEPT ![p].deleting = TRUE]

-----------------------------------------------------------------------------
(* Users of the custom resource.                                           *)

CreateEntry ==
  /\ api.cr = None
  /\ lastUid < MaxUid
  /\ lastUid' = lastUid + 1
  /\ \E s \in Specs :
       api' = [api EXCEPT !.cr = [uid |-> lastUid + 1, spec |-> s,
                                  deleting |-> FALSE, finalizer |-> FALSE,
                                  rv |-> 1]]
  /\ UNCHANGED <<clock, faults>>

EditEntry ==
  /\ api.cr # None
  /\ api.cr.rv < MaxRv
  /\ \E s \in Specs :
       /\ <<api.cr.spec, s>> \in Edits
       /\ api' = [api EXCEPT !.cr.spec = s, !.cr.rv = @ + 1]
  /\ UNCHANGED <<lastUid, clock, faults>>

\* With a finalizer the CR is only marked; without one it is gone at once.
DeleteEntry ==
  /\ api.cr # None
  /\ ~ api.cr.deleting
  /\ \/ /\ api.cr.finalizer
        /\ api' = [api EXCEPT !.cr.deleting = TRUE, !.cr.rv = @ + 1]
     \/ /\ ~ api.cr.finalizer
        /\ api' = [api EXCEPT !.cr = None]
  /\ UNCHANGED <<lastUid, clock, faults>>

User == CreateEntry \/ EditEntry \/ DeleteEntry

-----------------------------------------------------------------------------
(* The kubelet.  A container gets its environment from the ConfigMap when  *)
(* it starts (envFrom), and again at every restart.                        *)

StartPod(p) ==
  /\ Exists(p)
  /\ api.pods[p].phase = "Pending"
  /\ ~ api.pods[p].deleting
  /\ api.cm # None
  /\ api' = [api EXCEPT !.pods[p].phase = "Running", !.pods[p].env = api.cm.data]
  /\ UNCHANGED <<lastUid, clock, faults>>

RestartContainer(p) ==
  /\ Exists(p)
  /\ api.pods[p].phase = "Running"
  /\ ~ api.pods[p].deleting
  /\ api.cm # None
  /\ Fault("restart")
  /\ api' = [api EXCEPT !.pods[p].env = api.cm.data]
  /\ UNCHANGED <<lastUid, clock>>

\* Eviction, node loss: restartPolicy Always does not bring such a Pod back.
PodFails(p) ==
  /\ Exists(p)
  /\ api.pods[p].phase # "Terminated"
  /\ ~ api.pods[p].deleting
  /\ Fault("podFailure")
  /\ api' = [api EXCEPT !.pods[p].phase = "Terminated"]
  /\ UNCHANGED <<lastUid, clock>>

PodGone(p) ==
  /\ Exists(p)
  /\ api.pods[p].deleting
  /\ api' = [api EXCEPT !.pods[p] = None]
  /\ UNCHANGED <<lastUid, clock, faults>>

Kubelet(p) == StartPod(p) \/ RestartContainer(p) \/ PodFails(p) \/ PodGone(p)

-----------------------------------------------------------------------------
(* Garbage collection by owner reference, hand-made changes, time.  Under  *)
(* one controller only Pods are left without their owner (ChildrenOwned in *)
(* EntryOperator); PollingRollout collects the other objects as well.      *)

Orphan(owner) == api.cr # None => api.cr.uid # owner

CollectPod(p) ==
  /\ Exists(p)
  /\ Orphan(api.pods[p].owner)
  /\ ~ api.pods[p].deleting
  /\ api' = [api EXCEPT !.pods = DeletePod(api.pods, p)]
  /\ UNCHANGED <<lastUid, clock, faults>>

DriftPod(p) ==
  /\ Exists(p)
  /\ ~ api.pods[p].deleting
  /\ Fault("drift")
  /\ api' = [api EXCEPT !.pods = DeletePod(api.pods, p)]
  /\ UNCHANGED <<lastUid, clock>>

DriftChild(k) ==
  /\ api[k] # None
  /\ Fault("drift")
  /\ api' = [api EXCEPT ![k] = None]
  /\ UNCHANGED <<lastUid, clock>>

NextSecond ==
  /\ clock < MaxClock
  /\ clock' = clock + 1
  /\ UNCHANGED <<api, lastUid, faults>>

ClusterNext ==
  \/ User
  \/ \E p \in PodIds : Kubelet(p) \/ CollectPod(p) \/ DriftPod(p)
  \/ \E k \in {"cm", "svc"} : DriftChild(k)
  \/ NextSecond

-----------------------------------------------------------------------------
(* What ManagedEntry sees of the stored objects.                           *)

Phase ==
  IF api.cr = None THEN "absent"
  ELSE IF api.cr.deleting THEN "marked"
  ELSE IF api.cr.finalizer THEN "guarded" ELSE "new"

Owner(object) == IF object = None THEN None ELSE object.owner

Managed == INSTANCE ManagedEntry
             WITH phase <- Phase, uid <- lastUid,
                  owner <- [k \in {"cm", "svc"} |-> Owner(api[k])],
                  podOwner <- [p \in PodIds |-> Owner(api.pods[p])]
=============================================================================
