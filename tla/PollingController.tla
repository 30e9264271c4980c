------------------------- MODULE PollingController --------------------------
(***************************************************************************)
(* The first controller (cloud_native_entry_task/controllers) on top of    *)
(* EntryCluster.  It polls: every resync it lists the CRs and reconciles   *)
(* each, reading from the API server itself and keeping nothing between    *)
(* two polls.  One action per API call, for the one CR of EntryCluster;    *)
(* the time spent on other CRs passes between List and the next call.      *)
(* PollingRollout lets two instances run at once.                          *)
(***************************************************************************)
EXTENDS EntryCluster

CONSTANT Malformed   \* the specs that the CRD admits and parseSpec refuses

ASSUME MalformedAssumption == Malformed \subseteq Specs

VARIABLES
  pc,       \* the API call that comes next; "polling" is the List of CRs
  entry,    \* the CR as listed, or as returned by addFinalizer
  existing, \* the ConfigMap or Service just read
  doomed,   \* Pods still to be deleted
  current   \* Pods counted towards the replicas, with their timestamps

passVars == <<pc, entry, existing, doomed, current>>
vars == <<clusterVars, passVars>>

Steps == {"polling", "addFinalizer", "listCleanup", "cleanupPods", "cleanupConfigMap",
          "removeFinalizer", "getConfigMap", "putConfigMap", "getService",
          "putService", "listPods", "reconcilePods"}

TypeOK ==
  /\ ClusterTypeOK
  /\ pc \in Steps
  /\ entry \in (IF pc = "polling" THEN {None} ELSE Entry)
  /\ existing \in ConfigMap \cup Service \cup {None}
  /\ doomed \subseteq PodIds
  /\ current \subseteq PodIds \X (0 .. MaxClock)

-----------------------------------------------------------------------------
(* What is derived from the CR.  A hash is the tuple of what is hashed.    *)

\* Mutants are wrong versions of the definition that follows them; no
\* specification uses them.

\* Mutant: the uid of an object that was never stored.
SecretOfEmptyUid(e) == 0

StableTokenSecret(e) == e.uid

DesiredConfigData(e) == <<StableTokenSecret(e), e.spec.config>>

DesiredSpecHash(e) == <<DesiredConfigData(e), e.spec.image>>

DesiredConfigMap(e) == [owner |-> e.uid, data |-> DesiredConfigData(e)]

DesiredService(e) == [owner |-> e.uid, port |-> e.spec.config]

DesiredPod(e) ==
  [hash |-> DesiredSpecHash(e), owner |-> e.uid, env |-> None,
   phase |-> "Pending", deleting |-> FALSE, created |-> clock]

-----------------------------------------------------------------------------
(* API calls.                                                              *)

Write(newApi) ==
  /\ api' = newApi
  /\ UNCHANGED <<lastUid, clock, faults>>

Continue(step) ==
  /\ pc' = step
  /\ UNCHANGED <<entry, existing, doomed, current>>

\* reconcileCR returns, with or without an error; the ticker comes next.
Return ==
  /\ pc' = "polling"
  /\ entry' = None
  /\ existing' = None
  /\ doomed' = {}
  /\ current' = {}

-----------------------------------------------------------------------------
(* reconcileAll and reconcileCR.                                           *)

\* Where reconcileCR goes with a CR under the finalizer.
Parsed(e) ==
  IF e.spec \in Malformed
  THEN Return
  ELSE /\ pc' = "getConfigMap"
       /\ entry' = e
       /\ UNCHANGED <<existing, doomed, current>>

\* Mutant: the spec is parsed first, also for a CR on its way out.
ListParsing ==
  /\ pc = "polling"
  /\ api.cr # None
  /\ \/ api.cr.spec \in Malformed /\ Return
     \/ /\ api.cr.spec \notin Malformed
        /\ entry' = api.cr
        /\ pc' = IF api.cr.deleting THEN "listCleanup"
                 ELSE IF api.cr.finalizer THEN "getConfigMap" ELSE "addFinalizer"
        /\ UNCHANGED <<existing, doomed, current>>
  /\ UNCHANGED clusterVars

\* Mutant: the finalizer is not waited for.
ListUnguarded ==
  /\ pc = "polling"
  /\ api.cr # None
  /\ \/ /\ api.cr.deleting
        /\ pc' = "listCleanup" /\ entry' = api.cr
        /\ UNCHANGED <<existing, doomed, current>>
     \/ ~ api.cr.deleting /\ Parsed(api.cr)
  /\ UNCHANGED clusterVars

List ==
  /\ pc = "polling"
  /\ api.cr # None
  /\ \/ /\ api.cr.deleting
        /\ pc' = "listCleanup" /\ entry' = api.cr
        /\ UNCHANGED <<existing, doomed, current>>
     \/ /\ ~ api.cr.deleting /\ ~ api.cr.finalizer
        /\ pc' = "addFinalizer" /\ entry' = api.cr
        /\ UNCHANGED <<existing, doomed, current>>
     \/ /\ ~ api.cr.deleting /\ api.cr.finalizer
        /\ Parsed(api.cr)
  /\ UNCHANGED clusterVars

\* Update with the resourceVersion listed; the pass goes on with what it returns.
AddFinalizer ==
  /\ pc = "addFinalizer"
  /\ \/ /\ api.cr = entry
        /\ LET updated == [entry EXCEPT !.finalizer = TRUE, !.rv = @ + 1]
           IN  /\ Write([api EXCEPT !.cr = updated])
               /\ Parsed(updated)
     \/ /\ api.cr # entry
        /\ Write(api)
        /\ Return

\* Mutant: only Pods that run are listed.
ListCleanupRunning ==
  /\ pc = "listCleanup"
  /\ pc' = "cleanupPods"
  /\ doomed' = {p \in PodIds : Exists(p) /\ api.pods[p].phase = "Running"}
  /\ UNCHANGED <<clusterVars, entry, existing, current>>

ListCleanup ==
  /\ pc = "listCleanup"
  /\ pc' = "cleanupPods"
  /\ doomed' = {p \in PodIds : Exists(p)}
  /\ UNCHANGED <<clusterVars, entry, existing, current>>

CleanupPod ==
  /\ pc = "cleanupPods"
  /\ \E p \in doomed :
       /\ doomed' = doomed \ {p}
       /\ Write([api EXCEPT !.pods = DeletePod(api.pods, p)])
  /\ UNCHANGED <<pc, entry, existing, current>>

\* Mutant: cleanup forgets the ConfigMap.
CleanupServiceOnly ==
  /\ pc = "cleanupPods"
  /\ doomed = {}
  /\ Write([api EXCEPT !.svc = None])
  /\ Continue("removeFinalizer")

CleanupService ==
  /\ pc = "cleanupPods"
  /\ doomed = {}
  /\ Write([api EXCEPT !.svc = None])
  /\ Continue("cleanupConfigMap")

CleanupConfigMap ==
  /\ pc = "cleanupConfigMap"
  /\ Write([api EXCEPT !.cm = None])
  /\ Continue("removeFinalizer")

\* A marked CR exists only under its finalizer, so hasFinalizer is true.  A
\* conflict leaves the CR to the next poll.
RemoveFinalizer ==
  /\ pc = "removeFinalizer"
  /\ Write(IF api.cr = entry THEN [api EXCEPT !.cr = None] ELSE api)
  /\ Return

-----------------------------------------------------------------------------
(* ensureConfigMap and ensureService.                                      *)

\* Nothing is written when the object is as desired.
Get(k, desired, put, next) ==
  /\ existing' = api[k]
  /\ pc' = IF api[k] = desired THEN next ELSE put
  /\ UNCHANGED <<clusterVars, entry, doomed, current>>

\* Create when nothing was found, else Update.  Nobody else writes the object; it
\* may have been deleted since, and then the Update fails.
Put(k, desired, next) ==
  \/ /\ api[k] = existing
     /\ Write([api EXCEPT ![k] = desired])
     /\ Continue(next)
  \/ /\ api[k] # existing
     /\ Write(api)
     /\ Return

GetConfigMap ==
  /\ pc = "getConfigMap"
  /\ Get("cm", DesiredConfigMap(entry), "putConfigMap", "getService")

\* Mutant: an existing ConfigMap is not updated.
PutConfigMapOnce ==
  /\ pc = "putConfigMap"
  /\ Write(IF api.cm = None THEN [api EXCEPT !.cm = DesiredConfigMap(entry)] ELSE api)
  /\ Continue("getService")

PutConfigMap ==
  /\ pc = "putConfigMap"
  /\ Put("cm", DesiredConfigMap(entry), "getService")

GetService ==
  /\ pc = "getService"
  /\ Get("svc", DesiredService(entry), "putService", "listPods")

PutService ==
  /\ pc = "putService"
  /\ Put("svc", DesiredService(entry), "listPods")

-----------------------------------------------------------------------------
(* reconcilePods.                                                          *)

\* Mutant: Pods that have not started yet are passed over too.
ListPodsStarted ==
  /\ pc = "listPods"
  /\ LET listed   == {p \in PodIds : /\ Exists(p) /\ ~ api.pods[p].deleting
                                     /\ api.pods[p].phase # "Pending"}
         matching == {p \in listed : /\ api.pods[p].phase # "Terminated"
                                     /\ api.pods[p].hash = DesiredSpecHash(entry)}
     IN  /\ current' = {<<p, api.pods[p].created>> : p \in matching}
         /\ doomed' = listed \ matching
  /\ pc' = "reconcilePods"
  /\ UNCHANGED <<clusterVars, entry, existing>>

\* Pods on their way out are passed over; Failed, Succeeded and outdated ones are
\* deleted in the loop that collects the current ones.
ListPods ==
  /\ pc = "listPods"
  /\ LET listed   == {p \in PodIds : Exists(p) /\ ~ api.pods[p].deleting}
         matching == {p \in listed : /\ api.pods[p].phase # "Terminated"
                                     /\ api.pods[p].hash = DesiredSpecHash(entry)}
     IN  /\ current' = {<<p, api.pods[p].created>> : p \in matching}
         /\ doomed' = listed \ matching
  /\ pc' = "reconcilePods"
  /\ UNCHANGED <<clusterVars, entry, existing>>

DeleteOutdated ==
  /\ pc = "reconcilePods"
  /\ \E p \in doomed :
       /\ doomed' = doomed \ {p}
       /\ Write([api EXCEPT !.pods = DeletePod(api.pods, p)])
  /\ UNCHANGED <<pc, entry, existing, current>>

\* The last after a sort by timestamps in whole seconds that is not stable.
ScaleDown ==
  /\ pc = "reconcilePods"
  /\ doomed = {}
  /\ Cardinality(current) > entry.spec.replicas
  /\ \E newest \in current :
       /\ \A other \in current : other[2] <= newest[2]
       /\ current' = current \ {newest}
       /\ Write([api EXCEPT !.pods = DeletePod(api.pods, newest[1])])
  /\ UNCHANGED <<pc, entry, existing, doomed>>

\* generateName yields a name that is not in use; beyond the quota Create fails.
Fresh(p) == ~ Exists(p) /\ \A c \in current : c[1] # p

ScaleUp ==
  /\ pc = "reconcilePods"
  /\ doomed = {}
  /\ Cardinality(current) < entry.spec.replicas
  /\ \/ \E p \in PodIds :
          /\ Fresh(p)
          /\ current' = current \cup {<<p, clock>>}
          /\ Write([api EXCEPT !.pods[p] = DesiredPod(entry)])
          /\ UNCHANGED <<pc, entry, existing, doomed>>
     \/ /\ ~ \E p \in PodIds : Fresh(p)
        /\ Write(api)
        /\ Return

ReconcileDone ==
  /\ pc = "reconcilePods"
  /\ doomed = {}
  /\ Cardinality(current) = entry.spec.replicas
  /\ Write(api)
  /\ Return

-----------------------------------------------------------------------------
\* The next call fails, which ends the pass.  A process that ends here and is
\* started again is no different: it begins with a poll.
CallFails ==
  /\ pc # "polling"
  /\ Fault("apiError")
  /\ Return
  /\ UNCHANGED <<api, lastUid, clock>>

Init ==
  /\ ClusterInit
  /\ pc = "polling"
  /\ entry = None
  /\ existing = None
  /\ doomed = {}
  /\ current = {}

ReconcileCR ==
  \/ AddFinalizer
  \/ ListCleanup \/ CleanupPod \/ CleanupService \/ CleanupConfigMap \/ RemoveFinalizer
  \/ GetConfigMap \/ PutConfigMap \/ GetService \/ PutService
  \/ ListPods \/ DeleteOutdated \/ ScaleDown \/ ScaleUp \/ ReconcileDone

\* A step of the cluster.
Cluster(A) == A /\ UNCHANGED passVars

Next ==
  \/ Cluster(ClusterNext)
  \/ List
  \/ ReconcileCR
  \/ CallFails

-----------------------------------------------------------------------------
(* Properties.                                                             *)

\* ConfigMap and Service belong to the incarnation of the CR that exists, and it
\* and the Pods it owns are under the finalizer, although reconcileCR acts on a
\* CR that was listed before all its calls.
ChildrenOwned ==
  /\ \A k \in {"cm", "svc"} :
       api[k] # None => /\ api.cr # None
                        /\ api.cr.finalizer
                        /\ api[k].owner = api.cr.uid
  /\ \A p \in PodIds :
       (Exists(p) /\ ~ Orphan(api.pods[p].owner)) => api.cr.finalizer

\* A running Pod with the hash of the stored spec has the environment rendered
\* from that spec: ensureConfigMap succeeds before any Pod is created.  This needs
\* Edits that never return to an earlier configuration (see EntryOperator).
EnvMatchesHash ==
  \A p \in PodIds :
    (/\ api.cr # None /\ Exists(p)
     /\ api.pods[p].phase = "Running" /\ ~ api.pods[p].deleting
     /\ api.pods[p].hash = DesiredSpecHash(api.cr))
      => api.pods[p].env = DesiredConfigData(api.cr)

Settled ==
  LET pods == {p \in PodIds : Exists(p)}
  IN  IF api.cr = None
      THEN api.cm = None /\ api.svc = None /\ pods = {}
      ELSE /\ ~ api.cr.deleting
           /\ api.cr.spec \notin Malformed =>
                /\ api.cm = DesiredConfigMap(api.cr)
                /\ api.svc = DesiredService(api.cr)
                /\ Cardinality(pods) = api.cr.spec.replicas
                /\ \A p \in pods : /\ api.pods[p].hash = DesiredSpecHash(api.cr)
                                    /\ api.pods[p].phase = "Running"
                                    /\ ~ api.pods[p].deleting

\* Once users and faults rest, polling reaches what the spec asks for and leaves
\* it so; a deleted CR goes away with everything it owned, even when its spec
\* cannot be parsed.
Settles == <>[]Settled
=============================================================================
