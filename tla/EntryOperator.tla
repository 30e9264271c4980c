--------------------------- MODULE EntryOperator ----------------------------
(***************************************************************************)
(* The operator's DbcpEntryServiceReconciler                               *)
(* (operator/internal/controller/dbcpentryservice_controller.go) on top of *)
(* EntryCluster.                                                           *)
(*                                                                         *)
(* The manager's client reads from informer caches and writes to the API   *)
(* server.  The cache of a kind shows some earlier state of that kind and  *)
(* catches up change by change: `cache' is what reads return, `events' the *)
(* changes the watch has still to deliver.  The workqueue holds one key    *)
(* and one worker serves it, so at most one reconcile pass runs; a pass is *)
(* one action per API call, with its local variables kept between them.    *)
(* Reading a cache and the API call that follows are one action: watch     *)
(* deliveries in between change neither what was read nor what the call    *)
(* does.                                                                   *)
(***************************************************************************)
EXTENDS EntryCluster

CONSTANT MaxLag   \* bound: undelivered changes of one kind

ASSUME LagAssumption == MaxLag \in Nat \ {0}

VARIABLES
  cache,    \* what the client's Get and List return
  events,   \* per kind, the later states not yet delivered by the watch
  queued,   \* the CR's key is in the workqueue (or waits there for its timer)
  pc,       \* the API call the running pass makes next; "idle" between passes
  entry,    \* the CR as the pass read it
  doomed,   \* Pods the pass has still to delete
  current   \* Pods the pass counts towards the replicas, with their timestamps

passVars == <<pc, entry, doomed, current>>
vars == <<clusterVars, cache, events, queued, passVars>>

Steps == {"idle", "addFinalizer", "cleanupPods", "cleanupConfigMap",
          "removeFinalizer", "ensureConfigMap", "ensureService", "listPods",
          "reconcilePods"}

Histories == [cr : Seq(Entry \cup {None}), cm : Seq(ConfigMap \cup {None}),
              svc : Seq(Service \cup {None}),
              pods : Seq([PodIds -> Pod \cup {None}])]

TypeOK ==
  /\ ClusterTypeOK
  /\ cache \in Objects
  /\ events \in Histories
  /\ queued \in BOOLEAN
  /\ pc \in Steps
  /\ entry \in (IF pc = "idle" THEN {None} ELSE Entry)
  /\ doomed \subseteq PodIds
  /\ current \subseteq PodIds \X (0 .. MaxClock)

-----------------------------------------------------------------------------
(* What the controller derives from the CR.  Hashes are taken to be free   *)
(* of collisions, so a hash is the tuple of what went into it.             *)

\* Mutants are wrong versions of the definition that follows them, as a slip in
\* the code would make them; no specification uses them.

\* Mutant: the secret is derived from namespace and name alone.
SecretOfName(e) == 1

\* Mutant: the uid of an object that was never stored.
SecretOfEmptyUid(e) == 0

StableTokenSecret(e) == e.uid

DesiredConfigData(e) == <<StableTokenSecret(e), e.spec.config>>

CalculateSpecHash(e) == <<DesiredConfigData(e), e.spec.image>>

DesiredConfigMap(e) == [owner |-> e.uid, data |-> DesiredConfigData(e)]

DesiredService(e) == [owner |-> e.uid, port |-> e.spec.config]

DesiredPod(e) ==
  [hash |-> CalculateSpecHash(e), owner |-> e.uid, env |-> None,
   phase |-> "Pending", deleting |-> FALSE, created |-> clock]

-----------------------------------------------------------------------------
(* The client: writes are seen by the watch, reads come from the cache.    *)

Watch ==
  /\ \A k \in Kinds : api'[k] # api[k] => Len(events[k]) < MaxLag
  /\ events' = [k \in Kinds |-> IF api'[k] = api[k] THEN events[k]
                                ELSE Append(events[k], api'[k])]

\* The cached object of kind k is the stored one: an Update with its
\* resourceVersion is accepted.
UpToDate(k) == events[k] = <<>>

Write(newApi) ==
  /\ api' = newApi
  /\ Watch
  /\ UNCHANGED <<lastUid, clock, faults, cache>>

Continue(step) ==
  /\ pc' = step
  /\ UNCHANGED <<entry, queued>>

\* Reconcile returns; `again' when the result or an error puts the key back.
Return(again) ==
  /\ pc' = "idle"
  /\ entry' = None
  /\ doomed' = {}
  /\ current' = {}
  /\ queued' = (queued \/ again)

\* controllerutil.CreateOrUpdate of the object of kind k.  `same' says that the
\* mutated copy equals the cached object, when no call is made.  A cached object
\* of an earlier incarnation is adopted: SetControllerReference compares group,
\* kind and name of the owner.
CreateOrUpdate(k, desired, same, next) ==
  \/ /\ IF cache[k] = None THEN api[k] = None ELSE same \/ UpToDate(k)
     /\ Write(IF cache[k] # None /\ same THEN api ELSE [api EXCEPT ![k] = desired])
     /\ Continue(next)
     /\ UNCHANGED <<doomed, current>>
  \/ \* AlreadyExists, Conflict, NotFound
     /\ IF cache[k] = None THEN api[k] # None ELSE ~ same /\ ~ UpToDate(k)
     /\ Write(api)
     /\ Return(TRUE)

-----------------------------------------------------------------------------
(* One reconcile pass.                                                     *)

\* Mutant: the check for the finalizer is missing.
ReconcileUnguarded ==
  /\ pc = "idle"
  /\ queued
  /\ queued' = FALSE
  /\ entry' = cache.cr
  /\ \/ /\ cache.cr = None
        /\ pc' = "idle"
        /\ UNCHANGED doomed
     \/ /\ cache.cr # None /\ cache.cr.deleting
        /\ pc' = "cleanupPods"
        /\ doomed' = {p \in PodIds : cache.pods[p] # None}
     \/ /\ cache.cr # None /\ ~ cache.cr.deleting
        /\ pc' = "ensureConfigMap"
        /\ UNCHANGED doomed
  /\ UNCHANGED <<clusterVars, cache, events, current>>

\* Get the CR and choose the branch.  The List of cleanupOwnedResources follows
\* with no call in between.
Reconcile ==
  /\ pc = "idle"
  /\ queued
  /\ queued' = FALSE
  /\ entry' = cache.cr
  /\ \/ /\ cache.cr = None
        /\ pc' = "idle"
        /\ UNCHANGED doomed
     \/ /\ cache.cr # None /\ cache.cr.deleting
        /\ pc' = "cleanupPods"
        /\ doomed' = {p \in PodIds : cache.pods[p] # None}
     \/ /\ cache.cr # None /\ ~ cache.cr.deleting
        /\ pc' = IF cache.cr.finalizer THEN "ensureConfigMap" ELSE "addFinalizer"
        /\ UNCHANGED doomed
  /\ UNCHANGED <<clusterVars, cache, events, current>>

\* Update with the resourceVersion that was read; a conflict ends the pass.
AddFinalizer ==
  /\ pc = "addFinalizer"
  /\ \/ /\ api.cr = entry
        /\ Write([api EXCEPT !.cr.finalizer = TRUE, !.cr.rv = @ + 1])
        /\ Return(FALSE)
     \/ /\ api.cr # entry
        /\ Write(api)
        /\ Return(TRUE)

CleanupPod ==
  /\ pc = "cleanupPods"
  /\ \E p \in doomed :
       /\ doomed' = doomed \ {p}
       /\ Write([api EXCEPT !.pods = DeletePod(api.pods, p)])
  /\ Continue(pc)
  /\ UNCHANGED current

\* Mutant: cleanup forgets the Service.
CleanupServiceSkipped ==
  /\ pc = "cleanupPods"
  /\ doomed = {}
  /\ Write(api)
  /\ Continue("cleanupConfigMap")
  /\ UNCHANGED <<doomed, current>>

CleanupService ==
  /\ pc = "cleanupPods"
  /\ doomed = {}
  /\ Write([api EXCEPT !.svc = None])
  /\ Continue("cleanupConfigMap")
  /\ UNCHANGED <<doomed, current>>

CleanupConfigMap ==
  /\ pc = "cleanupConfigMap"
  /\ Write([api EXCEPT !.cm = None])
  /\ Continue("removeFinalizer")
  /\ UNCHANGED <<doomed, current>>

\* The finalizer was the last one: the API server drops the CR.
RemoveFinalizer ==
  /\ pc = "removeFinalizer"
  /\ \/ /\ api.cr = entry
        /\ Write([api EXCEPT !.cr = None])
        /\ Return(FALSE)
     \/ /\ api.cr # entry
        /\ Write(api)
        /\ Return(TRUE)

\* Mutant: an existing ConfigMap is left as it is.
EnsureConfigMapOnce ==
  /\ pc = "ensureConfigMap"
  /\ CreateOrUpdate("cm", DesiredConfigMap(entry), cache.cm # None, "ensureService")

EnsureConfigMap ==
  /\ pc = "ensureConfigMap"
  /\ CreateOrUpdate("cm", DesiredConfigMap(entry),
                    cache.cm = DesiredConfigMap(entry), "ensureService")

\* The mutated copy has no cluster IP, so it never equals the cached Service.
EnsureService ==
  /\ pc = "ensureService"
  /\ CreateOrUpdate("svc", DesiredService(entry), FALSE, "listPods")

\* Mutant: Failed and Succeeded Pods count as current.
ListPodsAnyPhase ==
  /\ pc = "listPods"
  /\ LET listed   == {p \in PodIds : cache.pods[p] # None /\ ~ cache.pods[p].deleting}
         matching == {p \in listed : cache.pods[p].hash = CalculateSpecHash(entry)}
     IN  /\ current' = {<<p, cache.pods[p].created>> : p \in matching}
         /\ doomed' = listed \ matching
  /\ Continue("reconcilePods")
  /\ UNCHANGED <<clusterVars, cache, events>>

\* Pods on their way out count neither as current nor as something to delete.
ListPods ==
  /\ pc = "listPods"
  /\ LET listed   == {p \in PodIds : cache.pods[p] # None /\ ~ cache.pods[p].deleting}
         matching == {p \in listed : /\ cache.pods[p].phase # "Terminated"
                                     /\ cache.pods[p].hash = CalculateSpecHash(entry)}
     IN  /\ current' = {<<p, cache.pods[p].created>> : p \in matching}
         /\ doomed' = listed \ matching
  /\ Continue("reconcilePods")
  /\ UNCHANGED <<clusterVars, cache, events>>

DeleteOutdated ==
  /\ pc = "reconcilePods"
  /\ \E p \in doomed :
       /\ doomed' = doomed \ {p}
       /\ Write([api EXCEPT !.pods = DeletePod(api.pods, p)])
  /\ Continue(pc)
  /\ UNCHANGED current

\* Mutant: scaling down shortens the slice without deleting the Pod.
ScaleDownSliceOnly ==
  /\ pc = "reconcilePods"
  /\ doomed = {}
  /\ Cardinality(current) > entry.spec.replicas
  /\ \E newest \in current :
       /\ \A other \in current : other[2] <= newest[2]
       /\ current' = current \ {newest}
       /\ Write(api)
  /\ Continue(pc)
  /\ UNCHANGED doomed

\* Timestamps are whole seconds and the sort is not stable: among the newest
\* Pods any may come last.
ScaleDown ==
  /\ pc = "reconcilePods"
  /\ doomed = {}
  /\ Cardinality(current) > entry.spec.replicas
  /\ \E newest \in current :
       /\ \A other \in current : other[2] <= newest[2]
       /\ current' = current \ {newest}
       /\ Write([api EXCEPT !.pods = DeletePod(api.pods, newest[1])])
  /\ Continue(pc)
  /\ UNCHANGED doomed

\* A name no Pod has or had as far as anybody remembers.
Fresh(p) ==
  /\ api.pods[p] = None
  /\ cache.pods[p] = None
  /\ \A i \in 1 .. Len(events.pods) : events.pods[i][p] = None
  /\ \A c \in current : c[1] # p

\* Creating beyond the quota is an error, like any failed Create.
ScaleUp ==
  /\ pc = "reconcilePods"
  /\ doomed = {}
  /\ Cardinality(current) < entry.spec.replicas
  /\ IF \E p \in PodIds : Fresh(p)
     THEN LET p == CHOOSE p \in PodIds : Fresh(p)
          IN  /\ current' = current \cup {<<p, clock>>}
              /\ Write([api EXCEPT !.pods[p] = DesiredPod(entry)])
              /\ Continue(pc)
              /\ UNCHANGED doomed
     ELSE Write(api) /\ Return(TRUE)

\* RequeueAfter: defaultSyncInterval.
ReconcileDone ==
  /\ pc = "reconcilePods"
  /\ doomed = {}
  /\ Cardinality(current) = entry.spec.replicas
  /\ Write(api)
  /\ Return(TRUE)

\* The call the pass is about to make fails, for any other reason.
CallFails ==
  /\ pc # "idle"
  /\ Fault("apiError")
  /\ Return(TRUE)
  /\ UNCHANGED <<api, lastUid, clock, cache, events>>

Pass ==
  \/ Reconcile
  \/ AddFinalizer
  \/ CleanupPod
  \/ CleanupService
  \/ CleanupConfigMap
  \/ RemoveFinalizer
  \/ EnsureConfigMap
  \/ EnsureService
  \/ ListPods
  \/ DeleteOutdated
  \/ ScaleDown
  \/ ScaleUp
  \/ ReconcileDone

-----------------------------------------------------------------------------
(* Around the pass: watch, full sync, restart.                             *)

\* Only the CR is watched for reconciliation.
Deliver(k) ==
  /\ events[k] # <<>>
  /\ cache' = [cache EXCEPT ![k] = Head(events[k])]
  /\ events' = [events EXCEPT ![k] = Tail(@)]
  /\ queued' = (queued \/ k = "cr")
  /\ UNCHANGED <<clusterVars, passVars>>

\* The ticker goroutine lists the CRs (from the cache) and enqueues them.
FullSync ==
  /\ cache.cr # None
  /\ ~ queued
  /\ queued' = TRUE
  /\ UNCHANGED <<clusterVars, cache, events, passVars>>

\* The process ends anywhere in a pass.  The next leader lists everything
\* afresh and gets a create event for the CR if there is one.
Crash ==
  /\ Fault("crash")
  /\ cache' = api
  /\ events' = [k \in Kinds |-> <<>>]
  /\ queued' = (api.cr # None)
  /\ pc' = "idle"
  /\ entry' = None
  /\ doomed' = {}
  /\ current' = {}
  /\ UNCHANGED <<api, lastUid, clock>>

\* A step of the cluster, seen by the watch.
Cluster(A) ==
  /\ A
  /\ Watch
  /\ UNCHANGED <<cache, queued, passVars>>

Init ==
  /\ ClusterInit
  /\ cache = api
  /\ events = [k \in Kinds |-> <<>>]
  /\ queued = FALSE
  /\ pc = "idle"
  /\ entry = None
  /\ doomed = {}
  /\ current = {}

Next ==
  \/ Cluster(ClusterNext)
  \/ Pass
  \/ CallFails
  \/ \E k \in Kinds : Deliver(k)
  \/ FullSync
  \/ Crash

SafetySpec == Init /\ [][Next]_vars

\* The worker, the ticker and the watches run; the kubelet and the garbage
\* collector do their work.  Users and faults owe nothing.
Fairness ==
  /\ WF_vars(Pass)
  /\ WF_vars(FullSync)
  /\ \A k \in Kinds : WF_vars(Deliver(k))
  /\ \A p \in PodIds : /\ WF_vars(Cluster(StartPod(p)))
                       /\ WF_vars(Cluster(PodGone(p)))
                       /\ WF_vars(Cluster(CollectPod(p)))

Spec == SafetySpec /\ Fairness

-----------------------------------------------------------------------------
(* Safety.                                                                 *)

\* The ConfigMap and the Service belong to the incarnation of the CR that
\* exists, and that incarnation and the Pods it owns are under the finalizer:
\* no early return, failed call or restart in Reconcile leaves an object that
\* outlives its CR unnoticed.
ChildrenOwned ==
  /\ \A k \in {"cm", "svc"} :
       api[k] # None => /\ api.cr # None
                        /\ api.cr.finalizer
                        /\ api[k].owner = api.cr.uid
  /\ \A p \in PodIds :
       (Exists(p) /\ ~ Orphan(api.pods[p].owner)) => api.cr.finalizer

\* A Pod that reconcilePods counts as current, because its hash label is that of
\* the CR as stored, is not one the garbage collector is about to take away.
CurrentPodsKept ==
  \A p \in PodIds :
    (/\ api.cr # None /\ Exists(p)
     /\ api.pods[p].hash = CalculateSpecHash(api.cr))
      => ~ Orphan(api.pods[p].owner)

\* A running Pod with the hash of the stored spec runs with the environment
\* rendered from that spec: ensureConfigMap comes before every Create.
EnvMatchesHash ==
  \A p \in PodIds :
    (/\ api.cr # None /\ Exists(p)
     /\ api.pods[p].phase = "Running" /\ ~ api.pods[p].deleting
     /\ api.pods[p].hash = CalculateSpecHash(api.cr))
      => api.pods[p].env = DesiredConfigData(api.cr)

\* reconcilePods creates a Pod only while the CR it was read from still exists
\* under its finalizer, however long ago the pass read it.
CreatesForLiveEntry ==
  [][\A p \in PodIds :
       (~ Exists(p) /\ Exists(p)') => /\ api.cr # None
                                      /\ api.cr.finalizer
                                      /\ api.cr.uid = entry.uid]_vars

\* Behind caches, interrupted passes and failed calls, the operator keeps what
\* ManagedEntry promises: it makes objects only for the incarnation that exists
\* and under its finalizer, and the CR goes, and comes back, only without
\* ConfigMap and Service.
ImplementsManagedEntry == Managed!Spec

\* The finalizer is removed only when no Pod of that incarnation is left to run.
NoPodLeftBehind ==
  [][(api.cr # None /\ api.cr.finalizer /\ api.cr' = None)
       => \A p \in PodIds :
            (Exists(p) /\ api.pods[p].owner = api.cr.uid) => api.pods[p].deleting]_vars

-----------------------------------------------------------------------------
(* Liveness.                                                               *)

Settled ==
  LET existing == {p \in PodIds : Exists(p)}
  IN  IF api.cr = None
      THEN api.cm = None /\ api.svc = None /\ existing = {}
      ELSE /\ ~ api.cr.deleting
           /\ api.cm = DesiredConfigMap(api.cr)
           /\ api.svc = DesiredService(api.cr)
           /\ Cardinality(existing) = api.cr.spec.replicas
           /\ \A p \in existing :
                /\ api.pods[p].hash = CalculateSpecHash(api.cr)
                /\ api.pods[p].phase = "Running"
                /\ ~ api.pods[p].deleting

PromptWatch == <>[][Reconcile => \A k \in Kinds : UpToDate(k)]_vars

\* Once users and faults rest, and passes start with caches that have caught up,
\* the cluster reaches what the spec asks for and stays there; a deleted CR goes
\* away with everything it owned.
Settles == PromptWatch => <>[]Settled

\* Under the same assumptions, the Pods of a live CR end up running with the
\* environment rendered from its spec.
EnvSettles ==
  PromptWatch =>
    <>[](api.cr # None =>
           \A p \in PodIds : Exists(p) => api.pods[p].env = DesiredConfigData(api.cr))
=============================================================================
