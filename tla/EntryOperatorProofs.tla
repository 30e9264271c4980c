------------------------ MODULE EntryOperatorProofs -------------------------
(***************************************************************************)
(* Proofs about EntryOperator, for every set of Pods, specs and edits and  *)
(* any number of faults, incarnations and undelivered changes.             *)
(*                                                                         *)
(* The argument for ChildrenOwned and CreatesForLiveEntry: a version of    *)
(* the CR with the finalizer and not marked for deletion, seen anywhere in *)
(* the operator, is of an incarnation that still exists under its          *)
(* finalizer.  Only a pass that read a marked version removes the          *)
(* finalizer, and by then nothing older is left in cache or watch.  That   *)
(* the operator implements ManagedEntry follows from the same invariant.   *)
(*                                                                         *)
(* The argument for EnvMatchesHash, when edits never return to an earlier  *)
(* configuration: everything that names a configuration of one incarnation *)
(* is ordered.  A Pod's hash is not after the ConfigMap it starts with,    *)
(* the ConfigMaps that are stored or cached are not after the versions of  *)
(* the CR that a pass may still read, and these not after the stored one.  *)
(* So a Pod with the newest hash has the newest environment, and a stale   *)
(* ConfigMap in the cache that looks right is right.                       *)
(*                                                                         *)
(* NoPodLeftBehind does not hold, but fails only when a cleanup starts     *)
(* with a cache that misses a Pod: otherwise every Pod of the CR is on its *)
(* way out or still to be deleted until the finalizer goes.                *)
(***************************************************************************)
EXTENDS EntryOperator, EntryClusterProofs

\* The prover of the steps that name no other.
USE ZenonT(40)

EnsureSteps == {"ensureConfigMap", "ensureService", "listPods", "reconcilePods"}
CleanupSteps == {"cleanupPods", "cleanupConfigMap", "removeFinalizer"}

\* The versions of the CR the operator holds, in its pass, cache and watch.
Seen == {entry, cache.cr} \cup {events.cr[i] : i \in 1 .. Len(events.cr)}

\* No uid is ahead of the counter, and the stored CR is the newest incarnation.
SeenIssued ==
  /\ \A v \in Seen \cup {api.cr} : v # None => v.uid <= lastUid
  /\ api.cr # None => api.cr.uid = lastUid

Live(v) == v # None /\ v.finalizer /\ ~ v.deleting

SeenLiveExists ==
  \A v \in Seen : Live(v) => /\ api.cr # None
                             /\ api.cr.uid = v.uid
                             /\ api.cr.finalizer

\* w is not a version from before v: a deletion mark stays, and the configuration
\* does not go back when edits do not.
NotBefore(v, w) ==
  (v # None /\ w # None /\ w.uid = v.uid)
    => /\ v.deleting => w.deleting
       /\ Onward => Leads(v.spec.config, w.spec.config)

\* Versions are held in the order they were stored.
InOrder ==
  /\ \A v \in Seen : NotBefore(v, api.cr)
  /\ \A i, j \in 1 .. Len(events.cr) : i < j => NotBefore(events.cr[i], events.cr[j])
  /\ \A i \in 1 .. Len(events.cr) : /\ NotBefore(cache.cr, events.cr[i])
                                    /\ NotBefore(entry, events.cr[i])
  /\ NotBefore(entry, cache.cr)

PassBranch ==
  /\ pc \in EnsureSteps => Live(entry)
  /\ pc \in CleanupSteps => entry # None /\ entry.deleting
  /\ pc \in {"cleanupConfigMap", "removeFinalizer"} => api.svc = None
  /\ pc = "removeFinalizer" => api.cm = None

\* The token secret in a Pod's hash names the incarnation that owns the Pod.
HashNamesOwner ==
  \A p \in PodIds : Exists(p) => /\ api.pods[p].owner <= lastUid
                                 /\ api.pods[p].hash[1][1] = api.pods[p].owner

\* The inductive invariant.
IInv ==
  /\ TypeOK
  /\ SeenIssued
  /\ SeenLiveExists
  /\ InOrder
  /\ PassBranch
  /\ ChildrenOwned
  /\ HashNamesOwner

-----------------------------------------------------------------------------
(* Types.                                                                  *)

\* The events of one kind after a step that the watch sees.
LEMMA WatchEvents ==
  ASSUME Watch
  PROVE  /\ events'.cr = IF api'.cr = api.cr THEN events.cr
                         ELSE Append(events.cr, api'.cr)
         /\ events'.cm = IF api'.cm = api.cm THEN events.cm
                         ELSE Append(events.cm, api'.cm)
         /\ events'.svc = IF api'.svc = api.svc THEN events.svc
                          ELSE Append(events.svc, api'.svc)
         /\ events'.pods = IF api'.pods = api.pods THEN events.pods
                           ELSE Append(events.pods, api'.pods)
         /\ events' = [cr |-> events'.cr, cm |-> events'.cm, svc |-> events'.svc,
                       pods |-> events'.pods]
BY DEF Watch, Kinds

\* Each kind's undelivered changes form a sequence of that kind's states.
LEMMA HistoriesComponents ==
  ASSUME NEW h \in Histories
  PROVE  /\ h.cr \in Seq(Entry \cup {None})
         /\ h.cm \in Seq(ConfigMap \cup {None})
         /\ h.svc \in Seq(Service \cup {None})
         /\ h.pods \in Seq([PodIds -> Pod \cup {None}])
BY DEF Histories

\* Recording one more state keeps a sequence a sequence of such states.
LEMMA GrowType ==
  ASSUME NEW S, NEW s \in Seq(S), NEW x \in S, NEW y
  PROVE  (IF x = y THEN s ELSE Append(s, x)) \in Seq(S)
BY SMTT(20)

\* What the watch queues is what the API server may store.
LEMMA WatchType ==
  ASSUME TypeOK, api' \in Objects, Watch
  PROVE  events' \in Histories
<1>1. /\ events.cr \in Seq(Entry \cup {None})
      /\ events.cm \in Seq(ConfigMap \cup {None})
      /\ events.svc \in Seq(Service \cup {None})
      /\ events.pods \in Seq([PodIds -> Pod \cup {None}])
  BY HistoriesComponents DEF TypeOK
<1>. DEFINE o == api'
<1>2. o \in Objects
  OBVIOUS
<1>3. /\ api'.cr \in Entry \cup {None}
      /\ api'.cm \in ConfigMap \cup {None}
      /\ api'.svc \in Service \cup {None}
      /\ api'.pods \in [PodIds -> Pod \cup {None}]
  BY <1>2, ObjectsComponents
<1>4. events'.cr \in Seq(Entry \cup {None})
  <2>1. (IF api'.cr = api.cr THEN events.cr ELSE Append(events.cr, api'.cr)) \in Seq(Entry \cup {None})
    BY <1>1, <1>3, GrowType
  <2>. QED
    BY <2>1, WatchEvents
<1>5. events'.cm \in Seq(ConfigMap \cup {None})
  <2>1. (IF api'.cm = api.cm THEN events.cm ELSE Append(events.cm, api'.cm)) \in Seq(ConfigMap \cup {None})
    BY <1>1, <1>3, GrowType
  <2>. QED
    BY <2>1, WatchEvents
<1>6. events'.svc \in Seq(Service \cup {None})
  <2>1. (IF api'.svc = api.svc THEN events.svc ELSE Append(events.svc, api'.svc)) \in Seq(Service \cup {None})
    BY <1>1, <1>3, GrowType
  <2>. QED
    BY <2>1, WatchEvents
<1>7. events'.pods \in Seq([PodIds -> Pod \cup {None}])
  <2>1. (IF api'.pods = api.pods THEN events.pods ELSE Append(events.pods, api'.pods)) \in Seq([PodIds -> Pod \cup {None}])
    BY <1>1, <1>3, GrowType
  <2>. QED
    BY <2>1, WatchEvents
<1>. QED
  BY <1>4, <1>5, <1>6, <1>7, WatchEvents DEF Histories

\* An API call of the operator that stores well-typed objects keeps the
\* cluster, the caches and the watches well typed.
LEMMA WriteType ==
  ASSUME TypeOK, NEW o \in Objects, Write(o)
  PROVE  ClusterTypeOK' /\ cache' \in Objects /\ events' \in Histories
<1>1. api' \in Objects
  BY DEF Write
<1>2. events' \in Histories
  BY <1>1, WatchType DEF Write
<1>. QED
  BY <1>1, <1>2 DEF Write, TypeOK, ClusterTypeOK

\* What the controller derives from a CR is well typed.
LEMMA DesiredTypes ==
  ASSUME NEW e \in Entry, clock \in 0 .. MaxClock
  PROVE  /\ DesiredConfigData(e) \in Data
         /\ DesiredConfigMap(e) \in ConfigMap
         /\ DesiredService(e) \in Service
         /\ DesiredPod(e) \in Pod
<1>1. e.uid \in Uids /\ e.spec.config \in Configs /\ e.spec.image \in Images
  BY SpecsAssumption DEF Entry
<1>2. DesiredConfigData(e) \in Data
  BY <1>1 DEF DesiredConfigData, StableTokenSecret, Data
<1>3. CalculateSpecHash(e) \in Hashes
  BY <1>1, <1>2 DEF CalculateSpecHash, Hashes
<1>4. DesiredConfigMap(e) \in ConfigMap
  BY <1>1, <1>2 DEF DesiredConfigMap, ConfigMap
<1>5. DesiredService(e) \in Service
  BY <1>1 DEF DesiredService, Service
<1>6. DesiredPod(e) \in Pod
  BY <1>1, <1>3 DEF DesiredPod, Pod
<1>. QED
  BY <1>2, <1>4, <1>5, <1>6

\* CreateOrUpdate of a well-typed object keeps the state well typed.
LEMMA CreateOrUpdateType ==
  ASSUME TypeOK, pc # "idle", NEW k, NEW desired, NEW same, NEW next \in Steps \ {"idle"},
         [api EXCEPT ![k] = desired] \in Objects,
         CreateOrUpdate(k, desired, same, next)
  PROVE  TypeOK'
<1>1. api \in Objects
  BY DEF TypeOK, ClusterTypeOK
<1>2. PICK o \in Objects : Write(o)
  BY <1>1 DEF CreateOrUpdate
<1>3. ClusterTypeOK' /\ cache' \in Objects /\ events' \in Histories
  BY <1>2, WriteType
<1>4. \/ Continue(next) /\ UNCHANGED <<doomed, current>>
      \/ Return(TRUE)
  BY DEF CreateOrUpdate
<1>. QED
  BY <1>3, <1>4 DEF Continue, Return, TypeOK, Steps

\* The steps of cleanupOwnedResources and the finalizer's removal keep the
\* state well typed.
LEMMA CleanupType ==
  ASSUME TypeOK,
         CleanupPod \/ CleanupService \/ CleanupConfigMap \/ RemoveFinalizer
  PROVE  TypeOK'
<1>1. /\ api \in Objects
      /\ api.pods \in [PodIds -> Pod \cup {None}]
  BY ObjectsComponents DEF TypeOK, ClusterTypeOK
<1>2. CASE CleanupPod
  <2>1. PICK p \in doomed : /\ doomed' = doomed \ {p}
                            /\ Write([api EXCEPT !.pods = DeletePod(api.pods, p)])
    BY <1>2 DEF CleanupPod
  <2>2. [api EXCEPT !.pods = DeletePod(api.pods, p)] \in Objects
    BY <1>1, DeletePodType, StoreTypes DEF TypeOK
  <2>3. ClusterTypeOK' /\ cache' \in Objects /\ events' \in Histories
    BY <2>1, <2>2, WriteType
  <2>. QED
    BY <1>2, <2>1, <2>3 DEF CleanupPod, Continue, TypeOK
<1>3. CASE CleanupService
  <2>1. [api EXCEPT !.svc = None] \in Objects
    BY <1>1, StoreTypes
  <2>2. ClusterTypeOK' /\ cache' \in Objects /\ events' \in Histories
    BY <1>3, <2>1, WriteType DEF CleanupService
  <2>. QED
    BY <1>3, <2>2 DEF CleanupService, Continue, TypeOK, Steps
<1>4. CASE CleanupConfigMap
  <2>1. [api EXCEPT !.cm = None] \in Objects
    BY <1>1, StoreTypes
  <2>2. ClusterTypeOK' /\ cache' \in Objects /\ events' \in Histories
    BY <1>4, <2>1, WriteType DEF CleanupConfigMap
  <2>. QED
    BY <1>4, <2>2 DEF CleanupConfigMap, Continue, TypeOK, Steps
<1>5. CASE RemoveFinalizer
  <2>1. [api EXCEPT !.cr = None] \in Objects
    BY <1>1, StoreTypes
  <2>2. ClusterTypeOK' /\ cache' \in Objects /\ events' \in Histories
    BY <1>1, <1>5, <2>1, WriteType DEF RemoveFinalizer
  <2>. QED
    BY <1>5, <2>2 DEF RemoveFinalizer, Return, TypeOK, Steps
<1>. QED
  BY <1>2, <1>3, <1>4, <1>5

\* The steps of reconcilePods keep the state well typed.
LEMMA ReconcilePodsType ==
  ASSUME TypeOK,
         ListPods \/ DeleteOutdated \/ ScaleDown \/ ScaleUp \/ ReconcileDone
  PROVE  TypeOK'
<1>1. /\ api \in Objects
      /\ api.pods \in [PodIds -> Pod \cup {None}]
      /\ cache.pods \in [PodIds -> Pod \cup {None}]
      /\ clock \in 0 .. MaxClock
  BY ObjectsComponents DEF TypeOK, ClusterTypeOK
<1>2. CASE ListPods
  <2>1. \A p \in PodIds : cache.pods[p] # None => cache.pods[p].created \in 0 .. MaxClock
    BY <1>1 DEF Pod
  <2>2. doomed' \subseteq PodIds /\ current' \subseteq PodIds \X (0 .. MaxClock)
    BY <1>2, <2>1, SMTT(20) DEF ListPods
  <2>. QED
    BY <1>2, <2>2 DEF ListPods, Continue, clusterVars, TypeOK, ClusterTypeOK, Steps
<1>3. CASE DeleteOutdated
  <2>1. PICK p \in doomed : /\ doomed' = doomed \ {p}
                            /\ Write([api EXCEPT !.pods = DeletePod(api.pods, p)])
    BY <1>3 DEF DeleteOutdated
  <2>2. [api EXCEPT !.pods = DeletePod(api.pods, p)] \in Objects
    BY <1>1, DeletePodType, StoreTypes DEF TypeOK
  <2>3. ClusterTypeOK' /\ cache' \in Objects /\ events' \in Histories
    BY <2>1, <2>2, WriteType
  <2>. QED
    BY <1>3, <2>1, <2>3 DEF DeleteOutdated, Continue, TypeOK
<1>4. CASE ScaleDown
  <2>1. PICK c \in current : /\ current' = current \ {c}
                             /\ Write([api EXCEPT !.pods = DeletePod(api.pods, c[1])])
    BY <1>4 DEF ScaleDown
  <2>2. c[1] \in PodIds
    BY DEF TypeOK
  <2>3. [api EXCEPT !.pods = DeletePod(api.pods, c[1])] \in Objects
    BY <1>1, <2>2, DeletePodType, StoreTypes
  <2>4. ClusterTypeOK' /\ cache' \in Objects /\ events' \in Histories
    BY <2>1, <2>3, WriteType
  <2>. QED
    BY <1>4, <2>1, <2>4 DEF ScaleDown, Continue, TypeOK
<1>5. CASE ScaleUp
  <2>1. CASE ~ \E p \in PodIds : Fresh(p)
    <3>1. Write(api) /\ Return(TRUE)
      BY <1>5, <2>1 DEF ScaleUp
    <3>2. ClusterTypeOK' /\ cache' \in Objects /\ events' \in Histories
      BY <1>1, <3>1, WriteType
    <3>. QED
      BY <3>1, <3>2 DEF Return, TypeOK, Steps
  <2>2. CASE \E p \in PodIds : Fresh(p)
    <3>. DEFINE p == CHOOSE p \in PodIds : Fresh(p)
    <3>1. /\ current' = current \cup {<<p, clock>>}
          /\ Write([api EXCEPT !.pods[p] = DesiredPod(entry)])
          /\ Continue(pc)
          /\ UNCHANGED doomed
      BY <1>5, <2>2 DEF ScaleUp
    <3>2. p \in PodIds
      BY <2>2
    <3>. HIDE DEF p
    <3>3. DesiredPod(entry) \in Pod
      BY <1>1, <1>5, DesiredTypes DEF ScaleUp, TypeOK
    <3>4. [api EXCEPT !.pods[p] = DesiredPod(entry)] \in Objects
      <4>1. [api EXCEPT !.pods[p] = DesiredPod(entry)]
              = [api EXCEPT !.pods = [api.pods EXCEPT ![p] = DesiredPod(entry)]]
        BY <1>1 DEF Objects
      <4>. QED
        BY <1>1, <3>2, <3>3, <4>1, StorePodType
    <3>5. ClusterTypeOK' /\ cache' \in Objects /\ events' \in Histories
      BY <3>1, <3>4, WriteType
    <3>. QED
      BY <1>1, <3>1, <3>2, <3>5, SMTT(20) DEF Continue, TypeOK
  <2>. QED
    BY <2>1, <2>2
<1>6. CASE ReconcileDone
  <2>1. ClusterTypeOK' /\ cache' \in Objects /\ events' \in Histories
    BY <1>1, <1>6, WriteType DEF ReconcileDone
  <2>. QED
    BY <1>6, <2>1 DEF ReconcileDone, Return, TypeOK, Steps
<1>. QED
  BY <1>2, <1>3, <1>4, <1>5, <1>6

\* Every step of a pass keeps the state well typed.
LEMMA PassType ==
  ASSUME TypeOK, Pass
  PROVE  TypeOK'
<1>1. /\ api \in Objects
      /\ api.cr \in Entry \cup {None}
      /\ cache.cr \in Entry \cup {None}
      /\ clock \in 0 .. MaxClock
  BY ObjectsComponents DEF TypeOK, ClusterTypeOK
<1>2. CASE Reconcile
  BY <1>1, <1>2 DEF Reconcile, clusterVars, TypeOK, ClusterTypeOK, Steps
<1>3. CASE AddFinalizer
  <2>1. entry \in Entry
    BY <1>3 DEF AddFinalizer, TypeOK
  <2>. DEFINE e == [api.cr EXCEPT !.finalizer = TRUE, !.rv = api.cr.rv + 1]
  <2>2. ASSUME api.cr = entry
        PROVE  [api EXCEPT !.cr.finalizer = TRUE, !.cr.rv = @ + 1] \in Objects
    <3>1. api.cr.rv + 1 \in Nat
      BY <2>1, <2>2, SMTT(20) DEF Entry
    <3>2. e \in Entry
      BY <2>1, <2>2, <3>1, EntryUpdates
    <3>3. [api EXCEPT !.cr.finalizer = TRUE, !.cr.rv = @ + 1] = [api EXCEPT !.cr = e]
      BY <1>1, <2>1, <2>2 DEF Objects, Entry
    <3>. QED
      BY <1>1, <3>2, <3>3, StoreTypes
  <2>3. PICK o \in Objects : Write(o)
    BY <1>1, <1>3, <2>2 DEF AddFinalizer
  <2>4. ClusterTypeOK' /\ cache' \in Objects /\ events' \in Histories
    BY <2>3, WriteType
  <2>. QED
    BY <1>3, <2>4 DEF AddFinalizer, Return, TypeOK, Steps
<1>4. CASE EnsureConfigMap
  <2>1. entry \in Entry /\ pc # "idle"
    BY <1>4 DEF EnsureConfigMap, TypeOK
  <2>2. [api EXCEPT !["cm"] = DesiredConfigMap(entry)] \in Objects
    BY <1>1, <2>1, DesiredTypes, StoreTypes
  <2>3. "ensureService" \in Steps \ {"idle"}
    BY DEF Steps
  <2>. QED
    BY <1>4, <2>1, <2>2, <2>3, CreateOrUpdateType DEF EnsureConfigMap
<1>5. CASE EnsureService
  <2>1. entry \in Entry /\ pc # "idle"
    BY <1>5 DEF EnsureService, TypeOK
  <2>2. [api EXCEPT !["svc"] = DesiredService(entry)] \in Objects
    BY <1>1, <2>1, DesiredTypes, StoreTypes
  <2>3. "listPods" \in Steps \ {"idle"}
    BY DEF Steps
  <2>. QED
    BY <1>5, <2>1, <2>2, <2>3, CreateOrUpdateType DEF EnsureService
<1>. QED
  BY <1>2, <1>3, <1>4, <1>5, CleanupType, ReconcilePodsType DEF Pass

\* A watch delivery keeps the state well typed.
LEMMA DeliverType ==
  ASSUME TypeOK, NEW k \in Kinds, Deliver(k)
  PROVE  TypeOK'
<1>1. /\ events.cr \in Seq(Entry \cup {None})
      /\ events.cm \in Seq(ConfigMap \cup {None})
      /\ events.svc \in Seq(Service \cup {None})
      /\ events.pods \in Seq([PodIds -> Pod \cup {None}])
  BY HistoriesComponents DEF TypeOK
<1>2. cache \in Objects /\ events \in Histories
  BY DEF TypeOK
<1>3. cache' \in Objects /\ events' \in Histories
  <2>1. CASE k = "cr"
    <3>1. Head(events.cr) \in Entry \cup {None} /\ Tail(events.cr) \in Seq(Entry \cup {None})
      BY <1>1, <2>1, SMTT(20) DEF Deliver
    <3>. QED
      BY <1>2, <2>1, <3>1 DEF Deliver, Objects, Histories
  <2>2. CASE k = "cm"
    <3>1. Head(events.cm) \in ConfigMap \cup {None} /\ Tail(events.cm) \in Seq(ConfigMap \cup {None})
      BY <1>1, <2>2, SMTT(20) DEF Deliver
    <3>. QED
      BY <1>2, <2>2, <3>1 DEF Deliver, Objects, Histories
  <2>3. CASE k = "svc"
    <3>1. Head(events.svc) \in Service \cup {None} /\ Tail(events.svc) \in Seq(Service \cup {None})
      BY <1>1, <2>3, SMTT(20) DEF Deliver
    <3>. QED
      BY <1>2, <2>3, <3>1 DEF Deliver, Objects, Histories
  <2>4. CASE k = "pods"
    <3>1. /\ Head(events.pods) \in [PodIds -> Pod \cup {None}]
          /\ Tail(events.pods) \in Seq([PodIds -> Pod \cup {None}])
      BY <1>1, <2>4, SMTT(20) DEF Deliver
    <3>. QED
      BY <1>2, <2>4, <3>1 DEF Deliver, Objects, Histories
  <2>. QED
    BY <2>1, <2>2, <2>3, <2>4 DEF Kinds
<1>. QED
  BY <1>3 DEF Deliver, clusterVars, passVars, TypeOK, ClusterTypeOK

\* Watches with nothing to deliver are well typed.
LEMMA NoEventsType == [k \in Kinds |-> <<>>] \in Histories
<1>1. [k \in Kinds |-> <<>>] = [cr |-> <<>>, cm |-> <<>>, svc |-> <<>>, pods |-> <<>>]
  BY SMTT(20) DEF Kinds
<1>2. \A S : <<>> \in Seq(S)
  BY SMTT(20)
<1>. QED
  BY <1>1, <1>2 DEF Histories

\* Every step keeps the state well typed.
LEMMA NextType ==
  ASSUME TypeOK, [Next]_vars
  PROVE  TypeOK'
<1>. USE BoundsAssumption
<1>1. CASE Cluster(ClusterNext)
  <2>1. ClusterTypeOK'
    BY <1>1, ClusterType DEF Cluster, TypeOK
  <2>2. events' \in Histories
    BY <1>1, <2>1, WatchType DEF Cluster, ClusterTypeOK
  <2>. QED
    BY <1>1, <2>1, <2>2 DEF Cluster, passVars, TypeOK
<1>2. CASE Pass
  BY <1>2, PassType
<1>3. CASE CallFails
  BY <1>3, SMTT(20) DEF CallFails, Fault, Return, TypeOK, ClusterTypeOK, Steps
<1>4. ASSUME NEW k \in Kinds, Deliver(k)
      PROVE  TypeOK'
  BY <1>4, DeliverType
<1>5. CASE FullSync
  BY <1>5 DEF FullSync, clusterVars, passVars, TypeOK, ClusterTypeOK
<1>6. CASE Crash
  <2>1. events' \in Histories
    BY <1>6, NoEventsType DEF Crash
  <2>. QED
    BY <1>6, <2>1, SMTT(20) DEF Crash, Fault, TypeOK, ClusterTypeOK, Steps
<1>7. CASE UNCHANGED vars
  BY <1>7 DEF vars, clusterVars, passVars, TypeOK, ClusterTypeOK
<1>. QED
  BY <1>1, <1>2, <1>3, <1>4, <1>5, <1>6, <1>7 DEF Next

\* The initial state is well typed.
LEMMA InitType == Init => TypeOK
<1>. SUFFICES ASSUME Init PROVE TypeOK
  OBVIOUS
<1>1. events \in Histories
  BY NoEventsType DEF Init
<1>2. api \in Objects
  BY DEF Init, ClusterInit, Objects
<1>3. ClusterTypeOK
  BY <1>2, BoundsAssumption, SMTT(20) DEF Init, ClusterInit, ClusterTypeOK
<1>. QED
  BY <1>1, <1>2, <1>3 DEF Init, TypeOK, Steps

\* The type invariant holds in every state of the operator and its cluster.
THEOREM TypeCorrect == SafetySpec => []TypeOK
BY InitType, NextType, PTL DEF SafetySpec

-----------------------------------------------------------------------------
(* The versions of the CR that the operator holds.                         *)

\* What a step may do to the stored CR: nothing, create it, change it without
\* taking back finalizer or deletion mark, or drop it when no live version of it
\* is held anywhere.
CrStep ==
  \/ api'.cr = api.cr /\ lastUid' = lastUid
  \/ /\ api.cr = None /\ api'.cr # None
     /\ api'.cr.uid = lastUid + 1 /\ lastUid' = lastUid + 1
  \/ /\ api.cr # None /\ api'.cr # None
     /\ api'.cr.uid = api.cr.uid /\ lastUid' = lastUid
     /\ api.cr.finalizer => api'.cr.finalizer
     /\ api.cr.deleting => api'.cr.deleting
     /\ api'.cr.spec = api.cr.spec \/ <<api.cr.spec, api'.cr.spec>> \in Edits
  \/ /\ api'.cr = None /\ lastUid' = lastUid
     /\ \A v \in Seen : ~ Live(v)

\* What the operator has read of the CR stays in order with what is stored,
\* whenever the CR is changed by one legal step and the watch records it.
LEMMA WriteKeepsSeen ==
  ASSUME IInv, TypeOK', CrStep, Watch, cache' = cache, entry' \in {entry, None}
  PROVE  (SeenIssued /\ SeenLiveExists /\ InOrder)'
<1>1. /\ lastUid \in Nat /\ lastUid' \in Nat /\ lastUid <= lastUid'
      /\ \A v \in Seen \cup {api.cr} : v \in Entry \cup {None}
      /\ api'.cr \in Entry \cup {None}
      /\ events.cr \in Seq(Entry \cup {None})
  <2>1. lastUid \in Nat /\ lastUid' \in Nat /\ lastUid <= lastUid'
    BY BoundsAssumption, SMTT(20) DEF IInv, TypeOK, ClusterTypeOK, CrStep
  <2>2. events.cr \in Seq(Entry \cup {None})
    BY HistoriesComponents DEF IInv, TypeOK
  <2>3. api.cr \in Entry \cup {None} /\ cache.cr \in Entry \cup {None}
    BY ObjectsComponents DEF IInv, TypeOK, ClusterTypeOK
  <2>. DEFINE o == api'
  <2>4. o \in Objects
    BY DEF TypeOK, ClusterTypeOK
  <2>5. o.cr \in Entry \cup {None}
    BY <2>4, ObjectsComponents
  <2>6. entry \in Entry \cup {None}
    BY DEF IInv, TypeOK
  <2>. QED
    BY <2>1, <2>2, <2>3, <2>5, <2>6, SMTT(20) DEF Seen
<1>. DEFINE n == Len(events.cr)
<1>2. \/ n' = n /\ events'.cr = events.cr
      \/ /\ n' = n + 1 /\ events'.cr[n + 1] = api'.cr
         /\ \A i \in 1 .. n : events'.cr[i] = events.cr[i]
  BY <1>1, WatchEvents, SMTT(20)
<1>3. n \in Nat
  BY <1>1, SMTT(20)
<1>. HIDE DEF n
<1>4. \A i \in 1 .. n' : \/ i \in 1 .. n /\ events'.cr[i] = events.cr[i]
                         \/ i \notin 1 .. n /\ i = n + 1 /\ events'.cr[i] = api'.cr
  BY <1>2, <1>3, SMTT(20)
<1>5. \A i \in 1 .. n : events.cr[i] \in Seen
  BY DEF Seen, n
<1>6. \A v \in Seen' : v \in Seen \/ v = None \/ v = api'.cr
  BY <1>4, <1>5 DEF Seen, n
<1>7. SeenIssued'
  BY <1>1, <1>6, SMTT(20) DEF IInv, SeenIssued, CrStep, Entry, Uids
<1>8. SeenLiveExists'
  BY <1>6 DEF IInv, SeenLiveExists, CrStep, Live
<1>9. ASSUME NEW v \in Seen PROVE NotBefore(v, api'.cr)
  <2>. SUFFICES ASSUME v # None, api'.cr # None, api'.cr.uid = v.uid
                PROVE  /\ v.deleting => api'.cr.deleting
                       /\ Onward => Leads(v.spec.config, api'.cr.spec.config)
    BY DEF NotBefore
  <2>1. v.uid \in Nat /\ v.uid <= lastUid
    BY <1>1, BoundsAssumption, SMTT(20) DEF IInv, SeenIssued, Entry, Uids
  <2>2. /\ api.cr # None /\ api'.cr.uid = api.cr.uid
        /\ api.cr.deleting => api'.cr.deleting
        /\ api'.cr.spec = api.cr.spec \/ <<api.cr.spec, api'.cr.spec>> \in Edits
    BY <1>1, <2>1, SMTT(20) DEF CrStep
  <2>3. /\ v.deleting => api.cr.deleting
        /\ Onward => Leads(v.spec.config, api.cr.spec.config)
    BY <2>2 DEF IInv, InOrder, NotBefore
  <2>4. /\ {v.spec, api.cr.spec, api'.cr.spec} \subseteq Specs
        /\ {v.spec.config, api.cr.spec.config, api'.cr.spec.config} \subseteq Configs
    BY <1>1, <2>2, SpecsAssumption, SMTT(20) DEF Entry
  <2>5. Onward => Leads(v.spec.config, api'.cr.spec.config)
    BY <2>2, <2>3, <2>4, Order, SMTT(20)
  <2>. QED
    BY <2>2, <2>3, <2>5
<1>10. InOrder'
  <2>1. \A v \in Seen' : NotBefore(v, api'.cr)
    BY <1>6, <1>9 DEF NotBefore, Leads
  <2>2. \A i, j \in 1 .. n' : i < j => NotBefore(events'.cr[i], events'.cr[j])
    <3>1. \A i, j \in 1 .. n' : i < j => i \in 1 .. n
      BY <1>2, <1>3, SMTT(20)
    <3>. QED
      BY <1>4, <1>5, <1>9, <3>1 DEF IInv, InOrder, n
  <2>3. \A i \in 1 .. n' : NotBefore(cache'.cr, events'.cr[i])
    BY <1>4, <1>9 DEF IInv, InOrder, n, Seen
  <2>4. \A i \in 1 .. n' : NotBefore(entry', events'.cr[i])
    BY <1>4, <1>9 DEF IInv, InOrder, n, Seen, NotBefore
  <2>5. NotBefore(entry', cache'.cr)
    BY DEF IInv, InOrder, NotBefore
  <2>. QED
    BY <2>1, <2>2, <2>3, <2>4, <2>5 DEF InOrder, n, NotBefore
<1>. QED
  BY <1>7, <1>8, <1>10

\* A watch delivery only moves a state the invariant already speaks of.
LEMMA DeliverKeepsSeen ==
  ASSUME IInv, NEW k \in Kinds, Deliver(k)
  PROVE  (SeenIssued /\ SeenLiveExists /\ InOrder)'
<1>1. api' = api /\ entry' = entry /\ lastUid' = lastUid
  BY DEF Deliver, clusterVars, passVars
<1>2. events \in Histories /\ cache \in Objects
  BY DEF IInv, TypeOK
<1>3. CASE k # "cr"
  <2>1. cache'.cr = cache.cr /\ events'.cr = events.cr
    BY <1>2, <1>3 DEF Deliver, Objects, Histories
  <2>2. Seen' = Seen
    BY <1>1, <2>1 DEF Seen
  <2>3. InOrder'
    BY <1>1, <2>1, <2>2 DEF IInv, InOrder, NotBefore
  <2>. QED
    BY <1>1, <2>2, <2>3 DEF IInv, SeenIssued, SeenLiveExists
<1>4. CASE k = "cr"
  <2>. DEFINE n == Len(events.cr)
  <2>1. events.cr \in Seq(Entry \cup {None}) /\ events.cr # <<>>
    BY <1>2, <1>4, HistoriesComponents DEF Deliver
  <2>2. cache'.cr = Head(events.cr) /\ events'.cr = Tail(events.cr)
    BY <1>2, <1>4 DEF Deliver, Objects, Histories
  <2>3. /\ n \in Nat /\ n > 0 /\ n' = n - 1
        /\ cache'.cr = events.cr[1]
        /\ \A i \in 1 .. n' : events'.cr[i] = events.cr[i + 1]
    BY <2>1, <2>2, SMTT(20)
  <2>. HIDE DEF n
  <2>4. /\ 1 \in 1 .. n
        /\ \A i \in 1 .. n' : i + 1 \in 1 .. n /\ 1 < i + 1
        /\ \A i, j \in 1 .. n' : i < j => i + 1 < j + 1
    BY <2>3, SMTT(20)
  <2>5. \A v \in Seen' : v \in Seen
    <3>1. \A i \in 1 .. n : events.cr[i] \in Seen
      BY DEF Seen, n
    <3>2. cache'.cr \in Seen /\ \A i \in 1 .. n' : events'.cr[i] \in Seen
      BY <2>3, <2>4, <3>1
    <3>. QED
      BY <1>1, <3>2 DEF Seen, n
  <2>6. InOrder'
    <3>1. \A v \in Seen' : NotBefore(v, api'.cr)
      BY <1>1, <2>5 DEF IInv, InOrder
    <3>2. \A i, j \in 1 .. n' : i < j => NotBefore(events'.cr[i], events'.cr[j])
      BY <2>3, <2>4 DEF IInv, InOrder, n
    <3>3. \A i \in 1 .. n' : NotBefore(cache'.cr, events'.cr[i])
      BY <2>3, <2>4 DEF IInv, InOrder, n
    <3>4. \A i \in 1 .. n' : NotBefore(entry', events'.cr[i])
      BY <1>1, <2>3, <2>4 DEF IInv, InOrder, n
    <3>5. NotBefore(entry', cache'.cr)
      BY <1>1, <2>3, <2>4 DEF IInv, InOrder, n
    <3>. QED
      BY <3>1, <3>2, <3>3, <3>4, <3>5 DEF InOrder, n, NotBefore
  <2>. QED
    BY <1>1, <2>5, <2>6 DEF IInv, SeenIssued, SeenLiveExists
<1>. QED
  BY <1>3, <1>4

\* Get at the start of a pass reads a state the invariant already speaks of.
LEMMA ReconcileKeepsSeen ==
  ASSUME IInv, Reconcile
  PROVE  (SeenIssued /\ SeenLiveExists /\ InOrder)'
<1>1. /\ api' = api /\ lastUid' = lastUid /\ cache' = cache /\ events' = events
      /\ entry' = cache.cr
  BY DEF Reconcile, clusterVars
<1>2. \A v \in Seen' : v \in Seen
  BY <1>1 DEF Seen
<1>3. InOrder'
  <2>1. \A v \in Seen' : NotBefore(v, api'.cr)
    BY <1>1, <1>2 DEF IInv, InOrder
  <2>2. NotBefore(entry', cache'.cr)
    BY <1>1 DEF NotBefore, Leads
  <2>. QED
    BY <1>1, <2>1, <2>2 DEF IInv, InOrder, NotBefore
<1>. QED
  BY <1>1, <1>2, <1>3 DEF IInv, SeenIssued, SeenLiveExists

\* After a restart, and at the start, only the stored version is held.
LEMMA RelistKeepsSeen ==
  ASSUME IInv, Crash
  PROVE  (SeenIssued /\ SeenLiveExists /\ InOrder)'
<1>1. api' = api /\ lastUid' = lastUid /\ cache' = api /\ entry' = None
  BY DEF Crash
<1>2. events'.cr = <<>>
  BY DEF Crash, Kinds
<1>3. Len(events'.cr) = 0
  BY <1>2, SMTT(20)
<1>4. \A v \in Seen' : v = None \/ v = api.cr
  BY <1>1, <1>3, SMTT(20) DEF Seen
<1>5. InOrder'
  BY <1>1, <1>3, <1>4, SMTT(20) DEF InOrder, NotBefore, Leads
<1>6. SeenLiveExists'
  BY <1>1, <1>4 DEF SeenLiveExists, Live
<1>7. SeenIssued'
  BY <1>1, <1>4 DEF IInv, SeenIssued
<1>. QED
  BY <1>5, <1>6, <1>7

-----------------------------------------------------------------------------
(* The objects the CR owns.                                                *)

\* ChildrenOwned for each object on its own.
LEMMA ChildrenOwnedParts ==
  ChildrenOwned <=>
    /\ api.cm # None => /\ api.cr # None /\ api.cr.finalizer
                        /\ api.cm.owner = api.cr.uid
    /\ api.svc # None => /\ api.cr # None /\ api.cr.finalizer
                         /\ api.svc.owner = api.cr.uid
    /\ \A p \in PodIds :
         (Exists(p) /\ api.cr # None /\ api.cr.uid = api.pods[p].owner)
           => api.cr.finalizer
BY DEF ChildrenOwned, Orphan

\* No Pod appears, and none changes owner or hash.
PodsFrame ==
  \A p \in PodIds : api'.pods[p] # None => /\ api.pods[p] # None
                                           /\ api'.pods[p].owner = api.pods[p].owner
                                           /\ api'.pods[p].hash = api.pods[p].hash

\* A step that creates no object keeps owners right, provided it drops the CR
\* only when ConfigMap and Service are gone.
LEMMA FrameKeepsChildren ==
  ASSUME IInv, TypeOK', CrStep, PodsFrame,
         api'.cm \in {api.cm, None}, api'.svc \in {api.svc, None},
         (api.cr # None /\ api'.cr = None) => (api.cm = None /\ api.svc = None)
  PROVE  (ChildrenOwned /\ HashNamesOwner)'
<1>1. lastUid \in Nat /\ lastUid' \in Nat /\ lastUid <= lastUid'
  BY BoundsAssumption, SMTT(20) DEF IInv, TypeOK, ClusterTypeOK, CrStep
<1>2. \A p \in PodIds : Exists(p) => api.pods[p].owner \in Nat
  <2>1. api.pods \in [PodIds -> Pod \cup {None}]
    BY ObjectsComponents DEF IInv, TypeOK, ClusterTypeOK
  <2>. QED
    BY <2>1, BoundsAssumption, SMTT(20) DEF Exists, Pod, Uids
<1>3. HashNamesOwner'
  BY <1>1, <1>2, SMTT(20) DEF IInv, HashNamesOwner, PodsFrame, Exists
<1>4. /\ api.cm # None => /\ api.cr # None /\ api.cr.finalizer
                          /\ api.cm.owner = api.cr.uid
      /\ api.svc # None => /\ api.cr # None /\ api.cr.finalizer
                           /\ api.svc.owner = api.cr.uid
      /\ \A p \in PodIds :
           (Exists(p) /\ api.cr # None /\ api.cr.uid = api.pods[p].owner)
             => api.cr.finalizer
  BY ChildrenOwnedParts DEF IInv
<1>5. (api'.cr # None /\ api.cr = None) => /\ api'.cr.uid = lastUid + 1
                                           /\ api.cm = None /\ api.svc = None
  BY <1>4 DEF CrStep
<1>6. (api.cr # None /\ api'.cr # None) => /\ api'.cr.uid = api.cr.uid
                                           /\ api.cr.finalizer => api'.cr.finalizer
  BY DEF CrStep
<1>7. \A p \in PodIds :
        (Exists(p)' /\ api'.cr # None /\ api'.cr.uid = api'.pods[p].owner)
          => api'.cr.finalizer
  <2>1. \A p \in PodIds : Exists(p) => api.pods[p].owner <= lastUid
    BY DEF IInv, HashNamesOwner
  <2>. QED
    BY <1>1, <1>2, <1>4, <1>5, <1>6, <2>1, SMTT(20) DEF PodsFrame, Exists
<1>8. (/\ api.cm # None => /\ api.cr # None /\ api.cr.finalizer
                           /\ api.cm.owner = api.cr.uid
       /\ api.svc # None => /\ api.cr # None /\ api.cr.finalizer
                            /\ api.svc.owner = api.cr.uid)'
  BY <1>4, <1>5, <1>6
<1>9. ChildrenOwned'
  BY <1>7, <1>8 DEF ChildrenOwned, Orphan, Exists
<1>. QED
  BY <1>3, <1>9

\* What every step other than an Ensure or a Create leaves alone.
Frame ==
  /\ CrStep
  /\ PodsFrame
  /\ api'.cm \in {api.cm, None}
  /\ api'.svc \in {api.svc, None}
  /\ (api.cr # None /\ api'.cr = None) => (api.cm = None /\ api.svc = None)

\* Whatever the cluster may do leaves the children of the CR alone, and the CR only
\* disappears at once when it has none.
LEMMA ChangeFrame ==
  ASSUME IInv, ClusterChange
  PROVE  Frame
<1>1. ASSUME api.cr # None, ~ api.cr.finalizer
      PROVE  /\ \A v \in Seen : ~ Live(v)
             /\ api.cm = None /\ api.svc = None
  BY <1>1, ChildrenOwnedParts DEF IInv, SeenLiveExists
<1>2. CrStep
  BY <1>1 DEF ClusterChange, CrChange, CrStep
<1>3. (api.cr # None /\ api'.cr = None) => (api.cm = None /\ api.svc = None)
  BY <1>1 DEF ClusterChange, CrChange
<1>. QED
  BY <1>2, <1>3 DEF ClusterChange, PodChange, Frame, PodsFrame

\* Deleting a Pod changes nothing the invariant speaks of.
LEMMA DeleteFrame ==
  ASSUME IInv, NEW p \in PodIds, lastUid' = lastUid,
         api' = [api EXCEPT !.pods = DeletePod(api.pods, p)]
  PROVE  Frame
BY DeleteChange, ChangeFrame DEF IInv, TypeOK

\* A call that changes nothing, as when it fails, is such a step.
LEMMA UnchangedFrame ==
  ASSUME api' = api, lastUid' = lastUid
  PROVE  Frame
BY DEF Frame, CrStep, PodsFrame

LEMMA ClusterFrame ==
  ASSUME IInv, ClusterNext
  PROVE  Frame
BY ClusterChanges, ChangeFrame DEF IInv, TypeOK

-----------------------------------------------------------------------------
(* The steps of a pass.                                                    *)

\* A step that changes at most what Frame allows, and goes on with the pass or
\* returns, keeps the invariant if the branch it is in stays the right one.
LEMMA FrameKeepsIInv ==
  ASSUME IInv, TypeOK', Frame, Watch, cache' = cache, entry' \in {entry, None},
         PassBranch'
  PROVE  IInv'
BY WriteKeepsSeen, FrameKeepsChildren DEF Frame, IInv

\* The cluster keeps the invariant.
LEMMA ClusterKeepsIInv ==
  ASSUME IInv, TypeOK', Cluster(ClusterNext)
  PROVE  IInv'
<1>1. Frame
  BY ClusterFrame DEF Cluster
<1>2. pc' = pc /\ entry' = entry /\ cache' = cache /\ Watch
  BY DEF Cluster, passVars
<1>3. PassBranch'
  BY <1>1, <1>2 DEF IInv, PassBranch, Frame, Live
<1>. QED
  BY <1>1, <1>2, <1>3, FrameKeepsIInv

\* Cleanup and the finalizer's removal keep the invariant: when the CR goes,
\* Service and ConfigMap have gone before it.
LEMMA CleanupKeepsIInv ==
  ASSUME IInv, TypeOK',
         CleanupPod \/ CleanupService \/ CleanupConfigMap \/ RemoveFinalizer
  PROVE  IInv'
<1>1. TypeOK /\ api \in Objects /\ doomed \subseteq PodIds
  BY DEF IInv, TypeOK, ClusterTypeOK
<1>2. CASE CleanupPod
  <2>1. PICK p \in doomed : Write([api EXCEPT !.pods = DeletePod(api.pods, p)])
    BY <1>2 DEF CleanupPod
  <2>2. Frame
    BY <1>1, <2>1, DeleteFrame DEF Write
  <2>3. pc' = pc /\ entry' = entry /\ pc = "cleanupPods"
    BY <1>2 DEF CleanupPod, Continue
  <2>4. PassBranch'
    BY <2>2, <2>3 DEF IInv, PassBranch, Frame, Live
  <2>. QED
    BY <2>1, <2>2, <2>3, <2>4, FrameKeepsIInv DEF Write
<1>3. CASE CleanupService
  <2>1. /\ api'.cr = api.cr /\ api'.pods = api.pods /\ api'.cm = api.cm
        /\ api'.svc = None /\ lastUid' = lastUid
    BY <1>1, <1>3 DEF CleanupService, Write, Objects
  <2>2. Frame
    BY <2>1 DEF Frame, CrStep, PodsFrame
  <2>3. pc' = "cleanupConfigMap" /\ entry' = entry /\ pc = "cleanupPods"
    BY <1>3 DEF CleanupService, Continue
  <2>4. PassBranch'
    BY <2>1, <2>3 DEF IInv, PassBranch, CleanupSteps, EnsureSteps
  <2>. QED
    BY <1>3, <2>2, <2>3, <2>4, FrameKeepsIInv DEF CleanupService, Write
<1>4. CASE CleanupConfigMap
  <2>1. /\ api'.cr = api.cr /\ api'.pods = api.pods /\ api'.cm = None
        /\ api'.svc = api.svc /\ lastUid' = lastUid
    BY <1>1, <1>4 DEF CleanupConfigMap, Write, Objects
  <2>2. Frame
    BY <2>1 DEF Frame, CrStep, PodsFrame
  <2>3. pc' = "removeFinalizer" /\ entry' = entry /\ pc = "cleanupConfigMap"
    BY <1>4 DEF CleanupConfigMap, Continue
  <2>4. PassBranch'
    BY <2>1, <2>3 DEF IInv, PassBranch, CleanupSteps, EnsureSteps
  <2>. QED
    BY <1>4, <2>2, <2>3, <2>4, FrameKeepsIInv DEF CleanupConfigMap, Write
<1>5. CASE RemoveFinalizer
  <2>1. pc = "removeFinalizer" /\ pc' = "idle" /\ entry' = None
    BY <1>5 DEF RemoveFinalizer, Return
  <2>2. /\ entry # None /\ entry.deleting /\ api.svc = None /\ api.cm = None
    BY <2>1 DEF IInv, PassBranch, CleanupSteps
  <2>3. ASSUME api.cr = entry
        PROVE  Frame
    <3>1. \A v \in Seen : ~ Live(v)
      <4>1. \A v \in Seen : Live(v) => v.uid = entry.uid
        BY <2>3 DEF IInv, SeenLiveExists
      <4>2. \A v \in Seen : (v # None /\ v.uid = entry.uid) => v.deleting
        BY <2>2 DEF IInv, InOrder, NotBefore, Seen
      <4>. QED
        BY <4>1, <4>2 DEF Live
    <3>2. /\ api'.cr = None /\ api'.pods = api.pods /\ api'.cm = api.cm
          /\ api'.svc = api.svc /\ lastUid' = lastUid
      BY <1>1, <1>5, <2>3 DEF RemoveFinalizer, Write, Objects
    <3>. QED
      BY <2>2, <3>1, <3>2 DEF Frame, CrStep, PodsFrame
  <2>4. ASSUME api.cr # entry
        PROVE  Frame
    BY <1>5, <2>4, UnchangedFrame DEF RemoveFinalizer, Write
  <2>5. PassBranch'
    BY <2>1 DEF PassBranch, EnsureSteps, CleanupSteps
  <2>6. Watch /\ cache' = cache
    BY <1>5 DEF RemoveFinalizer, Write
  <2>7. Frame
    BY <2>3, <2>4
  <2>. QED
    BY <2>1, <2>5, <2>6, <2>7, FrameKeepsIInv
<1>. QED
  BY <1>2, <1>3, <1>4, <1>5

\* ensureConfigMap keeps the invariant: the CR it was read from still exists,
\* so the owner it writes is the current one, even on an adopted ConfigMap.
LEMMA EnsureConfigMapKeepsIInv ==
  ASSUME IInv, TypeOK', EnsureConfigMap
  PROVE  IInv'
<1>1. /\ TypeOK /\ api \in Objects
      /\ entry \in Entry /\ pc \in EnsureSteps /\ Live(entry)
  BY DEF IInv, TypeOK, ClusterTypeOK, PassBranch, EnsureConfigMap, EnsureSteps
<1>2. api.cr # None /\ api.cr.uid = entry.uid /\ api.cr.finalizer
  BY <1>1 DEF IInv, SeenLiveExists, Seen
<1>3. \/ (api' = api \/ api' = [api EXCEPT !.cm = DesiredConfigMap(entry)]) /\ Continue("ensureService")
      \/ api' = api /\ Return(TRUE)
  BY DEF EnsureConfigMap, CreateOrUpdate, Write
<1>4. Watch /\ cache' = cache /\ lastUid' = lastUid
  BY DEF EnsureConfigMap, CreateOrUpdate, Write
<1>5. entry' \in {entry, None} /\ PassBranch'
  BY <1>1, <1>3 DEF Continue, Return, PassBranch, EnsureSteps, CleanupSteps, Live
<1>6. CASE api' = api
  BY <1>4, <1>5, <1>6, UnchangedFrame, FrameKeepsIInv
<1>7. CASE api' = [api EXCEPT !.cm = DesiredConfigMap(entry)]
  <2>1. /\ api'.cr = api.cr /\ api'.pods = api.pods /\ api'.svc = api.svc
        /\ api'.cm = DesiredConfigMap(entry)
    BY <1>1, <1>7 DEF Objects
  <2>2. (SeenIssued /\ SeenLiveExists /\ InOrder)'
    BY <1>4, <1>5, <2>1, WriteKeepsSeen DEF CrStep
  <2>3. api'.cm.owner = entry.uid
    BY <2>1, SMTT(20) DEF DesiredConfigMap
  <2>4. ChildrenOwned'
    BY <1>2, <2>1, <2>3 DEF IInv, ChildrenOwned, Exists, Orphan
  <2>5. HashNamesOwner'
    BY <1>4, <2>1 DEF IInv, HashNamesOwner, Exists
  <2>. QED
    BY <1>5, <2>2, <2>4, <2>5 DEF IInv
<1>. QED
  BY <1>3, <1>6, <1>7

\* ensureService keeps the invariant, for the same reason.
LEMMA EnsureServiceKeepsIInv ==
  ASSUME IInv, TypeOK', EnsureService
  PROVE  IInv'
<1>1. /\ TypeOK /\ api \in Objects
      /\ entry \in Entry /\ pc \in EnsureSteps /\ Live(entry)
  BY DEF IInv, TypeOK, ClusterTypeOK, PassBranch, EnsureService, EnsureSteps
<1>2. api.cr # None /\ api.cr.uid = entry.uid /\ api.cr.finalizer
  BY <1>1 DEF IInv, SeenLiveExists, Seen
<1>3. \/ (api' = api \/ api' = [api EXCEPT !.svc = DesiredService(entry)]) /\ Continue("listPods")
      \/ api' = api /\ Return(TRUE)
  BY DEF EnsureService, CreateOrUpdate, Write
<1>4. Watch /\ cache' = cache /\ lastUid' = lastUid
  BY DEF EnsureService, CreateOrUpdate, Write
<1>5. entry' \in {entry, None} /\ PassBranch'
  BY <1>1, <1>3 DEF Continue, Return, PassBranch, EnsureSteps, CleanupSteps, Live
<1>6. CASE api' = api
  BY <1>4, <1>5, <1>6, UnchangedFrame, FrameKeepsIInv
<1>7. CASE api' = [api EXCEPT !.svc = DesiredService(entry)]
  <2>1. /\ api'.cr = api.cr /\ api'.pods = api.pods /\ api'.cm = api.cm
        /\ api'.svc = DesiredService(entry)
    BY <1>1, <1>7 DEF Objects
  <2>2. (SeenIssued /\ SeenLiveExists /\ InOrder)'
    BY <1>4, <1>5, <2>1, WriteKeepsSeen DEF CrStep
  <2>3. api'.svc.owner = entry.uid
    BY <2>1, SMTT(20) DEF DesiredService
  <2>4. ChildrenOwned'
    BY <1>2, <2>1, <2>3 DEF IInv, ChildrenOwned, Exists, Orphan
  <2>5. HashNamesOwner'
    BY <1>4, <2>1 DEF IInv, HashNamesOwner, Exists
  <2>. QED
    BY <1>5, <2>2, <2>4, <2>5 DEF IInv
<1>. QED
  BY <1>3, <1>6, <1>7

\* reconcilePods keeps the invariant: a created Pod gets owner and hash of
\* the CR that exists.
LEMMA ReconcilePodsKeepsIInv ==
  ASSUME IInv, TypeOK',
         ListPods \/ DeleteOutdated \/ ScaleDown \/ ScaleUp \/ ReconcileDone
  PROVE  IInv'
<1>1. /\ TypeOK /\ api \in Objects /\ api.pods \in [PodIds -> Pod \cup {None}]
      /\ entry \in Entry /\ pc \in EnsureSteps /\ Live(entry)
      /\ doomed \subseteq PodIds /\ current \subseteq PodIds \X (0 .. MaxClock)
  BY ObjectsComponents DEF IInv, TypeOK, ClusterTypeOK, PassBranch, ListPods,
     DeleteOutdated, ScaleDown, ScaleUp, ReconcileDone, EnsureSteps
<1>2. api.cr # None /\ api.cr.uid = entry.uid /\ api.cr.finalizer
  BY <1>1 DEF IInv, SeenLiveExists, Seen
<1>3. PassBranch' /\ entry' \in {entry, None}
  <2>1. (pc' = "reconcilePods" /\ entry' = entry) \/ (pc' = "idle" /\ entry' = None)
    BY DEF ListPods, DeleteOutdated, ScaleDown, ScaleUp, ReconcileDone, Continue, Return
  <2>. QED
    BY <1>1, <2>1 DEF PassBranch, EnsureSteps, CleanupSteps, Live
<1>4. CASE ListPods
  <2>1. api' = api /\ lastUid' = lastUid /\ cache' = cache /\ events' = events /\ entry' = entry
    BY <1>4 DEF ListPods, Continue, clusterVars
  <2>2. Watch
    <3>1. \A k \in Kinds : events[k] = events'[k]
      BY <2>1
    <3>2. events = [k \in Kinds |-> events[k]]
      BY <1>1 DEF TypeOK, Histories, Kinds
    <3>. QED
      BY <2>1, <3>2 DEF Watch
  <2>. QED
    BY <1>3, <2>1, <2>2, UnchangedFrame, FrameKeepsIInv
<1>5. CASE DeleteOutdated
  <2>1. PICK p \in doomed : Write([api EXCEPT !.pods = DeletePod(api.pods, p)])
    BY <1>5 DEF DeleteOutdated
  <2>. QED
    BY <1>1, <1>3, <2>1, DeleteFrame, FrameKeepsIInv DEF Write
<1>6. CASE ScaleDown
  <2>1. PICK c \in current : Write([api EXCEPT !.pods = DeletePod(api.pods, c[1])])
    BY <1>6 DEF ScaleDown
  <2>2. c[1] \in PodIds
    BY <1>1
  <2>. QED
    BY <1>1, <1>3, <2>1, <2>2, DeleteFrame, FrameKeepsIInv DEF Write
<1>7. CASE ScaleUp
  <2>1. CASE ~ \E p \in PodIds : Fresh(p)
    <3>1. Write(api)
      BY <1>7, <2>1 DEF ScaleUp
    <3>. QED
      BY <1>3, <3>1, UnchangedFrame, FrameKeepsIInv DEF Write
  <2>2. CASE \E p \in PodIds : Fresh(p)
    <3>. DEFINE p == CHOOSE p \in PodIds : Fresh(p)
    <3>1. Write([api EXCEPT !.pods[p] = DesiredPod(entry)])
      BY <1>7, <2>2 DEF ScaleUp
    <3>2. p \in PodIds
      BY <2>2
    <3>. HIDE DEF p
    <3>3. /\ api'.cr = api.cr /\ api'.cm = api.cm /\ api'.svc = api.svc
          /\ api'.pods = [api.pods EXCEPT ![p] = DesiredPod(entry)]
          /\ Watch /\ cache' = cache /\ lastUid' = lastUid
      BY <1>1, <3>1 DEF Write, Objects
    <3>4. (SeenIssued /\ SeenLiveExists /\ InOrder)'
      BY <1>3, <3>3, WriteKeepsSeen DEF CrStep
    <3>5. /\ DesiredPod(entry).owner = entry.uid
          /\ DesiredPod(entry).hash[1][1] = entry.uid
      BY DEF DesiredPod, CalculateSpecHash, DesiredConfigData, StableTokenSecret
    <3>6. \A q \in PodIds : api'.pods[q] = IF q = p THEN DesiredPod(entry) ELSE api.pods[q]
      BY <1>1, <3>3
    <3>7. entry.uid <= lastUid
      BY <1>1 DEF IInv, SeenIssued, Seen, Live
    <3>8. HashNamesOwner'
      BY <3>3, <3>5, <3>6, <3>7 DEF IInv, HashNamesOwner, Exists
    <3>9. ChildrenOwned'
      BY <1>2, <3>3 DEF IInv, ChildrenOwned, Exists, Orphan
    <3>. QED
      BY <1>3, <3>4, <3>8, <3>9 DEF IInv
  <2>. QED
    BY <2>1, <2>2
<1>8. CASE ReconcileDone
  BY <1>3, <1>8, UnchangedFrame, FrameKeepsIInv DEF ReconcileDone, Write
<1>. QED
  BY <1>4, <1>5, <1>6, <1>7, <1>8

\* Adding the finalizer keeps the invariant.
LEMMA AddFinalizerKeepsIInv ==
  ASSUME IInv, TypeOK', AddFinalizer
  PROVE  IInv'
<1>1. TypeOK /\ api \in Objects /\ entry \in Entry
  BY DEF IInv, TypeOK, ClusterTypeOK, AddFinalizer
<1>2. Frame
  <2>1. ASSUME api.cr = entry
        PROVE  Frame
    <3>1. /\ api'.cr = [api.cr EXCEPT !.finalizer = TRUE, !.rv = api.cr.rv + 1]
          /\ api'.pods = api.pods /\ api'.cm = api.cm /\ api'.svc = api.svc
          /\ lastUid' = lastUid
      BY <1>1, <2>1 DEF AddFinalizer, Write, Objects, Entry
    <3>2. api.cr.rv + 1 \in Nat
      BY <1>1, <2>1, SMTT(20) DEF Entry
    <3>3. api'.cr \in Entry
      BY <1>1, <2>1, <3>1, <3>2, EntryUpdates
    <3>4. /\ api.cr # None /\ api'.cr # None /\ api'.cr.uid = api.cr.uid
          /\ api'.cr.finalizer /\ api'.cr.deleting = api.cr.deleting
          /\ api'.cr.spec = api.cr.spec
      BY <1>1, <2>1, <3>1, <3>3, NoneAssumption DEF Entry
    <3>. QED
      BY <3>1, <3>4 DEF Frame, CrStep, PodsFrame
  <2>2. ASSUME api.cr # entry
        PROVE  Frame
    BY <2>2, UnchangedFrame DEF AddFinalizer, Write
  <2>. QED
    BY <2>1, <2>2
<1>3. Watch /\ cache' = cache /\ entry' = None /\ pc' = "idle"
  BY DEF AddFinalizer, Write, Return
<1>4. PassBranch'
  BY <1>3 DEF PassBranch, EnsureSteps, CleanupSteps
<1>. QED
  BY <1>2, <1>3, <1>4, FrameKeepsIInv

\* Choosing the branch of a pass keeps the invariant.
LEMMA ReconcileKeepsIInv ==
  ASSUME IInv, TypeOK', Reconcile
  PROVE  IInv'
<1>1. api' = api /\ lastUid' = lastUid /\ entry' = cache.cr
  BY DEF Reconcile, clusterVars
<1>2. ChildrenOwned' /\ HashNamesOwner'
  BY <1>1 DEF IInv, ChildrenOwned, HashNamesOwner, Exists, Orphan
<1>3. PassBranch'
  BY <1>1 DEF Reconcile, PassBranch, EnsureSteps, CleanupSteps, Live
<1>. QED
  BY <1>2, <1>3, ReconcileKeepsSeen DEF IInv

\* A step that leaves the stored objects, the cache and the watch alone, such as
\* FullSync or a failed call, keeps the invariant.
LEMMA QuietKeepsIInv ==
  ASSUME IInv, TypeOK', UNCHANGED <<api, lastUid, cache, events>>,
         entry' \in {entry, None}, PassBranch'
  PROVE  IInv'
<1>1. events = [k \in Kinds |-> events[k]]
  BY DEF IInv, TypeOK, Histories, Kinds
<1>2. Watch
  BY <1>1 DEF Watch
<1>. QED
  BY <1>2, UnchangedFrame, FrameKeepsIInv

\* The invariant is inductive.
LEMMA IInvStep == IInv /\ [Next]_vars => IInv'
<1>. SUFFICES ASSUME IInv, [Next]_vars PROVE IInv'
  OBVIOUS
<1>1. TypeOK'
  BY NextType DEF IInv
<1>2. CASE Cluster(ClusterNext)
  BY <1>1, <1>2, ClusterKeepsIInv
<1>3. CASE Pass
  BY <1>1, <1>3, ReconcileKeepsIInv, AddFinalizerKeepsIInv, CleanupKeepsIInv,
     EnsureConfigMapKeepsIInv, EnsureServiceKeepsIInv, ReconcilePodsKeepsIInv DEF Pass
<1>4. CASE CallFails
  <2>1. /\ api' = api /\ lastUid' = lastUid /\ cache' = cache /\ events' = events
        /\ entry' = None /\ pc' = "idle"
    BY <1>4 DEF CallFails, Return
  <2>2. PassBranch'
    BY <2>1 DEF PassBranch, EnsureSteps, CleanupSteps
  <2>. QED
    BY <1>1, <2>1, <2>2, QuietKeepsIInv
<1>5. ASSUME NEW k \in Kinds, Deliver(k)
      PROVE  IInv'
  <2>1. api' = api /\ lastUid' = lastUid /\ pc' = pc /\ entry' = entry
    BY <1>5 DEF Deliver, clusterVars, passVars
  <2>2. ChildrenOwned' /\ HashNamesOwner' /\ PassBranch'
    BY <2>1 DEF IInv, ChildrenOwned, HashNamesOwner, PassBranch, Exists, Orphan, Live
  <2>. QED
    BY <1>1, <1>5, <2>2, DeliverKeepsSeen DEF IInv
<1>6. CASE FullSync
  <2>1. UNCHANGED <<api, lastUid, cache, events, pc, entry>>
    BY <1>6 DEF FullSync, clusterVars, passVars
  <2>2. PassBranch'
    BY <2>1 DEF IInv, PassBranch, Live
  <2>. QED
    BY <1>1, <2>1, <2>2, QuietKeepsIInv
<1>7. CASE Crash
  <2>1. api' = api /\ lastUid' = lastUid /\ pc' = "idle"
    BY <1>7 DEF Crash
  <2>2. ChildrenOwned' /\ HashNamesOwner' /\ PassBranch'
    BY <2>1 DEF IInv, ChildrenOwned, HashNamesOwner, PassBranch, Exists, Orphan,
       EnsureSteps, CleanupSteps
  <2>. QED
    BY <1>1, <1>7, <2>2, RelistKeepsSeen DEF IInv
<1>8. CASE UNCHANGED vars
  <2>1. UNCHANGED <<api, lastUid, cache, events, pc, entry>>
    BY <1>8 DEF vars, clusterVars, passVars
  <2>2. PassBranch'
    BY <2>1 DEF IInv, PassBranch, Live
  <2>. QED
    BY <1>1, <2>1, <2>2, QuietKeepsIInv
<1>. QED
  BY <1>2, <1>3, <1>4, <1>5, <1>6, <1>7, <1>8 DEF Next

\* The invariant holds initially.
LEMMA IInvInit == Init => IInv
<1>. SUFFICES ASSUME Init PROVE IInv
  OBVIOUS
<1>1. /\ api.cr = None /\ api.cm = None /\ api.svc = None /\ cache.cr = None
      /\ \A p \in PodIds : ~ Exists(p)
      /\ entry = None /\ pc = "idle"
  BY DEF Init, ClusterInit, Exists
<1>2. Len(events.cr) = 0
  BY DEF Init, Kinds
<1>3. Seen = {None}
  BY <1>1, <1>2, SMTT(20) DEF Seen
<1>4. SeenIssued /\ SeenLiveExists /\ InOrder
  BY <1>1, <1>2, <1>3, SMTT(20) DEF SeenIssued, SeenLiveExists, InOrder, NotBefore, Live
<1>5. ChildrenOwned /\ HashNamesOwner /\ PassBranch
  BY <1>1 DEF ChildrenOwned, HashNamesOwner, PassBranch, EnsureSteps, CleanupSteps
<1>. QED
  BY <1>4, <1>5, InitType DEF IInv

\* Every reachable state satisfies the inductive invariant.
THEOREM Invariance == SafetySpec => []IInv
  BY IInvInit, IInvStep, PTL DEF SafetySpec

-----------------------------------------------------------------------------
(* The properties.                                                         *)

\* ConfigMap and Service always belong to the CR that exists and, like its Pods,
\* are under its finalizer, whatever Reconcile's early returns, failed calls,
\* stale reads and restarts do, for any specs, edits, Pod names and bounds.
THEOREM ChildrenAlwaysOwned == SafetySpec => []ChildrenOwned
<1>1. IInv => ChildrenOwned
  BY DEF IInv
<1>. QED
  BY <1>1, Invariance, PTL

\* No Pod whose hash label is that of the stored CR is an orphan: the token
\* secret in the hash carries the uid, so incarnations never share a hash.
THEOREM CurrentPodsAlwaysKept == SafetySpec => []CurrentPodsKept
<1>1. IInv => CurrentPodsKept
  BY SMTT(20) DEF IInv, HashNamesOwner, CurrentPodsKept, Orphan, CalculateSpecHash,
     DesiredConfigData, StableTokenSecret
<1>. QED
  BY <1>1, Invariance, PTL

\* A step that is not ScaleUp brings no Pod into being.
LEMMA OnlyScaleUpCreates ==
  ASSUME IInv, [Next]_vars, ~ ScaleUp, NEW p \in PodIds, ~ Exists(p)
  PROVE  ~ Exists(p)'
<1>1. /\ TypeOK /\ api \in Objects /\ api.pods \in [PodIds -> Pod \cup {None}]
      /\ doomed \subseteq PodIds /\ current \subseteq PodIds \X (0 .. MaxClock)
  BY ObjectsComponents DEF IInv, TypeOK, ClusterTypeOK
<1>2. CASE PodsFrame
  BY <1>2 DEF PodsFrame, Exists
<1>3. CASE Cluster(ClusterNext)
  BY <1>1, <1>2, <1>3, ClusterFrame DEF Frame, Cluster
<1>4. CASE CleanupPod \/ DeleteOutdated
  <2>1. PICK q \in doomed : Write([api EXCEPT !.pods = DeletePod(api.pods, q)])
    BY <1>4 DEF CleanupPod, DeleteOutdated
  <2>. QED
    BY <1>1, <1>2, <2>1, DeleteFrame DEF Frame, Write
<1>5. CASE ScaleDown
  <2>1. PICK c \in current : Write([api EXCEPT !.pods = DeletePod(api.pods, c[1])])
    BY <1>5 DEF ScaleDown
  <2>2. c[1] \in PodIds
    BY <1>1
  <2>. QED
    BY <1>1, <1>2, <2>1, <2>2, DeleteFrame DEF Frame, Write
<1>6. CASE api'.pods = api.pods
  BY <1>6 DEF Exists
<1>7. CASE AddFinalizer \/ CleanupService \/ CleanupConfigMap \/ RemoveFinalizer
             \/ EnsureConfigMap \/ EnsureService
  BY <1>1, <1>6, <1>7 DEF AddFinalizer, CleanupService, CleanupConfigMap,
     RemoveFinalizer, EnsureConfigMap, EnsureService, CreateOrUpdate, Write, Objects
<1>8. CASE \/ Reconcile \/ ListPods \/ ReconcileDone \/ CallFails \/ FullSync \/ Crash
           \/ (\E k \in Kinds : Deliver(k)) \/ UNCHANGED vars
  BY <1>6, <1>8 DEF Reconcile, ListPods, ReconcileDone, CallFails, FullSync, Crash,
     Deliver, Write, vars, clusterVars
<1>. QED
  BY <1>3, <1>4, <1>5, <1>7, <1>8 DEF Next, Pass

\* reconcilePods never creates a Pod for a CR that is gone, has been replaced by
\* a new incarnation or is not under the finalizer, although every step of the
\* pass but the Create itself rests on stale reads.
THEOREM CreatesOnlyForLiveEntry == SafetySpec => CreatesForLiveEntry
<1>. DEFINE P == \A p \in PodIds :
                   (~ Exists(p) /\ Exists(p)') => /\ api.cr # None
                                                  /\ api.cr.finalizer
                                                  /\ api.cr.uid = entry.uid
<1>1. IInv /\ [Next]_vars => [P]_vars
  <2>. SUFFICES ASSUME IInv, [Next]_vars, NEW p \in PodIds, ~ Exists(p), Exists(p)'
                PROVE  api.cr # None /\ api.cr.finalizer /\ api.cr.uid = entry.uid
    OBVIOUS
  <2>1. ScaleUp
    BY OnlyScaleUpCreates
  <2>2. pc \in EnsureSteps /\ Live(entry)
    BY <2>1 DEF IInv, PassBranch, ScaleUp, EnsureSteps
  <2>. QED
    BY <2>2 DEF IInv, SeenLiveExists, Seen
<1>. QED
  BY <1>1, Invariance, PTL DEF SafetySpec, CreatesForLiveEntry

-----------------------------------------------------------------------------
(* The abstract specification.                                             *)

\* The CR that a pass ensures is the stored one, under its finalizer.
LEMMA EnsuredIsStored ==
  ASSUME IInv, pc \in EnsureSteps
  PROVE  /\ entry \in Entry /\ api \in Objects
         /\ api.cr # None /\ api.cr.finalizer /\ api.cr.uid = lastUid /\ entry.uid = lastUid
<1>1. Live(entry) /\ entry \in Entry /\ api \in Objects
  BY DEF IInv, PassBranch, TypeOK, ClusterTypeOK, EnsureSteps
<1>2. api.cr # None /\ api.cr.uid = entry.uid /\ api.cr.finalizer
  BY <1>1 DEF IInv, SeenLiveExists, Seen
<1>. QED
  BY <1>1, <1>2 DEF IInv, SeenIssued

\* Deleting a Pod is not seen, or the Pod is gone.
LEMMA DeleteManaged ==
  ASSUME IInv, NEW p \in PodIds, Write([api EXCEPT !.pods = DeletePod(api.pods, p)])
  PROVE  ManagedStep
<1>1. /\ ClusterChange /\ lastUid' = lastUid
      /\ api'.cr = api.cr /\ api'.cm = api.cm /\ api'.svc = api.svc
  BY DeleteChange DEF IInv, TypeOK, Write
<1>. QED
  BY <1>1, LoseManaged DEF ClusterChange, PodChange

\* addFinalizer guards the CR; removing the finalizer ends a marked CR whose
\* Service and ConfigMap are gone.
LEMMA FinalizersManaged ==
  ASSUME IInv, AddFinalizer \/ RemoveFinalizer
  PROVE  ManagedStep
<1>1. api \in Objects /\ entry \in Entry /\ entry # None /\ lastUid' = lastUid
  BY NoneAssumption DEF IInv, TypeOK, ClusterTypeOK, AddFinalizer, RemoveFinalizer, Write
<1>2. CASE api' = api
  BY <1>1, <1>2, QuietManaged
<1>3. CASE AddFinalizer /\ api.cr = entry
  <2>1. /\ api'.cr = [api.cr EXCEPT !.finalizer = TRUE, !.rv = api.cr.rv + 1]
        /\ OnlyCr
    BY <1>1, <1>3 DEF AddFinalizer, Write, Objects, Entry, OnlyCr
  <2>2. api.cr.rv + 1 \in Nat
    BY <1>1, <1>3, SMTT(20) DEF Entry
  <2>3. api'.cr \in Entry
    BY <1>1, <1>3, <2>1, <2>2, EntryUpdates
  <2>4. api'.cr # None /\ api'.cr.finalizer /\ api'.cr.deleting = api.cr.deleting
    BY <1>1, <1>3, <2>1, <2>3, NoneAssumption DEF Entry
  <2>. QED
    BY <1>1, <1>3, <2>1, <2>4, FinalizerManaged
<1>4. CASE RemoveFinalizer /\ api.cr = entry
  <2>1. api'.cr = None /\ OnlyCr
    BY <1>1, <1>4 DEF RemoveFinalizer, Write, Objects, OnlyCr
  <2>2. api.cr.deleting /\ api.cm = None /\ api.svc = None
    BY <1>4 DEF RemoveFinalizer, IInv, PassBranch, CleanupSteps
  <2>. QED
    BY <1>1, <1>4, <2>1, <2>2, FinalizerManaged
<1>. QED
  BY <1>2, <1>3, <1>4 DEF AddFinalizer, RemoveFinalizer, Write

\* ensureConfigMap and ensureService write objects of the stored CR, or nothing.
LEMMA EnsureManaged ==
  ASSUME IInv, EnsureConfigMap \/ EnsureService
  PROVE  ManagedStep
<1>1. /\ pc \in EnsureSteps /\ lastUid' = lastUid
      /\ TypeOK /\ \A k \in {"cm", "svc"} : api[k] # None => api[k].owner = lastUid
  BY DEF IInv, SeenIssued, ChildrenOwned, EnsureConfigMap, EnsureService, EnsureSteps,
     CreateOrUpdate, Write
<1>2. CASE api' = api
  BY <1>1, <1>2, QuietManaged
<1>3. /\ DesiredConfigMap(entry) # None /\ DesiredConfigMap(entry).owner = entry.uid
      /\ DesiredService(entry) # None /\ DesiredService(entry).owner = entry.uid
  <2>1. DesiredConfigMap(entry) \in ConfigMap /\ DesiredService(entry) \in Service
    BY <1>1, EnsuredIsStored, DesiredTypes DEF TypeOK, ClusterTypeOK
  <2>. QED
    BY <2>1, NoneAssumption DEF DesiredConfigMap, DesiredService
<1>4. CASE api' = [api EXCEPT !["cm"] = DesiredConfigMap(entry)]
  BY <1>1, <1>3, <1>4, EnsuredIsStored, AdoptManaged
<1>5. CASE api' = [api EXCEPT !["svc"] = DesiredService(entry)]
  BY <1>1, <1>3, <1>5, EnsuredIsStored, AdoptManaged
<1>. QED
  BY <1>2, <1>4, <1>5 DEF EnsureConfigMap, EnsureService, CreateOrUpdate, Write

\* A created Pod is one of the stored CR.
LEMMA ScaleUpManaged ==
  ASSUME IInv, ScaleUp
  PROVE  ManagedStep
<1>1. pc \in EnsureSteps /\ clock \in 0 .. MaxClock
  BY DEF ScaleUp, EnsureSteps, IInv, TypeOK, ClusterTypeOK
<1>2. CASE ~ \E p \in PodIds : Fresh(p)
  BY <1>2, QuietManaged DEF ScaleUp, Write
<1>3. CASE \E p \in PodIds : Fresh(p)
  <2>. DEFINE p == CHOOSE p \in PodIds : Fresh(p)
  <2>1. api' = [api EXCEPT !.pods[p] = DesiredPod(entry)] /\ lastUid' = lastUid
    BY <1>3 DEF ScaleUp, Write
  <2>2. p \in PodIds /\ Fresh(p)
    BY <1>3
  <2>. HIDE DEF p
  <2>3. api.pods[p] = None
    BY <2>2 DEF Fresh
  <2>4. DesiredPod(entry) \in Pod
    BY <1>1, EnsuredIsStored, DesiredTypes
  <2>5. DesiredPod(entry) # None /\ DesiredPod(entry).owner = entry.uid
    BY <2>4, NoneAssumption DEF DesiredPod
  <2>. QED
    BY <1>1, <2>1, <2>2, <2>3, <2>5, EnsuredIsStored, AdoptPodManaged
<1>. QED
  BY <1>2, <1>3

\* Every step is one that ManagedEntry allows, or is not seen.
LEMMA StepManaged ==
  ASSUME IInv, [Next]_vars
  PROVE  ManagedStep
<1>1. /\ TypeOK /\ ClusterTypeOK /\ api \in Objects
      /\ doomed \subseteq PodIds /\ current \subseteq PodIds \X (0 .. MaxClock)
  BY DEF IInv, TypeOK, ClusterTypeOK
<1>2. CASE Cluster(ClusterNext)
  <2>1. (api.cr = None \/ ~ api.cr.finalizer) => api.cm = None /\ api.svc = None
    BY DEF IInv, ChildrenOwned
  <2>. QED
    BY <1>1, <1>2, <2>1, ClusterManaged DEF Cluster
<1>3. CASE AddFinalizer \/ RemoveFinalizer
  BY <1>3, FinalizersManaged
<1>4. CASE EnsureConfigMap \/ EnsureService
  BY <1>4, EnsureManaged
<1>5. CASE CleanupPod \/ DeleteOutdated
  BY <1>1, <1>5, DeleteManaged DEF CleanupPod, DeleteOutdated
<1>6. CASE ScaleDown
  <2>1. PICK c \in current : Write([api EXCEPT !.pods = DeletePod(api.pods, c[1])])
    BY <1>6 DEF ScaleDown
  <2>2. c[1] \in PodIds
    BY <1>1
  <2>. QED
    BY <2>1, <2>2, DeleteManaged
<1>7. CASE CleanupService \/ CleanupConfigMap
  <2>1. /\ api'.cr = api.cr /\ api'.pods = api.pods /\ lastUid' = lastUid
        /\ api'.cm \in {api.cm, None} /\ api'.svc \in {api.svc, None}
    BY <1>1, <1>7 DEF CleanupService, CleanupConfigMap, Write, Objects
  <2>. QED
    BY <2>1, LoseManaged
<1>8. CASE ScaleUp
  BY <1>8, ScaleUpManaged
<1>9. CASE \/ Reconcile \/ ListPods \/ ReconcileDone \/ CallFails \/ FullSync \/ Crash
           \/ (\E k \in Kinds : Deliver(k)) \/ UNCHANGED vars
  <2>1. api' = api /\ lastUid' = lastUid
    BY <1>9 DEF Reconcile, ListPods, ReconcileDone, CallFails, FullSync, Crash, Deliver, Write,
       vars, clusterVars
  <2>. QED
    BY <2>1, QuietManaged
<1>. QED
  BY <1>2, <1>3, <1>4, <1>5, <1>6, <1>7, <1>8, <1>9 DEF Next, Pass

\* The operator implements ManagedEntry, for any specs, edits, Pod names, faults and
\* lag of its caches: however stale what a pass has read, it makes objects only for
\* the incarnation that exists under its finalizer, and removes the finalizer of a
\* marked CR only when ConfigMap and Service are gone.
THEOREM OperatorImplementsManagedEntry == SafetySpec => ImplementsManagedEntry
<1>1. Init => Managed!Init
  BY ManagedInit DEF Init
<1>2. IInv /\ [Next]_vars => [Managed!Next]_Managed!managedVars
  BY StepManaged DEF ManagedStep
<1>. QED
  BY <1>1, <1>2, Invariance, PTL DEF SafetySpec, ImplementsManagedEntry, Managed!Spec

-----------------------------------------------------------------------------
(* Cleanup, when its List has seen every Pod.                              *)

\* The cached Pods include every Pod of the cached CR that is not on its way out.
ListsAll ==
  \A p \in PodIds :
    (Exists(p) /\ api.pods[p].owner = cache.cr.uid /\ ~ api.pods[p].deleting)
      => cache.pods[p] # None

\* Cleanup never starts from a List that misses a Pod.
CleanupListsAll == [][pc = "idle" /\ pc' = "cleanupPods" => ListsAll]_vars

\* A Pod that cleanup has yet to delete.
Remaining(p) == pc = "cleanupPods" /\ p \in doomed

\* During cleanup, a Pod of that incarnation is on its way out or remains to be
\* deleted.
LeftToCleanup ==
  pc \in CleanupSteps =>
    \A p \in PodIds :
      (Exists(p) /\ api.pods[p].owner = entry.uid) => api.pods[p].deleting \/ Remaining(p)

\* A step that changes Pods as the cluster may, and takes from the remaining Pods
\* only those on their way out, leaves nothing else to cleanup.
LEMMA CleanupChange ==
  ASSUME LeftToCleanup, pc \in CleanupSteps, entry' = entry, \A p \in PodIds : PodChange(p),
         \A p \in PodIds : Remaining(p) =>
           Remaining(p)' \/ (api'.pods[p] # None => api'.pods[p].deleting)
  PROVE  LeftToCleanup'
BY DEF LeftToCleanup, PodChange, Exists

\* Every step leaves to cleanup only what it deletes, when its List misses no Pod.
LEMMA CleanupStep ==
  ASSUME IInv, LeftToCleanup, [Next]_vars, pc = "idle" /\ pc' = "cleanupPods" => ListsAll
  PROVE  LeftToCleanup'
<1>1. /\ ClusterTypeOK /\ api \in Objects /\ doomed \subseteq PodIds
  BY DEF IInv, TypeOK, ClusterTypeOK
<1>2. CASE pc' \notin CleanupSteps
  BY <1>2 DEF LeftToCleanup
<1>3. ASSUME pc' = pc, entry' = entry, doomed' = doomed, \A p \in PodIds : PodChange(p)
      PROVE  LeftToCleanup'
  <2>1. CASE pc \in CleanupSteps
    BY <1>3, <2>1, CleanupChange DEF Remaining
  <2>. QED
    BY <1>2, <1>3, <2>1
<1>4. CASE Cluster(ClusterNext)
  <2>1. \A p \in PodIds : PodChange(p)
    BY <1>1, <1>4, ClusterChanges DEF Cluster, ClusterChange
  <2>. QED
    BY <1>3, <1>4, <2>1 DEF Cluster, passVars
<1>5. CASE FullSync \/ (\E k \in Kinds : Deliver(k)) \/ UNCHANGED vars
  <2>1. api' = api /\ pc' = pc /\ entry' = entry /\ doomed' = doomed
    BY <1>5 DEF FullSync, Deliver, vars, clusterVars, passVars
  <2>2. \A p \in PodIds : PodChange(p)
    BY <2>1 DEF PodChange
  <2>. QED
    BY <1>3, <2>1, <2>2
<1>6. CASE Reconcile
  <2>1. CASE pc' = "cleanupPods"
    <3>1. /\ pc = "idle" /\ api' = api /\ entry' = cache.cr
          /\ doomed' = {p \in PodIds : cache.pods[p] # None}
      BY <1>6, <2>1 DEF Reconcile, clusterVars
    <3>. QED
      BY <2>1, <3>1 DEF LeftToCleanup, ListsAll, Remaining, Exists
  <2>2. pc' \in {"idle", "cleanupPods", "ensureConfigMap", "addFinalizer"}
    BY <1>6 DEF Reconcile
  <2>. QED
    BY <1>2, <2>1, <2>2 DEF CleanupSteps
<1>7. CASE CleanupPod
  <2>1. PICK q \in doomed : /\ doomed' = doomed \ {q}
                            /\ Write([api EXCEPT !.pods = DeletePod(api.pods, q)])
    BY <1>7 DEF CleanupPod
  <2>2. pc = "cleanupPods" /\ pc' = pc /\ entry' = entry
    BY <1>7 DEF CleanupPod, Continue
  <2>3. /\ \A p \in PodIds : PodChange(p)
        /\ api'.pods[q] # None => api'.pods[q].deleting
    BY <1>1, <2>1, DeleteChange DEF Write, ClusterChange
  <2>. QED
    BY <2>1, <2>2, <2>3, CleanupChange DEF Remaining, CleanupSteps
<1>8. CASE CleanupService \/ CleanupConfigMap
  <2>1. api'.pods = api.pods
    BY <1>1, <1>8 DEF CleanupService, CleanupConfigMap, Write, Objects
  <2>2. /\ pc \in CleanupSteps /\ entry' = entry
        /\ \A p \in PodIds : ~ Remaining(p)
    BY <1>8 DEF CleanupService, CleanupConfigMap, Continue, CleanupSteps, Remaining
  <2>3. \A p \in PodIds : PodChange(p)
    BY <2>1 DEF PodChange
  <2>. QED
    BY <2>2, <2>3, CleanupChange
<1>9. CASE \/ AddFinalizer \/ RemoveFinalizer \/ EnsureConfigMap \/ EnsureService
           \/ ListPods \/ DeleteOutdated \/ ScaleDown \/ ScaleUp \/ ReconcileDone
           \/ CallFails \/ Crash
  <2>1. pc' \in {"idle", "ensureService", "listPods", "reconcilePods"}
    BY <1>9 DEF AddFinalizer, RemoveFinalizer, EnsureConfigMap, EnsureService, ListPods,
       DeleteOutdated, ScaleDown, ScaleUp, ReconcileDone, CallFails, Crash, CreateOrUpdate,
       Continue, Return
  <2>. QED
    BY <1>2, <2>1 DEF CleanupSteps
<1>. QED
  BY <1>4, <1>5, <1>6, <1>7, <1>8, <1>9 DEF Next, Pass

\* A CR goes from under its finalizer only in RemoveFinalizer, as the one the pass
\* has read.
LEMMA OnlyRemoveFinalizerDrops ==
  ASSUME IInv, [Next]_vars, api.cr # None, api.cr.finalizer, api.cr' = None
  PROVE  pc = "removeFinalizer" /\ api.cr = entry
<1>1. /\ ClusterTypeOK /\ api \in Objects
      /\ doomed \subseteq PodIds /\ current \subseteq PodIds \X (0 .. MaxClock)
  BY DEF IInv, TypeOK, ClusterTypeOK
<1>2. api'.cr # api.cr /\ ~ ClusterChange
  BY DEF ClusterChange, CrChange
<1>3. CASE RemoveFinalizer
  BY <1>2, <1>3 DEF RemoveFinalizer, Write
<1>4. ~ Cluster(ClusterNext)
  BY <1>1, <1>2, ClusterChanges DEF Cluster
<1>5. ASSUME NEW q \in PodIds
      PROVE  ~ Write([api EXCEPT !.pods = DeletePod(api.pods, q)])
  BY <1>1, <1>2, DeleteChange DEF Write
<1>6. ~ (CleanupPod \/ DeleteOutdated)
  BY <1>1, <1>5 DEF CleanupPod, DeleteOutdated
<1>7. ~ ScaleDown
  <2>1. \A c \in current : c[1] \in PodIds
    BY <1>1
  <2>. QED
    BY <1>5, <2>1 DEF ScaleDown
<1>8. ASSUME CleanupService \/ CleanupConfigMap \/ EnsureConfigMap \/ EnsureService
      PROVE  api'.cr = api.cr
  <2>1. CASE api' = api
    BY <2>1
  <2>2. ASSUME NEW k \in {"cm", "svc"}, NEW o, api' = [api EXCEPT ![k] = o]
        PROVE  api'.cr = api.cr
    BY <1>1, <2>2 DEF Objects
  <2>3. CASE CleanupService \/ CleanupConfigMap
    BY <1>1, <2>3, SMTT(20) DEF CleanupService, CleanupConfigMap, Write, Objects
  <2>4. CASE EnsureConfigMap \/ EnsureService
    BY <2>1, <2>2, <2>4 DEF EnsureConfigMap, EnsureService, CreateOrUpdate, Write
  <2>. QED
    BY <1>8, <2>3, <2>4
<1>9. ASSUME ScaleUp
      PROVE  api'.cr = api.cr
  <2>1. CASE api' = api
    BY <2>1
  <2>2. ASSUME NEW p, NEW q, api' = [api EXCEPT !.pods[p] = q]
        PROVE  api'.cr = api.cr
    BY <1>1, <2>2 DEF Objects
  <2>. QED
    BY <1>9, <2>1, <2>2 DEF ScaleUp, Write
<1>10. ~ AddFinalizer
  <2>. SUFFICES ASSUME AddFinalizer PROVE FALSE
    OBVIOUS
  <2>1. api.cr \in Entry
    BY <1>1, ObjectsComponents
  <2>2. api.cr = entry
    BY <1>2 DEF AddFinalizer, Write
  <2>3. api'.cr = [api.cr EXCEPT !.finalizer = TRUE, !.rv = api.cr.rv + 1]
    BY <1>1, <2>1, <2>2 DEF AddFinalizer, Write, Objects, Entry
  <2>4. api.cr.rv + 1 \in Nat
    BY <2>1, SMTT(20) DEF Entry
  <2>5. api'.cr \in Entry
    BY <2>1, <2>3, <2>4, EntryUpdates
  <2>. QED
    BY <2>5, NoneAssumption
<1>11. ~ (\/ Reconcile \/ ListPods \/ ReconcileDone \/ CallFails \/ FullSync \/ Crash
           \/ (\E k \in Kinds : Deliver(k)) \/ UNCHANGED vars)
  BY <1>2 DEF Reconcile, ListPods, ReconcileDone, CallFails, FullSync, Crash, Deliver, Write,
     vars, clusterVars
<1>. QED
  BY <1>2, <1>3, <1>4, <1>6, <1>7, <1>8, <1>9, <1>10, <1>11 DEF Next, Pass

\* What the operator leaves behind, it leaves behind for one reason only: when the
\* List from which cleanupOwnedResources deletes never misses a Pod of the CR, the
\* finalizer is removed only when no Pod of that incarnation is left to run, through
\* interrupted passes, failed calls and stale reads of everything else.
THEOREM CleanupMissesOnlyUnlisted == SafetySpec /\ CleanupListsAll => NoPodLeftBehind
<1>. DEFINE A == (api.cr # None /\ api.cr.finalizer /\ api.cr' = None)
                   => \A p \in PodIds :
                        (Exists(p) /\ api.pods[p].owner = api.cr.uid) => api.pods[p].deleting
            L == pc = "idle" /\ pc' = "cleanupPods" => ListsAll
<1>1. Init => LeftToCleanup
  BY DEF Init, LeftToCleanup, CleanupSteps
<1>2. IInv /\ LeftToCleanup /\ [Next]_vars /\ [L]_vars => LeftToCleanup'
  <2>1. UNCHANGED vars /\ IInv /\ [Next]_vars /\ LeftToCleanup => L
    BY DEF vars, passVars
  <2>. QED
    BY <2>1, CleanupStep
<1>3. IInv /\ LeftToCleanup /\ [Next]_vars => [A]_vars
  <2>. SUFFICES ASSUME IInv, LeftToCleanup, [Next]_vars,
                       api.cr # None, api.cr.finalizer, api.cr' = None,
                       NEW p \in PodIds, Exists(p), api.pods[p].owner = api.cr.uid
                PROVE  api.pods[p].deleting
    OBVIOUS
  <2>1. pc = "removeFinalizer" /\ api.cr = entry
    BY OnlyRemoveFinalizerDrops
  <2>. QED
    BY <2>1 DEF LeftToCleanup, Remaining, CleanupSteps
<1>. QED
  BY <1>1, <1>2, <1>3, Invariance, PTL DEF SafetySpec, CleanupListsAll, NoPodLeftBehind

-----------------------------------------------------------------------------
(* The environment of the Pods, when edits never return to an earlier      *)
(* configuration.                                                          *)

LateSteps == EnsureSteps \ {"ensureConfigMap"}

Versions == Seen \cup {api.cr}
Maps == {cache.cm, api.cm} \cup {events.cm[i] : i \in 1 .. Len(events.cm)}

\* Of one incarnation, the environment d is not after e.
Before(d, e) == d[1] = e[1] => Leads(d[2], e[2])

\* The environment d is not after what the version v asks for.
BeforeEntry(d, v) == v # None => Before(d, DesiredConfigData(v))

\* A ConfigMap, stored or still held by the operator, is not after the stored one
\* nor after any version of the CR that a pass may use.
MapOrder(m) ==
  m # None => /\ m.data[1] = m.owner
              /\ m.owner <= lastUid
              /\ api.cm # None => Before(m.data, api.cm.data)
              /\ \A v \in Versions : BeforeEntry(m.data, v)

\* A Pod's environment lies between its hash and the stored CR.
PodOrder(p) ==
  LET q == api.pods[p]
  IN  /\ \A v \in Versions : BeforeEntry(q.hash[1], v)
      /\ api.cm # None => Before(q.hash[1], api.cm.data)
      /\ (q.phase = "Running" /\ ~ Orphan(q.owner)) =>
           /\ q.env \in Data
           /\ q.env[1] = q.owner
           /\ Before(q.hash[1], q.env)
           /\ BeforeEntry(q.env, api.cr)

OrderInv ==
  /\ pc \in LateSteps => api.cm \in {None, DesiredConfigMap(entry)}
  /\ \A m \in Maps : MapOrder(m)
  /\ \A p \in PodIds : Exists(p) => PodOrder(p)

\* What any step may do to the stored CR and to the versions and ConfigMaps the
\* operator holds.
HeldStep ==
  /\ lastUid' \in {lastUid, lastUid + 1}
  /\ api'.cr # None => \/ /\ api.cr # None /\ api'.cr.uid = api.cr.uid
                          /\ \/ api'.cr.spec = api.cr.spec
                             \/ <<api.cr.spec, api'.cr.spec>> \in Edits
                       \/ api'.cr.uid = lastUid + 1
  /\ Versions' \subseteq Versions \cup {None, api'.cr}
  /\ Maps' \subseteq Maps \cup {None, api'.cm}

\* The arithmetic of the steps below.
LEMMA Counting ==
  /\ \A i : i \notin 1 .. 0
  /\ \A a, b \in Nat : b \in {a, a + 1} => a <= b
  /\ \A a, b, c \in Nat : a <= b /\ b <= c => a <= c
  /\ \A a, b \in Nat : a <= b => a # b + 1
BY SMTT(20)

\* The types of what OrderInv compares.
LEMMA HeldTypes ==
  ASSUME TypeOK
  PROVE  /\ lastUid \in Nat
         /\ \A v \in Versions : v \in Entry \cup {None}
         /\ \A m \in Maps : m \in ConfigMap \cup {None}
         /\ \A p \in PodIds : Exists(p) => api.pods[p] \in Pod
<1>1. /\ events.cr \in Seq(Entry \cup {None}) /\ events.cm \in Seq(ConfigMap \cup {None})
      /\ api.cr \in Entry \cup {None} /\ cache.cr \in Entry \cup {None}
      /\ api.cm \in ConfigMap \cup {None} /\ cache.cm \in ConfigMap \cup {None}
      /\ entry \in Entry \cup {None} /\ api.pods \in [PodIds -> Pod \cup {None}]
  BY HistoriesComponents, ObjectsComponents DEF TypeOK, ClusterTypeOK
<1>2. lastUid \in Nat
  BY BoundsAssumption, SMTT(20) DEF TypeOK, ClusterTypeOK
<1>3. \A v \in Versions : v \in Entry \cup {None}
  <2>1. \A i \in 1 .. Len(events.cr) : events.cr[i] \in Entry \cup {None}
    BY <1>1, SMTT(20)
  <2>. QED
    BY <1>1, <2>1 DEF Versions, Seen
<1>4. \A m \in Maps : m \in ConfigMap \cup {None}
  <2>1. \A i \in 1 .. Len(events.cm) : events.cm[i] \in ConfigMap \cup {None}
    BY <1>1, SMTT(20)
  <2>. QED
    BY <1>1, <2>1 DEF Maps
<1>. QED
  BY <1>1, <1>2, <1>3, <1>4 DEF Exists

LEMMA DataTypes ==
  /\ \A m \in ConfigMap : m.data \in Data
  /\ \A v \in Entry : /\ DesiredConfigData(v) \in Data
                      /\ DesiredConfigData(v)[1] = v.uid
                      /\ DesiredConfigData(v)[2] = v.spec.config
                      /\ v.spec \in Specs
                      /\ DesiredConfigMap(v).data = DesiredConfigData(v)
                      /\ DesiredConfigMap(v).owner = v.uid
  /\ \A q \in Pod : q.hash[1] \in Data
  /\ \A d \in Data : d = <<d[1], d[2]>> /\ d[1] \in Nat /\ d[2] \in Configs
<1>1. \A v \in Entry : v.spec \in Specs /\ v.spec.config \in Configs /\ v.uid \in Uids
  BY SpecsAssumption DEF Entry
<1>2. \A v \in Entry : /\ DesiredConfigData(v) = <<v.uid, v.spec.config>>
                       /\ DesiredConfigMap(v).data = DesiredConfigData(v)
                       /\ DesiredConfigMap(v).owner = v.uid
  BY DEF DesiredConfigData, StableTokenSecret, DesiredConfigMap
<1>3. \A d \in Data : d = <<d[1], d[2]>> /\ d[1] \in Nat /\ d[2] \in Configs
  BY BoundsAssumption, SMTT(20) DEF Data, Uids
<1>4. \A u \in Uids : \A c \in Configs : /\ <<u, c>> \in Data
                                       /\ <<u, c>>[1] = u /\ <<u, c>>[2] = c
  BY SMTT(20) DEF Data
<1>5. \A m \in ConfigMap : m.data \in Data
  BY DEF ConfigMap
<1>6. \A q \in Pod : q.hash[1] \in Data
  BY DEF Pod, Hashes
<1>7. ASSUME NEW v \in Entry
      PROVE  /\ DesiredConfigData(v) \in Data
             /\ DesiredConfigData(v)[1] = v.uid /\ DesiredConfigData(v)[2] = v.spec.config
  <2>. DEFINE u == v.uid
              c == v.spec.config
  <2>1. DesiredConfigData(v) = <<u, c>> /\ u \in Uids /\ c \in Configs
    BY <1>1, <1>2
  <2>. HIDE DEF u, c
  <2>2. DesiredConfigData(v) \in Data /\ DesiredConfigData(v)[1] = u /\ DesiredConfigData(v)[2] = c
    BY <1>4, <2>1, SMTT(20)
  <2>. QED
    BY <2>2 DEF u, c
<1>. QED
  BY <1>1, <1>2, <1>3, <1>5, <1>6, <1>7

\* Environments of one incarnation are ordered.
LEMMA BeforeOrder ==
  ASSUME Onward
  PROVE  /\ \A d \in Data : Before(d, d)
         /\ \A c, d, e \in Data : Before(c, d) /\ Before(d, e) /\ c[1] = d[1] => Before(c, e)
         /\ \A c, d \in Data : Before(c, d) /\ Before(d, c) /\ c[1] = d[1] => c = d
<1>1. \A d \in Data : d[2] \in Configs
  BY DataTypes
<1>2. \A d \in Data : Before(d, d)
  BY DEF Before, Leads
<1>3. ASSUME NEW c \in Data, NEW d \in Data, NEW e \in Data,
             Before(c, d), Before(d, e), c[1] = d[1], c[1] = e[1]
      PROVE  Leads(c[2], e[2])
  <2>1. Leads(c[2], d[2]) /\ Leads(d[2], e[2])
    BY <1>3 DEF Before
  <2>. QED
    BY <1>1, <2>1, Order
<1>4. ASSUME NEW c \in Data, NEW d \in Data, Before(c, d), Before(d, c), c[1] = d[1]
      PROVE  c = d
  <2>1. c[2] = d[2]
    BY <1>1, <1>4, Order DEF Before
  <2>. QED
    BY <1>4, <2>1, DataTypes
<1>. QED
  BY <1>2, <1>3, <1>4 DEF Before

\* What is not after the stored CR is not after the changed one.
LEMMA StillBefore ==
  ASSUME Onward, TypeOK, TypeOK', HeldStep, NEW d \in Data, d[1] <= lastUid,
         BeforeEntry(d, api.cr)
  PROVE  BeforeEntry(d, api'.cr)
<1>. SUFFICES ASSUME api'.cr # None, d[1] = api'.cr.uid
              PROVE  Leads(d[2], api'.cr.spec.config)
  BY DEF BeforeEntry, Before, DesiredConfigData, StableTokenSecret
<1>1. lastUid \in Nat /\ d[1] \in Nat /\ d[2] \in Configs
  BY HeldTypes, DataTypes
<1>2. /\ api.cr # None /\ api'.cr.uid = api.cr.uid
      /\ api'.cr.spec = api.cr.spec \/ <<api.cr.spec, api'.cr.spec>> \in Edits
  BY <1>1, Counting DEF HeldStep
<1>3. Leads(d[2], api.cr.spec.config)
  BY <1>2 DEF BeforeEntry, Before, DesiredConfigData, StableTokenSecret
<1>4. api.cr \in Entry /\ api'.cr \in Entry
  BY <1>2, HeldTypes DEF TypeOK, ClusterTypeOK, Objects, Versions
<1>5. api.cr.spec \in Specs /\ api'.cr.spec \in Specs
  BY <1>4 DEF Entry
<1>6. api.cr.spec.config \in Configs /\ api'.cr.spec.config \in Configs
  BY <1>5, SpecsAssumption
<1>7. Leads(api.cr.spec.config, api'.cr.spec.config)
  BY <1>2, <1>5, Order DEF Leads
<1>8. \A c, e \in Configs : Leads(d[2], c) /\ Leads(c, e) => Leads(d[2], e)
  BY <1>1, Order
<1>. QED
  BY <1>3, <1>6, <1>7, <1>8

LEMMA StillBeforeAll ==
  ASSUME Onward, TypeOK, TypeOK', HeldStep, NEW d \in Data, d[1] <= lastUid,
         \A v \in Versions : BeforeEntry(d, v)
  PROVE  \A v \in Versions' : BeforeEntry(d, v)
<1>1. BeforeEntry(d, api'.cr)
  BY StillBefore DEF Versions
<1>2. BeforeEntry(d, None)
  BY DEF BeforeEntry
<1>. QED
  BY <1>1, <1>2 DEF HeldStep

\* A step that creates no Pod and writes no ConfigMap keeps the order.
LEMMA OrderKept ==
  ASSUME Onward, IInv, TypeOK', OrderInv, HeldStep, \A p \in PodIds : PodChange(p),
         api'.cm \in {api.cm, None},
         pc' \in LateSteps => api'.cm \in {None, DesiredConfigMap(entry')}
  PROVE  OrderInv'
<1>0. TypeOK /\ lastUid \in Nat /\ lastUid' \in Nat /\ lastUid <= lastUid'
  <2>1. TypeOK /\ lastUid \in Nat
    BY HeldTypes DEF IInv
  <2>2. lastUid' \in Nat
    BY BoundsAssumption, SMTT(20) DEF TypeOK, ClusterTypeOK
  <2>. QED
    BY <2>1, <2>2, Counting DEF HeldStep
<1>1. ASSUME NEW m \in Maps' PROVE MapOrder(m)'
  <2>. SUFFICES ASSUME m # None PROVE MapOrder(m)'
    BY DEF MapOrder
  <2>1. m \in Maps
    BY DEF HeldStep, Maps
  <2>2. m \in ConfigMap /\ m.data \in Data /\ m.data[1] \in Nat
    BY <1>0, <2>1, HeldTypes, DataTypes
  <2>3. MapOrder(m)
    BY <2>1 DEF OrderInv
  <2>4. \A v \in Versions' : BeforeEntry(m.data, v)
    BY <1>0, <2>2, <2>3, StillBeforeAll DEF MapOrder
  <2>5. m.data[1] = m.owner /\ m.owner <= lastUid'
    BY <1>0, <2>2, <2>3, Counting DEF MapOrder
  <2>6. api'.cm # None => Before(m.data, api'.cm.data)
    BY <2>3 DEF MapOrder
  <2>. QED
    BY <2>4, <2>5, <2>6 DEF MapOrder
<1>2. ASSUME NEW p \in PodIds, Exists(p)' PROVE PodOrder(p)'
  <2>. DEFINE o == api.pods[p]
              q == api'.pods[p]
  <2>1. Exists(p) /\ PodOrder(p) /\ q.hash = o.hash /\ q.owner = o.owner
    BY <1>2 DEF OrderInv, PodChange, Exists
  <2>2. /\ o \in Pod /\ o.hash[1] \in Data /\ o.owner <= lastUid /\ o.hash[1][1] = o.owner
        /\ o.owner \in Nat
    BY <1>0, <2>1, HeldTypes, DataTypes DEF IInv, HashNamesOwner
  <2>3. \A v \in Versions' : BeforeEntry(o.hash[1], v)
    BY <1>0, <2>1, <2>2, StillBeforeAll DEF PodOrder
  <2>4. ASSUME q.phase = "Running", api'.cr # None, api'.cr.uid = q.owner
        PROVE  /\ q.env \in Data /\ q.env[1] = q.owner
               /\ Before(q.hash[1], q.env) /\ BeforeEntry(q.env, api'.cr)
    <3>1. api.cr # None /\ api.cr.uid = o.owner /\ ~ Orphan(o.owner)
      BY <1>0, <2>1, <2>2, <2>4, Counting DEF Orphan, HeldStep
    <3>2. CASE o.phase = "Running" /\ q.env = o.env
      <4>1. o.env \in Data /\ o.env[1] = o.owner /\ Before(o.hash[1], o.env) /\ BeforeEntry(o.env, api.cr)
        BY <2>1, <3>1, <3>2 DEF PodOrder
      <4>. QED
        BY <1>0, <2>1, <2>2, <3>2, <4>1, StillBefore
    <3>3. CASE api.cm # None /\ q.env = api.cm.data
      <4>1. MapOrder(api.cm) /\ api.cm.owner = api.cr.uid
        BY <3>3 DEF OrderInv, Maps, IInv, ChildrenOwned
      <4>2. api.cm.data \in Data
        BY <1>0, <3>3, HeldTypes, DataTypes DEF Maps
      <4>3. api.cm.data[1] = o.owner /\ BeforeEntry(api.cm.data, api.cr)
        BY <3>1, <3>3, <4>1 DEF MapOrder, Versions
      <4>4. Before(o.hash[1], api.cm.data)
        BY <2>1, <3>3 DEF PodOrder
      <4>. QED
        BY <1>0, <2>1, <2>2, <3>3, <4>2, <4>3, <4>4, StillBefore
    <3>. QED
      BY <1>2, <2>4, <3>2, <3>3 DEF PodChange, Exists
  <2>5. api'.cm # None => Before(q.hash[1], api'.cm.data)
    BY <2>1 DEF PodOrder
  <2>. QED
    BY <2>1, <2>3, <2>4, <2>5 DEF PodOrder, Orphan
<1>. QED
  BY <1>1, <1>2 DEF OrderInv

\* The CR a pass works from is not after any version held or stored.
LEMMA EntryFirst ==
  ASSUME Onward, IInv, entry \in Entry
  PROVE  \A v \in Versions : BeforeEntry(DesiredConfigData(entry), v)
<1>0. TypeOK /\ entry # None
  BY NoneAssumption DEF IInv
<1>1. \A v \in Versions : NotBefore(entry, v) \/ v = entry
  BY DEF IInv, InOrder, Versions, Seen
<1>2. \A v \in Versions : v \in Entry \cup {None}
  BY <1>0, HeldTypes
<1>3. \A v \in Versions : v # None /\ v.uid = entry.uid => Leads(entry.spec.config, v.spec.config)
  BY <1>0, <1>1 DEF NotBefore, Leads
<1>. QED
  BY <1>2, <1>3, DataTypes DEF BeforeEntry, Before

\* ensureConfigMap stores what the CR of the pass asks for.
LEMMA OrderPutMap ==
  ASSUME Onward, IInv, OrderInv, HeldStep, entry \in Entry,
         pc' = "ensureService", entry' = entry, lastUid' = lastUid,
         api'.cr = api.cr, api'.pods = api.pods, api'.cm = DesiredConfigMap(entry)
  PROVE  OrderInv'
<1>. DEFINE d == DesiredConfigData(entry)
<1>0. TypeOK /\ entry # None
  BY NoneAssumption DEF IInv
<1>1. /\ d \in Data /\ d[1] = entry.uid /\ api'.cm.data = d /\ api'.cm.owner = entry.uid
      /\ api'.cm # None
  <2>1. api'.cm \in ConfigMap
    BY <1>0, DesiredTypes DEF TypeOK, ClusterTypeOK
  <2>. QED
    BY <2>1, DataTypes, NoneAssumption
<1>2. \A v \in Versions : BeforeEntry(d, v)
  BY EntryFirst
<1>3. Versions' \subseteq Versions \cup {None}
  BY DEF HeldStep, Versions
<1>4. \A v \in Versions' : BeforeEntry(d, v)
  BY <1>2, <1>3 DEF BeforeEntry
<1>5. ASSUME NEW m \in Maps' PROVE MapOrder(m)'
  <2>1. CASE m = None
    BY <2>1 DEF MapOrder
  <2>2. CASE m = api'.cm
    <3>1. entry.uid <= lastUid
      BY <1>0 DEF IInv, SeenIssued, Seen
    <3>2. Before(d, d)
      BY <1>1, BeforeOrder
    <3>. QED
      BY <1>1, <1>4, <2>2, <3>1, <3>2 DEF MapOrder
  <2>3. CASE m \in Maps /\ m # None
    <3>1. MapOrder(m)
      BY <2>3 DEF OrderInv
    <3>2. Before(m.data, d)
      BY <1>0, <2>3, <3>1 DEF MapOrder, BeforeEntry, Versions, Seen
    <3>3. \A v \in Versions' : BeforeEntry(m.data, v)
      BY <1>3, <2>3, <3>1 DEF MapOrder, BeforeEntry
    <3>. QED
      BY <1>1, <2>3, <3>1, <3>2, <3>3 DEF MapOrder
  <2>. QED
    BY <2>1, <2>2, <2>3 DEF HeldStep
<1>6. ASSUME NEW p \in PodIds, Exists(p)' PROVE PodOrder(p)'
  <2>. DEFINE q == api.pods[p]
  <2>1. Exists(p) /\ PodOrder(p)
    BY <1>6 DEF OrderInv, Exists
  <2>2. \A v \in Versions' : BeforeEntry(q.hash[1], v)
    BY <1>3, <2>1 DEF PodOrder, BeforeEntry
  <2>3. Before(q.hash[1], d)
    BY <1>0, <2>1 DEF PodOrder, BeforeEntry, Versions, Seen
  <2>. QED
    BY <1>1, <2>1, <2>2, <2>3 DEF PodOrder, Orphan
<1>7. pc' \in LateSteps => api'.cm \in {None, DesiredConfigMap(entry')}
  OBVIOUS
<1>. QED
  BY <1>5, <1>6, <1>7 DEF OrderInv

\* A Pod is created when the ConfigMap is that of the pass, or is gone again.
LEMMA OrderCreate ==
  ASSUME Onward, IInv, OrderInv, HeldStep, entry \in Entry, NEW p \in PodIds,
         pc = "reconcilePods", pc' = pc, entry' = entry, lastUid' = lastUid,
         api'.cr = api.cr, api'.cm = api.cm,
         \A q \in PodIds : api'.pods[q] = IF q = p THEN DesiredPod(entry) ELSE api.pods[q]
  PROVE  OrderInv'
<1>. DEFINE d == DesiredConfigData(entry)
<1>0. TypeOK /\ entry # None
  BY NoneAssumption DEF IInv
<1>1. /\ d \in Data /\ DesiredPod(entry).hash[1] = d /\ DesiredPod(entry).phase = "Pending"
      /\ DesiredConfigMap(entry).data = d
  BY DataTypes DEF DesiredPod, CalculateSpecHash
<1>2. \A v \in Versions : BeforeEntry(d, v)
  BY EntryFirst
<1>3. Versions' \subseteq Versions \cup {None}
  BY DEF HeldStep, Versions
<1>4. ASSUME NEW m \in Maps' PROVE MapOrder(m)'
  <2>1. CASE m = None
    BY <2>1 DEF MapOrder
  <2>2. CASE m \in Maps /\ m # None
    <3>1. MapOrder(m)
      BY <2>2 DEF OrderInv
    <3>2. \A v \in Versions' : BeforeEntry(m.data, v)
      BY <1>3, <2>2, <3>1 DEF MapOrder, BeforeEntry
    <3>. QED
      BY <2>2, <3>1, <3>2 DEF MapOrder
  <2>. QED
    BY <2>1, <2>2 DEF HeldStep, Maps
<1>5. ASSUME NEW q \in PodIds, Exists(q)' PROVE PodOrder(q)'
  <2>1. CASE q = p
    <3>1. \A v \in Versions' : BeforeEntry(d, v)
      BY <1>2, <1>3 DEF BeforeEntry
    <3>2. api.cm # None => Before(d, api.cm.data)
      BY <1>1, BeforeOrder DEF OrderInv, LateSteps, EnsureSteps
    <3>. QED
      BY <1>1, <2>1, <3>1, <3>2 DEF PodOrder
  <2>2. CASE q # p
    <3>1. api'.pods[q] = api.pods[q] /\ Exists(q) /\ PodOrder(q)
      BY <1>5, <2>2 DEF OrderInv, Exists
    <3>2. \A v \in Versions' : BeforeEntry(api.pods[q].hash[1], v)
      BY <1>3, <3>1 DEF PodOrder, BeforeEntry
    <3>. QED
      BY <3>1, <3>2 DEF PodOrder, Orphan
  <2>. QED
    BY <2>1, <2>2
<1>6. pc' \in LateSteps => api'.cm \in {None, DesiredConfigMap(entry')}
  BY DEF OrderInv
<1>. QED
  BY <1>4, <1>5, <1>6 DEF OrderInv

\* The operator comes to hold nothing but what is stored: by the watch, by a
\* delivery, by the read of a pass, by listing everything after a restart.
LEMMA HeldByWatch ==
  ASSUME TypeOK, Watch, cache' = cache, entry' \in {entry, None}
  PROVE  /\ Versions' \subseteq Versions \cup {None, api'.cr}
         /\ Maps' \subseteq Maps \cup {None, api'.cm}
<1>1. events.cr \in Seq(Entry \cup {None}) /\ events.cm \in Seq(ConfigMap \cup {None})
  BY HistoriesComponents DEF TypeOK
<1>2. /\ \A i \in 1 .. Len(events'.cr) : \/ i \in 1 .. Len(events.cr) /\ events'.cr[i] = events.cr[i]
                                         \/ events'.cr[i] = api'.cr
      /\ \A i \in 1 .. Len(events'.cm) : \/ i \in 1 .. Len(events.cm) /\ events'.cm[i] = events.cm[i]
                                         \/ events'.cm[i] = api'.cm
  <2>1. /\ events'.cr = events.cr \/ events'.cr = Append(events.cr, api'.cr)
        /\ events'.cm = events.cm \/ events'.cm = Append(events.cm, api'.cm)
    BY WatchEvents
  <2>2. ASSUME NEW S, NEW s \in Seq(S), NEW x, NEW t, t = s \/ t = Append(s, x)
        PROVE  \A i \in 1 .. Len(t) : (i \in 1 .. Len(s) /\ t[i] = s[i]) \/ t[i] = x
    <3>1. CASE t = s
      BY <3>1
    <3>2. CASE t = Append(s, x)
      <4>1. Len(s) \in Nat /\ Len(t) = Len(s) + 1 /\ t[Len(s) + 1] = x
            /\ \A i \in 1 .. Len(s) : t[i] = s[i]
        BY <3>2, SMTT(20)
      <4>2. \A i \in 1 .. Len(t) : i \in 1 .. Len(s) \/ i = Len(s) + 1
        BY <4>1, SMTT(20)
      <4>. QED
        BY <4>1, <4>2
    <3>. QED
      BY <2>2, <3>1, <3>2
  <2>3. \A i \in 1 .. Len(events'.cr) : \/ i \in 1 .. Len(events.cr) /\ events'.cr[i] = events.cr[i]
                                        \/ events'.cr[i] = api'.cr
    <3>. DEFINE s == events.cr
                t == events'.cr
                x == api'.cr
    <3>1. s \in Seq(Entry \cup {None}) /\ (t = s \/ t = Append(s, x))
      BY <1>1, <2>1
    <3>. HIDE DEF s, t, x
    <3>2. \A i \in 1 .. Len(t) : (i \in 1 .. Len(s) /\ t[i] = s[i]) \/ t[i] = x
      BY <3>1, <2>2, SMTT(20)
    <3>. QED
      BY <3>2 DEF s, t, x
  <2>4. \A i \in 1 .. Len(events'.cm) : \/ i \in 1 .. Len(events.cm) /\ events'.cm[i] = events.cm[i]
                                        \/ events'.cm[i] = api'.cm
    <3>. DEFINE s == events.cm
                t == events'.cm
                x == api'.cm
    <3>1. s \in Seq(ConfigMap \cup {None}) /\ (t = s \/ t = Append(s, x))
      BY <1>1, <2>1
    <3>. HIDE DEF s, t, x
    <3>2. \A i \in 1 .. Len(t) : (i \in 1 .. Len(s) /\ t[i] = s[i]) \/ t[i] = x
      BY <3>1, <2>2, SMTT(20)
    <3>. QED
      BY <3>2 DEF s, t, x
  <2>. QED
    BY <2>3, <2>4
<1>. QED
  BY <1>2 DEF Versions, Seen, Maps

LEMMA HeldByDelivery ==
  ASSUME TypeOK, NEW k \in Kinds, Deliver(k)
  PROVE  Versions' \subseteq Versions /\ Maps' \subseteq Maps
<1>1. api' = api /\ entry' = entry /\ events[k] # <<>>
  BY DEF Deliver, clusterVars, passVars
<1>2. events \in Histories /\ cache \in Objects
  BY DEF TypeOK
<1>3. events.cr \in Seq(Entry \cup {None}) /\ events.cm \in Seq(ConfigMap \cup {None})
  BY HistoriesComponents DEF TypeOK
<1>4. /\ \/ cache'.cr = cache.cr /\ events'.cr = events.cr
         \/ events.cr # <<>> /\ cache'.cr = Head(events.cr) /\ events'.cr = Tail(events.cr)
      /\ \/ cache'.cm = cache.cm /\ events'.cm = events.cm
         \/ events.cm # <<>> /\ cache'.cm = Head(events.cm) /\ events'.cm = Tail(events.cm)
  BY <1>1, <1>2 DEF Deliver, Objects, Histories
<1>5. ASSUME NEW S, NEW s \in Seq(S), s # <<>>
      PROVE  /\ Head(s) = s[1] /\ 1 \in 1 .. Len(s)
             /\ \A i \in 1 .. Len(Tail(s)) : i + 1 \in 1 .. Len(s) /\ Tail(s)[i] = s[i + 1]
  BY <1>5, SMTT(20)
<1>6. Versions' \subseteq Versions
  <2>1. CASE events'.cr = events.cr /\ cache'.cr = cache.cr
    BY <1>1, <2>1 DEF Versions, Seen
  <2>2. CASE events.cr # <<>> /\ cache'.cr = Head(events.cr) /\ events'.cr = Tail(events.cr)
    <3>1. /\ cache'.cr = events.cr[1] /\ 1 \in 1 .. Len(events.cr)
          /\ \A i \in 1 .. Len(events'.cr) : /\ i + 1 \in 1 .. Len(events.cr)
                                            /\ events'.cr[i] = events.cr[i + 1]
      BY <1>3, <1>5, <2>2
    <3>2. cache'.cr \in Seen /\ \A i \in 1 .. Len(events'.cr) : events'.cr[i] \in Seen
      BY <3>1 DEF Seen
    <3>. QED
      BY <1>1, <3>2 DEF Versions, Seen
  <2>. QED
    BY <1>4, <2>1, <2>2
<1>7. Maps' \subseteq Maps
  <2>1. CASE events'.cm = events.cm /\ cache'.cm = cache.cm
    BY <1>1, <2>1 DEF Maps
  <2>2. CASE events.cm # <<>> /\ cache'.cm = Head(events.cm) /\ events'.cm = Tail(events.cm)
    <3>1. /\ cache'.cm = events.cm[1] /\ 1 \in 1 .. Len(events.cm)
          /\ \A i \in 1 .. Len(events'.cm) : /\ i + 1 \in 1 .. Len(events.cm)
                                            /\ events'.cm[i] = events.cm[i + 1]
      BY <1>3, <1>5, <2>2
    <3>2. cache'.cm \in Maps /\ \A i \in 1 .. Len(events'.cm) : events'.cm[i] \in Maps
      BY <3>1 DEF Maps
    <3>. QED
      BY <1>1, <3>2 DEF Maps
  <2>. QED
    BY <1>4, <2>1, <2>2
<1>. QED
  BY <1>6, <1>7

\* A ConfigMap that is taken for up to date because the cached one is, is up to
\* date or gone.
LEMMA CachedMapSuffices ==
  ASSUME Onward, IInv, OrderInv, pc \in EnsureSteps, cache.cm = DesiredConfigMap(entry)
  PROVE  api.cm \in {None, DesiredConfigMap(entry)}
<1>. SUFFICES ASSUME api.cm # None PROVE api.cm = DesiredConfigMap(entry)
  OBVIOUS
<1>1. TypeOK /\ entry \in Entry /\ Live(entry) /\ entry # None
  BY NoneAssumption DEF IInv, TypeOK, PassBranch, EnsureSteps
<1>2. api.cr # None /\ api.cr.uid = entry.uid /\ api.cm.owner = entry.uid
  BY <1>1, ChildrenOwnedParts DEF IInv, SeenLiveExists, Seen
<1>3. api.cm \in ConfigMap /\ cache.cm \in ConfigMap /\ cache.cm # None
  <2>1. DesiredConfigMap(entry) \in ConfigMap
    BY <1>1, DesiredTypes DEF TypeOK, ClusterTypeOK
  <2>. QED
    BY <1>1, <2>1, HeldTypes, NoneAssumption DEF Maps
<1>4. MapOrder(api.cm) /\ MapOrder(cache.cm)
  BY DEF OrderInv, Maps
<1>. DEFINE d == api.cm.data
            e == DesiredConfigData(entry)
<1>5. cache.cm.data = e /\ e[1] = entry.uid /\ d[1] = entry.uid /\ {d, e} \subseteq Data
  BY <1>1, <1>2, <1>3, <1>4, DataTypes DEF MapOrder
<1>6. Before(e, d) /\ Before(d, e)
  BY <1>1, <1>3, <1>4, <1>5 DEF MapOrder, BeforeEntry, Versions, Seen
<1>7. d = e
  BY <1>5, <1>6, BeforeOrder
<1>. QED
  BY <1>2, <1>3, <1>7 DEF DesiredConfigMap, ConfigMap

\* Every step keeps the order.
LEMMA OrderStep ==
  ASSUME Onward, IInv, IInv', OrderInv, [Next]_vars
  PROVE  OrderInv'
<1>0. /\ TypeOK /\ TypeOK' /\ ClusterTypeOK /\ api \in Objects /\ doomed \subseteq PodIds
      /\ current \subseteq PodIds \X (0 .. MaxClock) /\ lastUid \in Nat
  BY HeldTypes DEF IInv, TypeOK, ClusterTypeOK
<1>. USE DEF LateSteps, EnsureSteps
<1>1. ASSUME CrStep, \A p \in PodIds : PodChange(p), api'.cm \in {api.cm, None},
             Versions' \subseteq Versions \cup {None, api'.cr},
             Maps' \subseteq Maps \cup {None, api'.cm},
             pc' \in LateSteps => \/ pc \in LateSteps /\ entry' = entry
                                  \/ api.cm \in {None, DesiredConfigMap(entry')}
      PROVE  OrderInv'
  <2>1. HeldStep
    BY <1>1 DEF CrStep, HeldStep
  <2>2. pc' \in LateSteps => api'.cm \in {None, DesiredConfigMap(entry')}
    BY <1>1 DEF OrderInv
  <2>. QED
    BY <1>0, <1>1, <2>1, <2>2, OrderKept
<1>2. ASSUME ClusterChange, Watch, cache' = cache,
             \/ pc' \notin LateSteps /\ entry' \in {entry, None}
             \/ pc' = pc /\ entry' = entry
      PROVE  OrderInv'
  <2>1. CrStep
    BY <1>2, ChangeFrame DEF Frame
  <2>. QED
    BY <1>0, <1>1, <1>2, <2>1, HeldByWatch DEF ClusterChange
<1>3. ASSUME api' = api, lastUid' = lastUid,
             Versions' \subseteq Versions \cup {None}, Maps' \subseteq Maps \cup {None},
             pc' \in LateSteps => \/ pc \in LateSteps /\ entry' = entry
                                  \/ api.cm \in {None, DesiredConfigMap(entry')}
      PROVE  OrderInv'
  BY <1>1, <1>3, UnchangedChange DEF ClusterChange, CrStep
<1>4. ASSUME UNCHANGED <<api, lastUid, cache, events>>, entry' \in {entry, None},
             pc' \in LateSteps => \/ pc \in LateSteps /\ entry' = entry
                                  \/ api.cm \in {None, DesiredConfigMap(entry')}
      PROVE  OrderInv'
  BY <1>3, <1>4 DEF Versions, Seen, Maps
<1>5. CASE UNCHANGED vars \/ CallFails \/ FullSync \/ ListPods
  BY <1>4, <1>5
  DEF vars, clusterVars, passVars, CallFails, Return, FullSync, ListPods, Continue
<1>6. ASSUME NEW k \in Kinds, Deliver(k) PROVE OrderInv'
  BY <1>0, <1>3, <1>6, HeldByDelivery DEF Deliver, clusterVars, passVars
<1>7. CASE Crash
  <2>1. api' = api /\ lastUid' = lastUid /\ cache' = api /\ entry' = None /\ pc' = "idle"
    BY <1>7 DEF Crash
  <2>2. Len(events'.cr) = 0 /\ Len(events'.cm) = 0
    BY <1>7 DEF Crash, Kinds
  <2>3. Versions' \subseteq Versions \cup {None}
    BY <2>1, <2>2, Counting DEF Versions, Seen
  <2>4. Maps' \subseteq Maps \cup {None}
    BY <2>1, <2>2, Counting DEF Maps
  <2>5. pc' \notin LateSteps
    BY <2>1 DEF LateSteps
  <2>. QED
    BY <1>3, <2>1, <2>3, <2>4, <2>5
<1>8. CASE Reconcile
  <2>1. /\ UNCHANGED <<api, lastUid, cache, events>>
        /\ entry' = cache.cr /\ pc' \notin LateSteps
    BY <1>8 DEF Reconcile, clusterVars
  <2>. QED
    BY <1>3, <2>1 DEF Versions, Seen, Maps
<1>9. CASE Cluster(ClusterNext)
  BY <1>0, <1>2, <1>9, ClusterChanges DEF Cluster, passVars
<1>10. CASE AddFinalizer
  <2>1. /\ Watch /\ cache' = cache /\ entry' = None /\ pc' = "idle" /\ lastUid' = lastUid
    BY <1>10 DEF AddFinalizer, Write, Return
  <2>2. CASE api.cr # entry
    BY <1>2, <1>10, <2>1, <2>2, UnchangedChange DEF AddFinalizer, Write
  <2>3. CASE api.cr = entry
    <3>1. api.cr \in Entry /\ api.cr # None
      BY <1>0, <1>10, <2>3, NoneAssumption DEF TypeOK, AddFinalizer
    <3>2. /\ api'.cr = [api.cr EXCEPT !.finalizer = TRUE, !.rv = api.cr.rv + 1]
          /\ api'.pods = api.pods /\ api'.cm = api.cm
      BY <1>0, <1>10, <2>3, <3>1 DEF AddFinalizer, Write, Objects, Entry
    <3>3. /\ api'.cr.uid = api.cr.uid /\ api'.cr.spec = api.cr.spec
          /\ api'.cr.finalizer /\ api'.cr.deleting = api.cr.deleting
      BY <3>1, <3>2 DEF Entry
    <3>4. api'.cr # None
      <4>1. api.cr.rv + 1 \in Nat
        BY <3>1, SMTT(20) DEF Entry
      <4>. QED
        BY <3>1, <3>2, <4>1, EntryUpdates, NoneAssumption
    <3>5. CrStep /\ \A p \in PodIds : PodChange(p)
      BY <2>1, <3>1, <3>2, <3>3, <3>4 DEF CrStep, PodChange
    <3>. QED
      BY <1>0, <1>1, <2>1, <3>2, <3>5, HeldByWatch
  <2>. QED
    BY <2>2, <2>3
<1>11. ASSUME NEW p \in PodIds, Write([api EXCEPT !.pods = DeletePod(api.pods, p)]),
              pc' = pc, entry' = entry
       PROVE  OrderInv'
  BY <1>0, <1>2, <1>11, DeleteChange DEF Write
<1>12. CASE CleanupPod \/ DeleteOutdated
  BY <1>0, <1>11, <1>12 DEF CleanupPod, DeleteOutdated, Continue
<1>13. CASE ScaleDown
  <2>1. PICK newest \in current : Write([api EXCEPT !.pods = DeletePod(api.pods, newest[1])])
    BY <1>13 DEF ScaleDown
  <2>2. newest[1] \in PodIds
    BY <1>0
  <2>. QED
    BY <1>11, <1>13, <2>1, <2>2 DEF ScaleDown, Continue
<1>14. CASE CleanupService \/ CleanupConfigMap
  <2>1. /\ api'.cr = api.cr /\ api'.pods = api.pods /\ lastUid' = lastUid
        /\ api'.cm \in {api.cm, None} /\ api'.svc \in {api.svc, None}
    BY <1>0, <1>14 DEF CleanupService, CleanupConfigMap, Write, Objects
  <2>2. ClusterChange
    BY <2>1 DEF ClusterChange, CrChange, PodChange
  <2>. QED
    BY <1>2, <1>14, <2>2 DEF CleanupService, CleanupConfigMap, Write, Continue
<1>15. CASE RemoveFinalizer
  <2>1. /\ Watch /\ cache' = cache /\ entry' = None /\ pc' = "idle" /\ lastUid' = lastUid
    BY <1>15 DEF RemoveFinalizer, Write, Return
  <2>2. CASE api.cr # entry
    BY <1>2, <1>15, <2>1, <2>2, UnchangedChange DEF RemoveFinalizer, Write
  <2>3. CASE api.cr = entry
    <3>1. api'.cr = None /\ api'.pods = api.pods /\ api'.cm = api.cm
      BY <1>0, <1>15, <2>3 DEF RemoveFinalizer, Write, Objects
    <3>2. HeldStep
      BY <1>0, <2>1, <3>1, HeldByWatch DEF HeldStep
    <3>. QED
      BY <1>0, <2>1, <3>1, <3>2, OrderKept DEF PodChange
  <2>. QED
    BY <2>2, <2>3
<1>16. CASE EnsureConfigMap
  <2>1. /\ Watch /\ cache' = cache /\ lastUid' = lastUid /\ entry \in Entry
        /\ pc = "ensureConfigMap"
    BY <1>0, <1>16 DEF EnsureConfigMap, CreateOrUpdate, Write, TypeOK
  <2>2. \/ api' = api /\ Return(TRUE)
        \/ api' = api /\ Continue("ensureService") /\ cache.cm = DesiredConfigMap(entry)
        \/ api' = [api EXCEPT !.cm = DesiredConfigMap(entry)] /\ Continue("ensureService")
    BY <1>16 DEF EnsureConfigMap, CreateOrUpdate, Write
  <2>3. entry' \in {entry, None}
    BY <2>2 DEF Return, Continue
  <2>4. CASE api' = api /\ Return(TRUE)
    BY <1>2, <2>1, <2>4, UnchangedChange DEF Return
  <2>5. CASE api' = api /\ Continue("ensureService") /\ cache.cm = DesiredConfigMap(entry)
    <3>1. api.cm \in {None, DesiredConfigMap(entry')}
      BY <2>1, <2>5, CachedMapSuffices DEF Continue
    <3>2. /\ Versions' \subseteq Versions \cup {None, api'.cr}
          /\ Maps' \subseteq Maps \cup {None, api'.cm}
      BY <1>0, <2>1, <2>3, HeldByWatch
    <3>3. CrStep /\ \A p \in PodIds : PodChange(p)
      BY <2>1, <2>5 DEF CrStep, PodChange
    <3>. QED
      BY <1>1, <2>5, <3>1, <3>2, <3>3
  <2>6. CASE api' = [api EXCEPT !.cm = DesiredConfigMap(entry)] /\ Continue("ensureService")
    <3>1. api'.cr = api.cr /\ api'.pods = api.pods /\ api'.cm = DesiredConfigMap(entry)
      BY <1>0, <2>6 DEF Objects
    <3>2. HeldStep
      BY <1>0, <2>1, <2>3, <3>1, HeldByWatch DEF HeldStep
    <3>. QED
      BY <2>1, <2>6, <3>1, <3>2, OrderPutMap DEF Continue
  <2>. QED
    BY <2>2, <2>4, <2>5, <2>6
<1>17. CASE EnsureService
  <2>1. /\ Watch /\ cache' = cache /\ lastUid' = lastUid /\ pc = "ensureService"
    BY <1>17 DEF EnsureService, CreateOrUpdate, Write
  <2>2. /\ entry' \in {entry, None} /\ (pc' = "idle" \/ entry' = entry)
        /\ api' = api \/ api' = [api EXCEPT !.svc = DesiredService(entry)]
    BY <1>17 DEF EnsureService, CreateOrUpdate, Write, Return, Continue
  <2>3. api'.cr = api.cr /\ api'.pods = api.pods /\ api'.cm = api.cm
    BY <1>0, <2>2 DEF Objects
  <2>4. CrStep /\ \A p \in PodIds : PodChange(p)
    BY <2>1, <2>3 DEF CrStep, PodChange
  <2>. QED
    BY <1>0, <1>1, <2>1, <2>2, <2>3, <2>4, HeldByWatch
<1>18. CASE ScaleUp
  <2>1. CASE ~ \E p \in PodIds : Fresh(p)
    BY <1>2, <1>18, <2>1, UnchangedChange DEF ScaleUp, Write, Return
  <2>2. CASE \E p \in PodIds : Fresh(p)
    <3>. DEFINE p == CHOOSE p \in PodIds : Fresh(p)
    <3>1. Write([api EXCEPT !.pods[p] = DesiredPod(entry)]) /\ pc' = pc /\ entry' = entry
      BY <1>18, <2>2 DEF ScaleUp, Continue
    <3>2. p \in PodIds
      BY <2>2
    <3>. HIDE DEF p
    <3>3. /\ api'.cr = api.cr /\ api'.cm = api.cm
          /\ \A q \in PodIds : api'.pods[q] = IF q = p THEN DesiredPod(entry) ELSE api.pods[q]
          /\ Watch /\ cache' = cache /\ lastUid' = lastUid
      BY <1>0, <3>1 DEF Write, Objects
    <3>4. HeldStep
      BY <1>0, <3>1, <3>3, HeldByWatch DEF HeldStep
    <3>5. pc = "reconcilePods" /\ entry \in Entry
      BY <1>0, <1>18 DEF ScaleUp, TypeOK
    <3>. QED
      BY <3>1, <3>2, <3>3, <3>4, <3>5, OrderCreate
  <2>. QED
    BY <2>1, <2>2
<1>19. CASE ReconcileDone
  BY <1>2, <1>19, UnchangedChange DEF ReconcileDone, Write, Return
<1>. QED
  BY <1>5, <1>6, <1>7, <1>8, <1>9, <1>10, <1>12, <1>13, <1>14, <1>15, <1>16, <1>17, <1>18, <1>19
  DEF Next, Pass

\* When edits never return to an earlier configuration, a running Pod with the
\* hash of the stored spec runs with the environment rendered from it, however
\* stale the cache from which ensureConfigMap decided not to write.
THEOREM EnvAlwaysMatchesHash == Onward => (SafetySpec => []EnvMatchesHash)
<1>. SUFFICES ASSUME Onward PROVE SafetySpec => []EnvMatchesHash
  OBVIOUS
<1>1. Init => OrderInv
  <2>. SUFFICES ASSUME Init PROVE OrderInv
    OBVIOUS
  <2>1. /\ api.cm = None /\ cache.cm = None /\ pc = "idle" /\ \A p \in PodIds : ~ Exists(p)
        /\ Len(events.cm) = 0
    BY DEF Init, ClusterInit, Exists, Kinds
  <2>. QED
    BY <2>1, Counting DEF OrderInv, Maps, MapOrder, LateSteps, EnsureSteps
<1>2. IInv /\ IInv' /\ OrderInv /\ [Next]_vars => OrderInv'
  BY OrderStep
<1>3. IInv /\ OrderInv => EnvMatchesHash
  <2>. SUFFICES ASSUME IInv, OrderInv, NEW p \in PodIds, api.cr # None, Exists(p),
                       api.pods[p].phase = "Running",
                       api.pods[p].hash = CalculateSpecHash(api.cr)
                PROVE  api.pods[p].env = DesiredConfigData(api.cr)
    BY DEF EnvMatchesHash
  <2>. DEFINE q == api.pods[p]
              d == DesiredConfigData(api.cr)
  <2>1. api.cr \in Entry
    BY HeldTypes DEF IInv, Versions
  <2>2. d \in Data /\ q.hash[1] = d /\ d[1] = api.cr.uid
    <3>1. \A v \in Entry : CalculateSpecHash(v)[1] = DesiredConfigData(v)
      BY DEF CalculateSpecHash
    <3>. QED
      BY <2>1, <3>1, DataTypes
  <2>3. q.owner = api.cr.uid
    BY <2>2 DEF IInv, HashNamesOwner
  <2>4. q.env \in Data /\ q.env[1] = d[1] /\ Before(d, q.env) /\ Before(q.env, d)
    BY <2>2, <2>3 DEF OrderInv, PodOrder, Orphan, BeforeEntry
  <2>. QED
    BY <2>2, <2>4, BeforeOrder
<1>. QED
  BY Invariance, <1>1, <1>2, <1>3, PTL DEF SafetySpec
=============================================================================
