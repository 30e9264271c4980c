------------------------ MODULE PollingRolloutProofs ------------------------
(***************************************************************************)
(* Proofs about PollingRollout before its rollout: one instance of the     *)
(* first controller, for every set of Pods and specs and any number of     *)
(* faults and incarnations of the CR.                                      *)
(*                                                                         *)
(* The argument: only the instance takes a finalizer away, and only at the *)
(* end of a cleanup; so the CR it listed is there under its finalizer in   *)
(* every later call of the pass, whatever users have done to it meanwhile. *)
(* From this follows that it implements ManagedEntry, step by step.        *)
(* For the environment of the Pods, edits must never return to an earlier  *)
(* configuration: then spec, ConfigMap and hash labels can be ordered.     *)
(* For their number: what the List found and is not on its way out is      *)
(* counted or deleted before a Pod is created.                             *)
(***************************************************************************)
EXTENDS PollingRollout, EntryClusterProofs

\* The prover of the steps that name no other.
USE ZenonT(40)

EnsureSteps == {"getConfigMap", "putConfigMap", "getService", "putService",
                "listPods", "reconcilePods"}
CleanupSteps == {"listCleanup", "cleanupPods", "cleanupConfigMap", "removeFinalizer"}

\* The objects stored: the CR is the newest incarnation, a mark needs the finalizer,
\* the children belong to the CR, a Pod's hash names its owner.
StoreInv ==
  /\ api.cr # None => api.cr.uid = lastUid /\ (api.cr.deleting => api.cr.finalizer)
  /\ ChildrenOwned
  /\ \A p \in PodIds : Exists(p) => /\ api.pods[p].owner <= lastUid
                                    /\ api.pods[p].hash[1][1] = api.pods[p].owner

\* The CR of the pass is there under its finalizer; a cleanup has read its mark.
HeldInv ==
  /\ pc \in EnsureSteps \cup CleanupSteps =>
       api.cr # None /\ api.cr.uid = entry.uid /\ api.cr.finalizer
  /\ pc \in CleanupSteps => entry.deleting

\* What cleanupOwnedResources has already done.
CleanedInv ==
  /\ pc \in {"cleanupConfigMap", "removeFinalizer"} => api.svc = None
  /\ pc = "removeFinalizer" => api.cm = None
  /\ pc \in {"cleanupPods", "cleanupConfigMap", "removeFinalizer"} =>
       \A p \in PodIds :
         (Exists(p) /\ api.pods[p].owner = entry.uid) =>
           api.pods[p].deleting \/ (pc = "cleanupPods" /\ p \in doomed)

\* The inductive invariant of one instance.
AloneInv == TypeOK /\ StoreInv /\ HeldInv /\ CleanedInv

\* The token secret and the configuration in what is derived from a CR.
LEMMA DesiredParts ==
  ASSUME NEW e
  PROVE  /\ DesiredConfigData(e) = <<e.uid, e.spec.config>>
         /\ DesiredSpecHash(e)[1][1] = e.uid
         /\ DesiredSpecHash(e)[1][2] = e.spec.config
BY DEF DesiredSpecHash, DesiredConfigData, StableTokenSecret

-----------------------------------------------------------------------------
(* Types.                                                                  *)

\* What is derived from a CR is well typed.
LEMMA DesiredTypes ==
  ASSUME NEW e \in Entry, clock \in 0 .. MaxClock
  PROVE  /\ DesiredConfigMap(e) \in ConfigMap
         /\ DesiredService(e) \in Service
         /\ DesiredPod(e) \in Pod
<1>1. e.uid \in Uids /\ e.spec.config \in Configs /\ e.spec.image \in Images
  BY SpecsAssumption DEF Entry
<1>2. DesiredConfigData(e) \in Data /\ DesiredSpecHash(e) \in Hashes
  BY <1>1 DEF DesiredConfigData, StableTokenSecret, DesiredSpecHash, Data, Hashes
<1>. QED
  BY <1>1, <1>2 DEF DesiredConfigMap, DesiredService, DesiredPod, ConfigMap, Service, Pod

\* A call that stores well-typed objects.
LEMMA WriteType ==
  ASSUME TypeOK, NEW o \in Objects, Write(o)
  PROVE  ClusterTypeOK'
BY DEF Write, TypeOK, ClusterTypeOK

LEMMA ReturnType ==
  ASSUME ClusterTypeOK', Return
  PROVE  TypeOK'
BY DEF Return, TypeOK, Steps

\* With the pass at a step other than the List.
LEMMA GoOnType ==
  ASSUME ClusterTypeOK', pc' \in Steps \ {"polling"}, entry' \in Entry,
         existing' \in ConfigMap \cup Service \cup {None}, doomed' \subseteq PodIds,
         current' \subseteq PodIds \X (0 .. MaxClock)
  PROVE  TypeOK'
BY DEF TypeOK

LEMMA PassType ==
  ASSUME TypeOK, List \/ ReconcileCR \/ CallFails
  PROVE  TypeOK'
<1>1. /\ api \in Objects /\ api.cr \in Entry \cup {None}
      /\ api.cm \in ConfigMap \cup {None} /\ api.svc \in Service \cup {None}
      /\ api.pods \in [PodIds -> Pod \cup {None}]
      /\ ClusterTypeOK /\ clock \in 0 .. MaxClock
  BY ObjectsComponents DEF TypeOK, ClusterTypeOK
<1>2. /\ existing \in ConfigMap \cup Service \cup {None} /\ doomed \subseteq PodIds
      /\ current \subseteq PodIds \X (0 .. MaxClock)
      /\ pc # "polling" => entry \in Entry
  BY DEF TypeOK
<1>3. ASSUME UNCHANGED clusterVars PROVE ClusterTypeOK'
  BY <1>1, <1>3 DEF clusterVars, ClusterTypeOK
<1>4. ASSUME NEW e \in Entry, Parsed(e), ClusterTypeOK' PROVE TypeOK'
  BY <1>2, <1>4, ReturnType, GoOnType DEF Parsed, Steps
<1>5. CASE List
  BY <1>1, <1>2, <1>3, <1>4, <1>5, GoOnType DEF List, Steps
<1>6. ASSUME Write(api) PROVE ClusterTypeOK'
  BY <1>1, <1>6, WriteType
<1>7. CASE AddFinalizer
  <2>1. ASSUME api.cr = entry PROVE TypeOK'
    <3>. DEFINE updated == [entry EXCEPT !.finalizer = TRUE, !.rv = entry.rv + 1]
    <3>1. entry \in Entry
      BY <1>2, <1>7 DEF AddFinalizer
    <3>2. updated \in Entry
      <4>1. entry.rv + 1 \in Nat
        BY <3>1, SMTT(20) DEF Entry
      <4>. QED
        BY <3>1, <4>1, EntryUpdates
    <3>3. Write([api EXCEPT !.cr = updated]) /\ Parsed(updated)
      BY <1>7, <2>1 DEF AddFinalizer
    <3>4. [api EXCEPT !.cr = updated] \in Objects
      BY <1>1, <3>2, StoreTypes
    <3>. QED
      BY <1>4, <3>2, <3>3, <3>4, WriteType
  <2>. QED
    BY <1>6, <1>7, <2>1, ReturnType DEF AddFinalizer
<1>8. ASSUME NEW p \in PodIds, Write([api EXCEPT !.pods = DeletePod(api.pods, p)])
      PROVE  ClusterTypeOK'
  <2>1. DeletePod(api.pods, p) \in [PodIds -> Pod \cup {None}]
    BY <1>1, DeletePodType
  <2>2. [api EXCEPT !.pods = DeletePod(api.pods, p)] \in Objects
    BY <1>1, <2>1, StoreTypes
  <2>. QED
    BY <1>8, <2>2, WriteType
<1>9. CASE ListCleanup \/ ListPods
  <2>1. doomed' \subseteq PodIds
    BY <1>2, <1>9 DEF ListCleanup, ListPods
  <2>2. current' \subseteq PodIds \X (0 .. MaxClock)
    <3>1. \A p \in PodIds : api.pods[p] # None => api.pods[p].created \in 0 .. MaxClock
      BY <1>1 DEF Pod
    <3>. QED
      BY <1>2, <1>9, <3>1, SMTT(20) DEF ListCleanup, ListPods, Exists
  <2>. QED
    BY <1>2, <1>3, <1>9, <2>1, <2>2, GoOnType DEF ListCleanup, ListPods, Steps
<1>10. CASE CleanupPod \/ DeleteOutdated
  <2>1. PICK p \in doomed : /\ doomed' = doomed \ {p}
                            /\ Write([api EXCEPT !.pods = DeletePod(api.pods, p)])
    BY <1>10 DEF CleanupPod, DeleteOutdated
  <2>. QED
    BY <1>2, <1>8, <1>10, <2>1, GoOnType DEF CleanupPod, DeleteOutdated, Steps
<1>11. CASE CleanupService \/ CleanupConfigMap
  <2>1. [api EXCEPT !.svc = None] \in Objects /\ [api EXCEPT !.cm = None] \in Objects
    BY <1>1, StoreTypes
  <2>. QED
    BY <1>2, <1>11, <2>1, WriteType, GoOnType DEF CleanupService, CleanupConfigMap, Continue, Steps
<1>12. CASE RemoveFinalizer
  <2>1. [api EXCEPT !.cr = None] \in Objects
    BY <1>1, StoreTypes
  <2>. QED
    BY <1>1, <1>12, <2>1, WriteType, ReturnType DEF RemoveFinalizer
<1>13. CASE GetConfigMap \/ GetService
  BY <1>1, <1>2, <1>3, <1>13, GoOnType DEF GetConfigMap, GetService, Get, Steps
<1>14. CASE PutConfigMap \/ PutService
  <2>1. entry \in Entry
    BY <1>2, <1>14 DEF PutConfigMap, PutService
  <2>2. /\ [api EXCEPT !.cm = DesiredConfigMap(entry)] \in Objects
        /\ [api EXCEPT !.svc = DesiredService(entry)] \in Objects
    BY <1>1, <2>1, StoreTypes, DesiredTypes
  <2>. QED
    BY <1>2, <1>6, <1>14, <2>1, <2>2, WriteType, ReturnType, GoOnType
    DEF PutConfigMap, PutService, Put, Continue, Steps
<1>15. CASE ScaleDown
  <2>1. PICK newest \in current : /\ current' = current \ {newest}
                                  /\ Write([api EXCEPT !.pods = DeletePod(api.pods, newest[1])])
    BY <1>15 DEF ScaleDown
  <2>2. newest[1] \in PodIds
    BY <1>2
  <2>. QED
    BY <1>2, <1>8, <1>15, <2>1, <2>2, GoOnType DEF ScaleDown, Steps
<1>16. CASE ScaleUp
  <2>1. entry \in Entry
    BY <1>2, <1>16 DEF ScaleUp
  <2>2. ASSUME NEW p \in PodIds, current' = current \cup {<<p, clock>>},
               Write([api EXCEPT !.pods[p] = DesiredPod(entry)]), UNCHANGED <<pc, entry, existing, doomed>>
        PROVE  TypeOK'
    <3>1. [api EXCEPT !.pods = [api.pods EXCEPT ![p] = DesiredPod(entry)]] \in Objects
      BY <1>1, <2>1, DesiredTypes, StorePodType
    <3>2. ClusterTypeOK'
      BY <2>2, <3>1, WriteType
    <3>. QED
      BY <1>1, <1>2, <1>16, <2>2, <3>2, GoOnType, SMTT(20) DEF ScaleUp, Steps
  <2>. QED
    BY <1>6, <1>16, <2>2, ReturnType DEF ScaleUp
<1>17. CASE ReconcileDone
  BY <1>6, <1>17, ReturnType DEF ReconcileDone
<1>18. CASE CallFails
  <2>1. ClusterTypeOK'
    BY <1>18, <1>1, BoundsAssumption, SMTT(20) DEF CallFails, Fault, ClusterTypeOK
  <2>. QED
    BY <1>18, <2>1, ReturnType DEF CallFails
<1>. QED
  BY <1>5, <1>7, <1>9, <1>10, <1>11, <1>12, <1>13, <1>14, <1>15, <1>16, <1>17, <1>18 DEF ReconcileCR

-----------------------------------------------------------------------------
(* Types of the new instance, which runs the same program on the cluster.  *)

\* Its own copies of what does not depend on the instance.
LEMMA NewSets ==
  /\ New!Steps = Steps /\ New!Entry = Entry /\ New!ConfigMap = ConfigMap
  /\ New!Service = Service /\ New!Pod = Pod /\ New!Objects = Objects
<1>1. New!Uids = Uids /\ New!Data = Data /\ New!Hashes = Hashes
  BY DEF New!Uids, Uids, New!Data, Data, New!Hashes, Hashes
<1>2. New!Steps = Steps
  BY DEF New!Steps, Steps
<1>3. New!Entry = Entry
  BY <1>1 DEF New!Entry, Entry
<1>4. New!ConfigMap = ConfigMap
  BY <1>1 DEF New!ConfigMap, ConfigMap
<1>5. New!Service = Service
  BY <1>1 DEF New!Service, Service
<1>6. New!Pod = Pod
  BY <1>1 DEF New!Pod, Pod
<1>7. New!Objects = Objects
  BY <1>3, <1>4, <1>5, <1>6 DEF New!Objects, Objects
<1>. QED
  BY <1>2, <1>3, <1>4, <1>5, <1>6, <1>7

LEMMA NewDesired ==
  ASSUME NEW e
  PROVE  /\ New!DesiredConfigMap(e) = DesiredConfigMap(e)
         /\ New!DesiredService(e) = DesiredService(e)
         /\ New!DesiredPod(e) = DesiredPod(e)
BY DEF New!DesiredConfigMap, DesiredConfigMap, New!DesiredService, DesiredService,
       New!DesiredPod, DesiredPod, New!DesiredSpecHash, DesiredSpecHash,
       New!DesiredConfigData, DesiredConfigData, New!StableTokenSecret, StableTokenSecret

LEMMA NewCalls ==
  /\ \A o : New!Write(o) <=> Write(o)
  /\ \A ps, p : New!DeletePod(ps, p) = DeletePod(ps, p)
  /\ \A p : New!Exists(p) <=> Exists(p)
  /\ UNCHANGED New!clusterVars <=> UNCHANGED clusterVars
BY DEF New!Write, Write, New!DeletePod, DeletePod, New!Exists, Exists, New!clusterVars, clusterVars

\* Its type invariant.
NewPassOK ==
  /\ pcN \in Steps
  /\ entryN \in (IF pcN = "polling" THEN {None} ELSE Entry)
  /\ existingN \in ConfigMap \cup Service \cup {None}
  /\ doomedN \subseteq PodIds
  /\ currentN \subseteq PodIds \X (0 .. MaxClock)

LEMMA NewTypes ==
  /\ New!TypeOK <=> ClusterTypeOK /\ NewPassOK
  /\ New!TypeOK' <=> ClusterTypeOK' /\ NewPassOK'
BY NewSets DEF New!TypeOK, New!ClusterTypeOK, ClusterTypeOK, NewPassOK

LEMMA NewWriteType ==
  ASSUME ClusterTypeOK, NEW o \in Objects, Write(o)
  PROVE  ClusterTypeOK'
BY DEF Write, ClusterTypeOK

LEMMA NewReturnType ==
  ASSUME New!Return
  PROVE  NewPassOK'
BY DEF New!Return, NewPassOK, Steps

LEMMA NewGoOnType ==
  ASSUME pcN' \in Steps \ {"polling"}, entryN' \in Entry,
         existingN' \in ConfigMap \cup Service \cup {None}, doomedN' \subseteq PodIds,
         currentN' \subseteq PodIds \X (0 .. MaxClock)
  PROVE  NewPassOK'
BY DEF NewPassOK

LEMMA NewPassType ==
  ASSUME ClusterTypeOK, NewPassOK, New!List \/ New!ReconcileCR
  PROVE  ClusterTypeOK' /\ NewPassOK'
<1>1. /\ api \in Objects /\ api.cr \in Entry \cup {None}
      /\ api.cm \in ConfigMap \cup {None} /\ api.svc \in Service \cup {None}
      /\ api.pods \in [PodIds -> Pod \cup {None}]
      /\ ClusterTypeOK /\ clock \in 0 .. MaxClock
  BY ObjectsComponents DEF ClusterTypeOK
<1>2. /\ existingN \in ConfigMap \cup Service \cup {None} /\ doomedN \subseteq PodIds
      /\ currentN \subseteq PodIds \X (0 .. MaxClock)
      /\ pcN # "polling" => entryN \in Entry
  BY DEF NewPassOK
<1>3. ASSUME UNCHANGED clusterVars PROVE ClusterTypeOK'
  BY <1>1, <1>3 DEF clusterVars, ClusterTypeOK
<1>4. ASSUME NEW e \in Entry, New!Parsed(e) PROVE NewPassOK'
  BY <1>2, <1>4, NewReturnType, NewGoOnType DEF New!Parsed, Steps
<1>5. CASE New!List
  BY <1>1, <1>2, <1>3, <1>4, <1>5, NewGoOnType, NewCalls DEF New!List, Steps
<1>6. ASSUME Write(api) PROVE ClusterTypeOK'
  BY <1>1, <1>6, NewWriteType
<1>7. CASE New!AddFinalizer
  <2>1. ASSUME api.cr = entryN PROVE ClusterTypeOK' /\ NewPassOK'
    <3>. DEFINE updated == [entryN EXCEPT !.finalizer = TRUE, !.rv = entryN.rv + 1]
    <3>1. entryN \in Entry
      BY <1>2, <1>7, NewCalls DEF New!AddFinalizer
    <3>2. updated \in Entry
      <4>1. entryN.rv + 1 \in Nat
        BY <3>1, SMTT(20) DEF Entry
      <4>. QED
        BY <3>1, <4>1, EntryUpdates
    <3>3. Write([api EXCEPT !.cr = updated]) /\ New!Parsed(updated)
      BY <1>7, <2>1, NewCalls DEF New!AddFinalizer
    <3>4. [api EXCEPT !.cr = updated] \in Objects
      BY <1>1, <3>2, StoreTypes
    <3>. QED
      BY <1>4, <3>2, <3>3, <3>4, NewWriteType
  <2>. QED
    BY <1>6, <1>7, <2>1, NewReturnType, NewCalls DEF New!AddFinalizer
<1>8. ASSUME NEW p \in PodIds, Write([api EXCEPT !.pods = DeletePod(api.pods, p)])
      PROVE  ClusterTypeOK'
  <2>1. DeletePod(api.pods, p) \in [PodIds -> Pod \cup {None}]
    BY <1>1, DeletePodType
  <2>2. [api EXCEPT !.pods = DeletePod(api.pods, p)] \in Objects
    BY <1>1, <2>1, StoreTypes
  <2>. QED
    BY <1>8, <2>2, NewWriteType
<1>9. CASE New!ListCleanup \/ New!ListPods
  <2>1. doomedN' \subseteq PodIds
    BY <1>2, <1>9, NewCalls DEF New!ListCleanup, New!ListPods
  <2>2. currentN' \subseteq PodIds \X (0 .. MaxClock)
    <3>1. \A p \in PodIds : api.pods[p] # None => api.pods[p].created \in 0 .. MaxClock
      BY <1>1 DEF Pod
    <3>. QED
      BY <1>2, <1>9, <3>1, NewCalls, SMTT(20) DEF New!ListCleanup, New!ListPods, Exists
  <2>. QED
    BY <1>2, <1>3, <1>9, <2>1, <2>2, NewGoOnType, NewCalls DEF New!ListCleanup, New!ListPods, Steps
<1>10. CASE New!CleanupPod \/ New!DeleteOutdated
  <2>1. PICK p \in doomedN : /\ doomedN' = doomedN \ {p}
                            /\ Write([api EXCEPT !.pods = DeletePod(api.pods, p)])
    BY <1>10, NewCalls DEF New!CleanupPod, New!DeleteOutdated
  <2>. QED
    BY <1>2, <1>8, <1>10, <2>1, NewGoOnType, NewCalls DEF New!CleanupPod, New!DeleteOutdated, Steps
<1>11. CASE New!CleanupService \/ New!CleanupConfigMap
  <2>1. [api EXCEPT !.svc = None] \in Objects /\ [api EXCEPT !.cm = None] \in Objects
    BY <1>1, StoreTypes
  <2>. QED
    BY <1>2, <1>11, <2>1, NewWriteType, NewGoOnType, NewCalls DEF New!CleanupService, New!CleanupConfigMap, New!Continue, Steps
<1>12. CASE New!RemoveFinalizer
  <2>1. [api EXCEPT !.cr = None] \in Objects
    BY <1>1, StoreTypes
  <2>. QED
    BY <1>1, <1>12, <2>1, NewWriteType, NewReturnType, NewCalls DEF New!RemoveFinalizer
<1>13. CASE New!GetConfigMap \/ New!GetService
  BY <1>1, <1>2, <1>3, <1>13, NewGoOnType, NewCalls DEF New!GetConfigMap, New!GetService, New!Get, Steps
<1>14. CASE New!PutConfigMap \/ New!PutService
  <2>1. entryN \in Entry
    BY <1>2, <1>14, NewCalls DEF New!PutConfigMap, New!PutService
  <2>2. /\ [api EXCEPT !.cm = DesiredConfigMap(entryN)] \in Objects
        /\ [api EXCEPT !.svc = DesiredService(entryN)] \in Objects
    BY <1>1, <2>1, StoreTypes, DesiredTypes
  <2>. QED
    BY <1>2, <1>6, <1>14, <2>1, <2>2, NewWriteType, NewReturnType, NewGoOnType, NewCalls, NewDesired
    DEF New!PutConfigMap, New!PutService, New!Put, New!Continue, Steps
<1>15. CASE New!ScaleDown
  <2>1. PICK newest \in currentN : /\ currentN' = currentN \ {newest}
                                  /\ Write([api EXCEPT !.pods = DeletePod(api.pods, newest[1])])
    BY <1>15, NewCalls DEF New!ScaleDown
  <2>2. newest[1] \in PodIds
    BY <1>2
  <2>. QED
    BY <1>2, <1>8, <1>15, <2>1, <2>2, NewGoOnType, NewCalls DEF New!ScaleDown, Steps
<1>16. CASE New!ScaleUp
  <2>1. entryN \in Entry
    BY <1>2, <1>16, NewCalls DEF New!ScaleUp
  <2>2. ASSUME NEW p \in PodIds, currentN' = currentN \cup {<<p, clock>>},
               Write([api EXCEPT !.pods[p] = DesiredPod(entryN)]), UNCHANGED <<pcN, entryN, existingN, doomedN>>
        PROVE  ClusterTypeOK' /\ NewPassOK'
    <3>1. [api EXCEPT !.pods = [api.pods EXCEPT ![p] = DesiredPod(entryN)]] \in Objects
      BY <1>1, <2>1, DesiredTypes, StorePodType
    <3>2. ClusterTypeOK'
      BY <2>2, <3>1, NewWriteType
    <3>. QED
      BY <1>1, <1>2, <1>16, <2>2, <3>2, NewGoOnType, NewCalls, SMTT(20) DEF New!ScaleUp, Steps
  <2>. QED
    BY <1>6, <1>16, <2>2, NewReturnType, NewCalls, NewDesired DEF New!ScaleUp
<1>17. CASE New!ReconcileDone
  BY <1>6, <1>17, NewReturnType, NewCalls DEF New!ReconcileDone
<1>. QED
  BY <1>5, <1>7, <1>9, <1>10, <1>11, <1>12, <1>13, <1>14, <1>15, <1>16, <1>17 DEF New!ReconcileCR

\* A pass's variables, whatever the cluster does.
PassOK ==
  /\ pc \in Steps
  /\ entry \in (IF pc = "polling" THEN {None} ELSE Entry)
  /\ existing \in ConfigMap \cup Service \cup {None}
  /\ doomed \subseteq PodIds
  /\ current \subseteq PodIds \X (0 .. MaxClock)

LEMMA OldTypes ==
  /\ TypeOK <=> ClusterTypeOK /\ PassOK
  /\ TypeOK' <=> ClusterTypeOK' /\ PassOK'
BY DEF TypeOK, PassOK

LEMMA CollectChildType ==
  ASSUME ClusterTypeOK, NEW k \in {"cm", "svc"}, CollectChild(k)
  PROVE  ClusterTypeOK'
<1>1. api \in Objects
  BY DEF ClusterTypeOK
<1>2. api' = [api EXCEPT !.cm = None] \/ api' = [api EXCEPT !.svc = None]
  BY DEF CollectChild
<1>3. api' \in Objects
  BY <1>1, <1>2, StoreTypes
<1>. QED
  BY <1>3 DEF CollectChild, ClusterTypeOK

\* Before, during and after the rollout: whatever one instance leaves behind for
\* the other to read, and wherever the old one is stopped, neither comes upon
\* something it has no case for.
THEOREM RolloutTypeCorrect == RolloutSpec => []RolloutTypeOK
<1>. DEFINE Inv == /\ ClusterTypeOK /\ PassOK /\ NewPassOK
                   /\ rollout \in {"never", "now", "done"}
                   /\ overlap \in 0 .. MaxOverlap
<1>0. Inv <=> RolloutTypeOK
  BY OldTypes, NewTypes DEF RolloutTypeOK
<1>1. RolloutInit => Inv
  <2>. SUFFICES ASSUME RolloutInit PROVE Inv
    OBVIOUS
  <2>1. ClusterTypeOK
    BY BoundsAssumption, SMTT(20) DEF RolloutInit, Init, ClusterInit, ClusterTypeOK, Objects
  <2>2. PassOK
    BY DEF RolloutInit, Init, PassOK, Steps
  <2>3. NewPassOK
    BY DEF RolloutInit, New!Init, NewPassOK, Steps
  <2>. QED
    BY <2>1, <2>2, <2>3, OverlapAssumption, SMTT(20) DEF RolloutInit
<1>2. Inv /\ [RolloutNext]_rolloutVars => Inv'
  <2>. SUFFICES ASSUME Inv, [RolloutNext]_rolloutVars PROVE Inv'
    OBVIOUS
  <2>1. ASSUME UNCHANGED passVars PROVE PassOK'
    BY <2>1 DEF PassOK, passVars
  <2>2. ASSUME UNCHANGED newVars PROVE NewPassOK'
    BY <2>2 DEF NewPassOK, newVars
  <2>3. CASE UNCHANGED rolloutVars
    <3>1. UNCHANGED <<passVars, newVars, clusterVars, rollout, overlap>>
      BY <2>3 DEF rolloutVars, vars
    <3>2. ClusterTypeOK'
      BY <3>1 DEF ClusterTypeOK, clusterVars
    <3>. QED
      BY <2>1, <2>2, <3>1, <3>2
  <2>4. CASE ClusterStep(ClusterNext)
    BY <2>1, <2>2, <2>4, ClusterType DEF ClusterStep, Cluster
  <2>5. CASE \E k \in {"cm", "svc"} : ClusterStep(CollectChild(k))
    BY <2>1, <2>2, <2>5, CollectChildType DEF ClusterStep, Cluster
  <2>6. CASE OldPolls \/ Old(ReconcileCR) \/ Old(CallFails)
    <3>1. List \/ ReconcileCR \/ CallFails
      BY <2>6 DEF OldPolls, Old
    <3>2. UNCHANGED <<rollout, newVars>>
      BY <2>6 DEF OldPolls, Old
    <3>3. overlap' \in 0 .. MaxOverlap
      BY <2>6, OverlapAssumption, SMTT(20) DEF OldPolls, Old
    <3>4. ClusterTypeOK' /\ PassOK'
      BY <3>1, PassType, OldTypes
    <3>. QED
      BY <2>2, <3>2, <3>3, <3>4
  <2>7. CASE NewStep
    BY <2>1, <2>7, NewPassType DEF NewStep
  <2>8. CASE NewStarts
    <3>1. ClusterTypeOK'
      BY <2>8, BoundsAssumption, SMTT(20) DEF NewStarts, ClusterTypeOK
    <3>. QED
      BY <2>1, <2>2, <2>8, <3>1 DEF NewStarts
  <2>9. CASE OldStops
    <3>1. ClusterTypeOK'
      BY <2>9 DEF OldStops, ClusterTypeOK, clusterVars
    <3>2. PassOK'
      BY <2>9 DEF OldStops, PassOK, NewPassOK
    <3>3. NewPassOK' /\ rollout' = "done" /\ overlap' = 0
      BY <2>9, NewReturnType DEF OldStops
    <3>. QED
      BY <3>1, <3>2, <3>3, OverlapAssumption, SMTT(20)
  <2>. QED
    BY <2>3, <2>4, <2>5, <2>6, <2>7, <2>8, <2>9 DEF RolloutNext
<1>. QED
  BY <1>0, <1>1, <1>2, PTL DEF RolloutSpec

-----------------------------------------------------------------------------
(* The objects.                                                            *)

LEMMA Numbers ==
  ASSUME TypeOK
  PROVE  /\ lastUid \in Nat
         /\ api.cr # None => api.cr \in Entry /\ api.cr.uid \in Nat
         /\ \A p \in PodIds : Exists(p) => api.pods[p] \in Pod /\ api.pods[p].owner \in Nat
<1>1. /\ lastUid \in 0 .. MaxUid /\ Uids \subseteq Nat
      /\ api.cr \in Entry \cup {None} /\ api.pods \in [PodIds -> Pod \cup {None}]
  BY ObjectsComponents, BoundsAssumption, SMTT(20) DEF TypeOK, ClusterTypeOK, Uids
<1>2. \A e \in Entry : e.uid \in Nat
  BY <1>1 DEF Entry
<1>3. \A q \in Pod : q.owner \in Nat
  BY <1>1 DEF Pod
<1>4. \A p \in PodIds : Exists(p) => api.pods[p] \in Pod
  BY <1>1 DEF Exists
<1>. QED
  BY <1>1, <1>2, <1>3, <1>4, SMTT(20)

\* What the cluster may do keeps StoreInv.
LEMMA StoreKept ==
  ASSUME TypeOK, StoreInv, ClusterChange
  PROVE  StoreInv'
<1>1. /\ lastUid \in Nat /\ lastUid' \in {lastUid, lastUid + 1}
      /\ \A p \in PodIds : Exists(p) => api.pods[p].owner \in Nat
      /\ api.cr # None => api.cr.uid \in Nat
  BY Numbers DEF ClusterChange, CrChange
<1>2. \A p \in PodIds : Exists(p)' => /\ Exists(p)
                                       /\ api'.pods[p].owner = api.pods[p].owner
                                       /\ api'.pods[p].hash = api.pods[p].hash
  BY DEF ClusterChange, PodChange, Exists
<1>3. \A p \in PodIds : Exists(p)' => /\ api'.pods[p].owner <= lastUid'
                                       /\ api'.pods[p].hash[1][1] = api'.pods[p].owner
  BY <1>1, <1>2, SMTT(20) DEF StoreInv
<1>4. api'.cr # None => api'.cr.uid = lastUid' /\ (api'.cr.deleting => api'.cr.finalizer)
  BY <1>1 DEF StoreInv, ClusterChange, CrChange
<1>5. ChildrenOwned'
  <2>1. \A k \in {"cm", "svc"} :
          api'[k] # None => api'.cr # None /\ api'.cr.finalizer /\ api'[k].owner = api'.cr.uid
    BY SMTT(20) DEF StoreInv, ChildrenOwned, ClusterChange, CrChange
  <2>2. ASSUME NEW p \in PodIds, Exists(p)', api'.cr # None, api'.cr.uid = api'.pods[p].owner
        PROVE  api'.cr.finalizer
    <3>1. api.pods[p].owner <= lastUid /\ Exists(p) /\ api'.pods[p].owner = api.pods[p].owner
      BY <1>2, <2>2 DEF StoreInv
    <3>2. api.cr # None /\ api'.cr.uid = api.cr.uid /\ api'.cr.finalizer = api.cr.finalizer
      <4>1. api'.cr.uid # lastUid + 1
        BY <1>1, <2>2, <3>1, SMTT(20)
      <4>. QED
        BY <2>2, <4>1 DEF ClusterChange, CrChange
    <3>. QED
      BY <2>2, <3>1, <3>2 DEF StoreInv, ChildrenOwned, Orphan
  <2>. QED
    BY <2>1, <2>2 DEF ChildrenOwned, Orphan
<1>. QED
  BY <1>3, <1>4, <1>5 DEF StoreInv, Exists

\* The pass stays where it is, or returns.
LEMMA PassKept ==
  ASSUME AloneInv, ClusterChange, UNCHANGED passVars \/ Return
  PROVE  (HeldInv /\ CleanedInv)'
<1>1. CASE Return
  BY <1>1 DEF Return, HeldInv, CleanedInv, EnsureSteps, CleanupSteps
<1>2. CASE UNCHANGED passVars
  <2>1. HeldInv'
    BY <1>2 DEF passVars, AloneInv, HeldInv, ClusterChange, CrChange
  <2>2. CleanedInv'
    BY <1>2 DEF passVars, AloneInv, CleanedInv, ClusterChange, PodChange, Exists
  <2>. QED
    BY <2>1, <2>2
<1>. QED
  BY <1>1, <1>2

\* Steps of the cluster, and calls that change nothing and end the pass.
LEMMA ClusterKeeps ==
  ASSUME AloneInv, TypeOK', ClusterChange, UNCHANGED passVars \/ Return
  PROVE  AloneInv'
BY StoreKept, PassKept DEF AloneInv

-----------------------------------------------------------------------------
(* The calls of a pass.                                                    *)

\* List and addFinalizer.
LEMMA ListKeeps ==
  ASSUME AloneInv, TypeOK', List
  PROVE  AloneInv'
<1>1. ClusterChange
  BY UnchangedChange DEF List, clusterVars
<1>2. CASE Return
  BY <1>1, <1>2, ClusterKeeps
<1>3. CASE /\ pc' \in {"listCleanup", "getConfigMap"} /\ entry' = api.cr /\ api.cr.finalizer
           /\ pc' = "listCleanup" => api.cr.deleting
  <2>1. (HeldInv /\ CleanedInv)'
    BY <1>3 DEF List, clusterVars, HeldInv, CleanedInv, CleanupSteps
  <2>. QED
    BY <1>1, <2>1, StoreKept DEF AloneInv
<1>4. CASE pc' = "addFinalizer"
  <2>1. (HeldInv /\ CleanedInv)'
    BY <1>4 DEF HeldInv, CleanedInv, EnsureSteps, CleanupSteps
  <2>. QED
    BY <1>1, <2>1, StoreKept DEF AloneInv
<1>. QED
  BY <1>2, <1>3, <1>4 DEF List, Parsed, AloneInv, StoreInv

LEMMA AddFinalizerKeeps ==
  ASSUME AloneInv, TypeOK', AddFinalizer
  PROVE  AloneInv'
<1>1. CASE Write(api) /\ Return
  BY <1>1, UnchangedChange, ClusterKeeps DEF Write
<1>2. CASE api.cr = entry
  <2>. DEFINE updated == [entry EXCEPT !.finalizer = TRUE, !.rv = entry.rv + 1]
  <2>1. entry \in Entry /\ entry # None /\ api \in Objects
    BY NoneAssumption DEF AddFinalizer, AloneInv, TypeOK, ClusterTypeOK
  <2>2. Write([api EXCEPT !.cr = updated]) /\ Parsed(updated)
    BY <1>2 DEF AddFinalizer
  <2>3. /\ api'.cr = updated /\ api'.cm = api.cm /\ api'.svc = api.svc /\ api'.pods = api.pods
        /\ lastUid' = lastUid
    BY <2>1, <2>2 DEF Write, Objects
  <2>4. updated \in Entry
    <3>1. entry.rv + 1 \in Nat
      BY <2>1, SMTT(20) DEF Entry
    <3>. QED
      BY <2>1, <3>1, EntryUpdates
  <2>5. /\ api'.cr # None /\ api'.cr.uid = api.cr.uid /\ api'.cr.finalizer
    BY <1>2, <2>1, <2>3, <2>4, NoneAssumption DEF Entry
  <2>6. StoreInv'
    <3>1. \A p \in PodIds : Exists(p)' <=> Exists(p)
      BY <2>3 DEF Exists
    <3>2. ChildrenOwned'
      <4>1. api'.cm = api.cm /\ api'.svc = api.svc /\ api.cr # None
        BY <1>2, <2>1, <2>3
      <4>2. \A k \in {"cm", "svc"} : api'[k] # None => api'[k].owner = api'.cr.uid
        BY <2>5, <4>1 DEF AloneInv, StoreInv, ChildrenOwned
      <4>. QED
        BY <2>5, <4>2 DEF ChildrenOwned
    <3>. QED
      BY <1>2, <2>1, <2>3, <2>5, <3>1, <3>2 DEF AloneInv, StoreInv
  <2>7. (HeldInv /\ CleanedInv)'
    BY <2>2, <2>3, <2>5 DEF Parsed, Return, HeldInv, CleanedInv, EnsureSteps, CleanupSteps
  <2>. QED
    BY <2>6, <2>7 DEF AloneInv
<1>. QED
  BY <1>1, <1>2 DEF AddFinalizer

\* cleanupOwnedResources and removeFinalizer.
LEMMA CleanupKeeps ==
  ASSUME AloneInv, TypeOK',
         ListCleanup \/ CleanupPod \/ CleanupService \/ CleanupConfigMap \/ RemoveFinalizer
  PROVE  AloneInv'
<1>1. api \in Objects /\ ClusterTypeOK /\ doomed \subseteq PodIds
  BY DEF AloneInv, TypeOK, ClusterTypeOK
<1>2. CASE ListCleanup
  <2>1. ClusterChange
    BY <1>2, UnchangedChange DEF ListCleanup, clusterVars
  <2>2. (HeldInv /\ CleanedInv)'
    BY <1>2 DEF ListCleanup, clusterVars, AloneInv, HeldInv, CleanedInv, CleanupSteps, Exists
  <2>. QED
    BY <2>1, <2>2, StoreKept DEF AloneInv
<1>3. CASE CleanupPod
  <2>1. PICK p \in doomed : /\ doomed' = doomed \ {p}
                            /\ Write([api EXCEPT !.pods = DeletePod(api.pods, p)])
    BY <1>3 DEF CleanupPod
  <2>2. /\ ClusterChange
        /\ api'.cr = api.cr /\ api'.cm = api.cm /\ api'.svc = api.svc
        /\ api'.pods[p] # None => api'.pods[p].deleting
    BY <1>1, <2>1, DeleteChange DEF Write
  <2>3. HeldInv'
    BY <1>3, <2>2 DEF CleanupPod, AloneInv, HeldInv
  <2>4. CleanedInv'
    BY <1>3, <2>1, <2>2 DEF CleanupPod, AloneInv, CleanedInv, ClusterChange, PodChange, Exists
  <2>. QED
    BY <2>2, <2>3, <2>4, StoreKept DEF AloneInv
<1>4. CASE CleanupService \/ CleanupConfigMap
  <2>1. /\ api'.cr = api.cr /\ api'.pods = api.pods /\ lastUid' = lastUid
        /\ CleanupService => api'.svc = None /\ api'.cm = api.cm
        /\ CleanupConfigMap => api'.cm = None /\ api'.svc = api.svc
    BY <1>1, <1>4 DEF CleanupService, CleanupConfigMap, Write, Objects
  <2>2. ClusterChange
    BY <1>4, <2>1 DEF ClusterChange, CrChange, PodChange
  <2>3. HeldInv'
    BY <1>4, <2>1 DEF CleanupService, CleanupConfigMap, Continue, AloneInv, HeldInv, CleanupSteps
  <2>4. CleanedInv'
    BY <1>4, <2>1 DEF CleanupService, CleanupConfigMap, Continue, AloneInv, CleanedInv, Exists
  <2>. QED
    BY <2>2, <2>3, <2>4, StoreKept DEF AloneInv
<1>5. CASE RemoveFinalizer
  <2>1. CASE api.cr # entry
    BY <1>5, <2>1, UnchangedChange, ClusterKeeps DEF RemoveFinalizer, Write
  <2>2. CASE api.cr = entry
    <3>1. /\ api'.cr = None /\ api'.cm = None /\ api'.svc = None /\ api'.pods = api.pods
          /\ lastUid' = lastUid
      BY <1>1, <1>5, <2>2 DEF RemoveFinalizer, Write, Objects, AloneInv, CleanedInv
    <3>2. StoreInv'
      BY <3>1 DEF AloneInv, StoreInv, ChildrenOwned, Orphan, Exists
    <3>3. (HeldInv /\ CleanedInv)'
      BY <1>5 DEF RemoveFinalizer, Return, HeldInv, CleanedInv, EnsureSteps, CleanupSteps
    <3>. QED
      BY <3>2, <3>3 DEF AloneInv
  <2>. QED
    BY <2>1, <2>2
<1>. QED
  BY <1>2, <1>3, <1>4, <1>5

\* A pass that ensures children goes on to a step of the same branch.
LEMMA EnsureGoesOn ==
  ASSUME AloneInv, pc \in EnsureSteps, pc' \in EnsureSteps, entry' = entry, api'.cr = api.cr
  PROVE  (HeldInv /\ CleanedInv)'
BY DEF AloneInv, HeldInv, CleanedInv, EnsureSteps, CleanupSteps

LEMMA EnsureKeeps ==
  ASSUME AloneInv, TypeOK', GetConfigMap \/ PutConfigMap \/ GetService \/ PutService
  PROVE  AloneInv'
<1>1. api \in Objects /\ pc \in EnsureSteps /\ entry \in Entry
  BY DEF AloneInv, TypeOK, ClusterTypeOK, GetConfigMap, PutConfigMap, GetService, PutService,
         EnsureSteps
<1>2. CASE GetConfigMap \/ GetService
  <2>1. ClusterChange /\ api' = api
    BY <1>2, UnchangedChange DEF GetConfigMap, GetService, Get, clusterVars
  <2>2. (HeldInv /\ CleanedInv)'
    BY <1>1, <1>2, <2>1, EnsureGoesOn DEF GetConfigMap, GetService, Get, EnsureSteps
  <2>. QED
    BY <2>1, <2>2, StoreKept DEF AloneInv
<1>3. CASE Write(api) /\ Return
  BY <1>3, UnchangedChange, ClusterKeeps DEF Write
<1>4. ASSUME NEW k \in {"cm", "svc"}, NEW o, o.owner = entry.uid, Write([api EXCEPT ![k] = o]),
             pc' \in EnsureSteps, entry' = entry
      PROVE  AloneInv'
  <2>1. /\ api'.cr = api.cr /\ api'.pods = api.pods /\ lastUid' = lastUid
        /\ \A j \in {"cm", "svc"} : api'[j] = IF j = k THEN o ELSE api[j]
    BY <1>1, <1>4 DEF Write, Objects
  <2>2. api.cr # None /\ api.cr.uid = entry.uid /\ api.cr.finalizer
    BY <1>1 DEF AloneInv, HeldInv
  <2>3. StoreInv'
    BY <1>4, <2>1, <2>2 DEF AloneInv, StoreInv, ChildrenOwned, Orphan, Exists
  <2>4. (HeldInv /\ CleanedInv)'
    BY <1>1, <1>4, <2>1, EnsureGoesOn
  <2>. QED
    BY <2>3, <2>4 DEF AloneInv
<1>5. CASE PutConfigMap
  <2>1. DesiredConfigMap(entry).owner = entry.uid
    BY DEF DesiredConfigMap
  <2>. QED
    BY <1>3, <1>4, <1>5, <2>1 DEF PutConfigMap, Put, Continue, EnsureSteps
<1>6. CASE PutService
  <2>1. DesiredService(entry).owner = entry.uid
    BY DEF DesiredService
  <2>. QED
    BY <1>3, <1>4, <1>6, <2>1 DEF PutService, Put, Continue, EnsureSteps
<1>. QED
  BY <1>2, <1>5, <1>6

\* reconcilePods.
LEMMA PodsKeep ==
  ASSUME AloneInv, TypeOK', ListPods \/ DeleteOutdated \/ ScaleDown \/ ScaleUp \/ ReconcileDone
  PROVE  AloneInv'
<1>1. /\ api \in Objects /\ ClusterTypeOK /\ pc \in EnsureSteps /\ entry \in Entry
      /\ doomed \subseteq PodIds /\ current \subseteq PodIds \X (0 .. MaxClock)
  BY DEF AloneInv, TypeOK, ClusterTypeOK, ListPods, DeleteOutdated, ScaleDown, ScaleUp,
         ReconcileDone, EnsureSteps
<1>2. ASSUME ClusterChange, api'.cr = api.cr, pc' = "reconcilePods", entry' = entry
      PROVE  AloneInv'
  BY <1>1, <1>2, StoreKept, EnsureGoesOn DEF AloneInv, EnsureSteps
<1>3. CASE ListPods
  BY <1>2, <1>3, UnchangedChange DEF ListPods, clusterVars
<1>4. CASE DeleteOutdated
  BY <1>1, <1>2, <1>4, DeleteChange DEF DeleteOutdated, Write
<1>5. CASE ScaleDown
  <2>1. PICK newest \in current : Write([api EXCEPT !.pods = DeletePod(api.pods, newest[1])])
    BY <1>5 DEF ScaleDown
  <2>2. newest[1] \in PodIds
    BY <1>1
  <2>. QED
    BY <1>1, <1>2, <1>5, <2>1, <2>2, DeleteChange DEF ScaleDown, Write
<1>6. CASE Write(api) /\ Return
  BY <1>6, UnchangedChange, ClusterKeeps DEF Write
<1>7. ASSUME NEW p \in PodIds, Write([api EXCEPT !.pods[p] = DesiredPod(entry)]),
             pc' = "reconcilePods", entry' = entry
      PROVE  AloneInv'
  <2>1. /\ api'.cr = api.cr /\ api'.cm = api.cm /\ api'.svc = api.svc /\ lastUid' = lastUid
        /\ \A q \in PodIds : api'.pods[q] = IF q = p THEN DesiredPod(entry) ELSE api.pods[q]
    BY <1>1, <1>7 DEF Write, Objects
  <2>2. api.cr # None /\ api.cr.uid = entry.uid /\ api.cr.finalizer /\ api.cr.uid <= lastUid
    <3>1. api.cr # None /\ api.cr.uid = entry.uid /\ api.cr.finalizer /\ api.cr.uid = lastUid
      BY <1>1 DEF AloneInv, HeldInv, StoreInv
    <3>2. lastUid <= lastUid
      BY Numbers, SMTT(20) DEF AloneInv
    <3>. QED
      BY <3>1, <3>2
  <2>3. /\ DesiredPod(entry).owner = entry.uid
        /\ DesiredPod(entry).hash[1][1] = entry.uid
    BY DEF DesiredPod, DesiredSpecHash, DesiredConfigData, StableTokenSecret
  <2>4. \A q \in PodIds : Exists(q)' =>
           /\ api'.pods[q].owner <= lastUid'
           /\ api'.pods[q].hash[1][1] = api'.pods[q].owner
    BY <2>1, <2>2, <2>3 DEF AloneInv, StoreInv, Exists
  <2>5. StoreInv'
    BY <2>1, <2>2, <2>4 DEF AloneInv, StoreInv, ChildrenOwned, Orphan, Exists
  <2>6. (HeldInv /\ CleanedInv)'
    BY <1>1, <1>7, <2>1, EnsureGoesOn DEF EnsureSteps
  <2>. QED
    BY <2>5, <2>6 DEF AloneInv
<1>8. CASE ScaleUp
  BY <1>6, <1>7, <1>8 DEF ScaleUp
<1>9. CASE ReconcileDone
  BY <1>6, <1>9 DEF ReconcileDone
<1>. QED
  BY <1>3, <1>4, <1>5, <1>8, <1>9

LEMMA AloneStep ==
  ASSUME AloneInv, \/ ClusterNext /\ UNCHANGED passVars
                   \/ List \/ ReconcileCR \/ CallFails
                   \/ \E k \in {"cm", "svc"} : CollectChild(k) /\ UNCHANGED passVars
                   \/ UNCHANGED vars
  PROVE  AloneInv'
<1>0. TypeOK /\ ClusterTypeOK /\ api \in Objects
  BY DEF AloneInv, TypeOK, ClusterTypeOK
<1>1. ASSUME ClusterTypeOK', UNCHANGED passVars PROVE TypeOK'
  BY <1>0, <1>1 DEF passVars, TypeOK
<1>2. CASE ClusterNext /\ UNCHANGED passVars
  BY <1>0, <1>1, <1>2, ClusterType, ClusterChanges, ClusterKeeps
<1>3. CASE List
  BY <1>0, <1>3, PassType, ListKeeps
<1>4. CASE ReconcileCR
  BY <1>0, <1>4, PassType, AddFinalizerKeeps, CleanupKeeps, EnsureKeeps, PodsKeep DEF ReconcileCR
<1>5. CASE CallFails
  BY <1>0, <1>5, PassType, UnchangedChange, ClusterKeeps DEF CallFails
<1>6. ASSUME NEW k \in {"cm", "svc"}, CollectChild(k), UNCHANGED passVars PROVE AloneInv'
  <2>1. /\ api'.cr = api.cr /\ api'.pods = api.pods /\ lastUid' = lastUid
        /\ api'.cm \in {api.cm, None} /\ api'.svc \in {api.svc, None}
    BY <1>0, <1>6 DEF CollectChild, Objects
  <2>2. ClusterChange
    BY <2>1 DEF ClusterChange, CrChange, PodChange
  <2>3. api' \in Objects
    BY <1>0, <1>6, StoreTypes DEF CollectChild
  <2>4. ClusterTypeOK'
    BY <1>0, <1>6, <2>3 DEF CollectChild, ClusterTypeOK
  <2>. QED
    BY <1>1, <1>6, <2>2, <2>4, ClusterKeeps
<1>7. CASE UNCHANGED vars
  <2>1. ClusterTypeOK'
    BY <1>0, <1>7 DEF vars, clusterVars, ClusterTypeOK
  <2>. QED
    BY <1>1, <1>7, <2>1, UnchangedChange, ClusterKeeps DEF vars, clusterVars
<1>. QED
  BY <1>2, <1>3, <1>4, <1>5, <1>6, <1>7

LEMMA AloneStart == RolloutInit => AloneInv
<1>. SUFFICES ASSUME RolloutInit PROVE AloneInv
  OBVIOUS
<1>1. ClusterTypeOK
  <2>1. api \in Objects
    BY DEF RolloutInit, Init, ClusterInit, Objects
  <2>. QED
    BY <2>1, BoundsAssumption, SMTT(20) DEF RolloutInit, Init, ClusterInit, ClusterTypeOK
<1>2. TypeOK
  BY <1>1 DEF RolloutInit, Init, TypeOK, Steps
<1>3. StoreInv
  BY SMTT(20) DEF RolloutInit, Init, ClusterInit, StoreInv, ChildrenOwned, Orphan, Exists
<1>4. HeldInv /\ CleanedInv
  BY DEF RolloutInit, Init, HeldInv, CleanedInv, EnsureSteps, CleanupSteps
<1>. QED
  BY <1>2, <1>3, <1>4 DEF AloneInv

\* Before the rollout, a step is one of the cluster or of the only instance.
LEMMA BeforeRollout ==
  ASSUME [RolloutNext]_rolloutVars, rollout' = "never"
  PROVE  /\ rollout = "never"
         /\ \/ ClusterNext /\ UNCHANGED passVars
            \/ List \/ ReconcileCR \/ CallFails
            \/ \E k \in {"cm", "svc"} : CollectChild(k) /\ UNCHANGED passVars
            \/ UNCHANGED vars
BY DEF RolloutNext, ClusterStep, Cluster, OldPolls, Old, NewStep, NewStarts, OldStops, rolloutVars

-----------------------------------------------------------------------------
(* Theorems.                                                               *)

\* The inductive invariant holds until the rollout.
THEOREM Invariance == RolloutSpec => [](rollout = "never" => AloneInv)
<1>1. RolloutInit => AloneInv
  BY AloneStart
<1>2. (rollout = "never" => AloneInv) /\ [RolloutNext]_rolloutVars => (rollout = "never" => AloneInv)'
  <2>. SUFFICES ASSUME rollout = "never" => AloneInv, [RolloutNext]_rolloutVars, rollout' = "never"
                PROVE  AloneInv'
    OBVIOUS
  <2>. QED
    BY BeforeRollout, AloneStep
<1>. QED
  BY <1>1, <1>2, PTL DEF RolloutSpec

\* While one instance runs, ConfigMap and Service belong to the CR that exists,
\* for any number of Pods, edits, faults and incarnations.
THEOREM AloneChildrenAreOwned == RolloutSpec => []AloneChildrenOwned
<1>1. (rollout = "never" => AloneInv) => AloneChildrenOwned
  BY DEF AloneInv, StoreInv, AloneChildrenOwned
<1>. QED
  BY Invariance, <1>1, PTL

\* While one instance runs, it removes a finalizer only when every Pod of the CR
\* has been deleted.
THEOREM AloneNoPodLeft == RolloutSpec => AloneLeavesNoPod
<1>. DEFINE Left == (/\ rollout = "never"
                     /\ api.cr # None /\ api.cr.finalizer /\ api.cr' = None)
                       => \A p \in PodIds :
                            (Exists(p) /\ api.pods[p].owner = api.cr.uid) => api.pods[p].deleting
<1>1. (rollout = "never" => AloneInv) /\ [RolloutNext]_rolloutVars => [Left]_rolloutVars
  <2>. SUFFICES ASSUME AloneInv, RolloutNext, rollout = "never",
                       api.cr # None, api.cr.finalizer, api'.cr = None,
                       NEW p \in PodIds, Exists(p), api.pods[p].owner = api.cr.uid
                PROVE  api.pods[p].deleting
    OBVIOUS
  <2>1. api \in Objects /\ ClusterTypeOK
    BY DEF AloneInv, TypeOK, ClusterTypeOK
  <2>2. ~ ClusterChange
    BY DEF ClusterChange, CrChange
  <2>3. ~ ClusterNext /\ api' # api
    BY <2>1, <2>2, ClusterChanges
  <2>4. ASSUME NEW k \in {"cm", "svc", "pods"}, NEW o PROVE api' # [api EXCEPT ![k] = o]
    BY <2>1 DEF Objects
  <2>5. ReconcileCR
    BY <2>3, <2>4 DEF RolloutNext, ClusterStep, Cluster, CollectChild, OldPolls, Old, NewStep,
                      NewStarts, OldStops, List, CallFails, clusterVars
  <2>6. ~ AddFinalizer
    <3>. SUFFICES ASSUME AddFinalizer PROVE FALSE
      OBVIOUS
    <3>. DEFINE updated == [entry EXCEPT !.finalizer = TRUE, !.rv = entry.rv + 1]
    <3>1. entry \in Entry
      BY DEF AddFinalizer, AloneInv, TypeOK
    <3>2. updated \in Entry
      <4>1. entry.rv + 1 \in Nat
        BY <3>1, SMTT(20) DEF Entry
      <4>. QED
        BY <3>1, <4>1, EntryUpdates
    <3>3. api' = [api EXCEPT !.cr = updated]
      BY <2>3 DEF AddFinalizer, Write
    <3>. QED
      BY <2>1, <3>2, <3>3, NoneAssumption DEF Objects
  <2>7. RemoveFinalizer
    BY <2>3, <2>4, <2>5, <2>6
    DEF ReconcileCR, ListCleanup, CleanupPod, CleanupService, CleanupConfigMap, GetConfigMap,
        PutConfigMap, GetService, PutService, Get, Put, ListPods, DeleteOutdated, ScaleDown, ScaleUp,
        ReconcileDone, Write, clusterVars
  <2>. QED
    BY <2>7 DEF RemoveFinalizer, AloneInv, CleanedInv, HeldInv, CleanupSteps
<1>. QED
  BY Invariance, <1>1, PTL DEF RolloutSpec, AloneLeavesNoPod

-----------------------------------------------------------------------------
(* The abstract specification, before the rollout.                         *)

\* The CR that a pass ensures is the stored one, under its finalizer.
LEMMA EnsuredIsStored ==
  ASSUME AloneInv, pc \in EnsureSteps
  PROVE  /\ entry \in Entry /\ api \in Objects /\ clock \in 0 .. MaxClock
         /\ api.cr # None /\ api.cr.finalizer /\ entry.uid = lastUid
<1>1. entry \in Entry /\ api \in Objects /\ clock \in 0 .. MaxClock
  BY DEF AloneInv, TypeOK, ClusterTypeOK, EnsureSteps
<1>. QED
  BY <1>1 DEF AloneInv, HeldInv, StoreInv

\* Deleting a Pod is not seen, or the Pod is gone.
LEMMA DeleteManaged ==
  ASSUME ClusterTypeOK, NEW p \in PodIds, Write([api EXCEPT !.pods = DeletePod(api.pods, p)])
  PROVE  ManagedStep
<1>1. /\ ClusterChange /\ lastUid' = lastUid
      /\ api'.cr = api.cr /\ api'.cm = api.cm /\ api'.svc = api.svc
  BY DeleteChange DEF Write
<1>. QED
  BY <1>1, LoseManaged DEF ClusterChange, PodChange

\* addFinalizer guards the CR; removeFinalizer ends a marked CR whose Service and
\* ConfigMap are gone.
LEMMA FinalizersManaged ==
  ASSUME AloneInv, AddFinalizer \/ RemoveFinalizer
  PROVE  ManagedStep
<1>1. api \in Objects /\ entry \in Entry /\ entry # None /\ lastUid' = lastUid
  BY NoneAssumption DEF AloneInv, TypeOK, ClusterTypeOK, AddFinalizer, RemoveFinalizer, Write
<1>2. CASE api' = api
  BY <1>1, <1>2, QuietManaged
<1>3. CASE AddFinalizer /\ api.cr = entry
  <2>1. /\ api'.cr = [api.cr EXCEPT !.finalizer = TRUE, !.rv = api.cr.rv + 1]
        /\ OnlyCr
    BY <1>1, <1>3 DEF AddFinalizer, Write, Objects, Entry, OnlyCr
  <2>2. api.cr.rv + 1 \in Nat
    BY <1>1, <1>3, SMTT(20) DEF Entry
  <2>3. api'.cr \in Entry
    BY <1>1, <1>3, <2>1, <2>2, EntryUpdates
  <2>4. api'.cr # None /\ api'.cr.finalizer /\ api'.cr.deleting = api.cr.deleting
    BY <1>1, <1>3, <2>1, <2>3, NoneAssumption DEF Entry
  <2>. QED
    BY <1>1, <1>3, <2>1, <2>4, FinalizerManaged
<1>4. CASE RemoveFinalizer /\ api.cr = entry
  <2>1. api'.cr = None /\ OnlyCr
    BY <1>1, <1>4 DEF RemoveFinalizer, Write, Objects, OnlyCr
  <2>2. api.cr.deleting /\ api.cm = None /\ api.svc = None
    BY <1>4 DEF RemoveFinalizer, AloneInv, HeldInv, CleanedInv, CleanupSteps
  <2>. QED
    BY <1>1, <1>4, <2>1, <2>2, FinalizerManaged
<1>. QED
  BY <1>2, <1>3, <1>4 DEF AddFinalizer, RemoveFinalizer, Write

\* ensureConfigMap and ensureService write objects of the stored CR, or nothing.
LEMMA EnsureManaged ==
  ASSUME AloneInv, PutConfigMap \/ PutService
  PROVE  ManagedStep
<1>1. /\ pc \in EnsureSteps /\ lastUid' = lastUid
      /\ \A k \in {"cm", "svc"} : api[k] # None => api[k].owner = lastUid
  BY DEF AloneInv, StoreInv, ChildrenOwned, PutConfigMap, PutService, EnsureSteps, Put, Write
<1>2. CASE api' = api
  BY <1>1, <1>2, QuietManaged
<1>3. /\ DesiredConfigMap(entry) # None /\ DesiredConfigMap(entry).owner = entry.uid
      /\ DesiredService(entry) # None /\ DesiredService(entry).owner = entry.uid
  <2>1. DesiredConfigMap(entry) \in ConfigMap /\ DesiredService(entry) \in Service
    BY <1>1, EnsuredIsStored, DesiredTypes
  <2>. QED
    BY <2>1, NoneAssumption DEF DesiredConfigMap, DesiredService
<1>4. CASE api' = [api EXCEPT !["cm"] = DesiredConfigMap(entry)]
  BY <1>1, <1>3, <1>4, EnsuredIsStored, AdoptManaged
<1>5. CASE api' = [api EXCEPT !["svc"] = DesiredService(entry)]
  BY <1>1, <1>3, <1>5, EnsuredIsStored, AdoptManaged
<1>. QED
  BY <1>2, <1>4, <1>5 DEF PutConfigMap, PutService, Put, Write

\* A created Pod is one of the stored CR.
LEMMA ScaleUpManaged ==
  ASSUME AloneInv, ScaleUp
  PROVE  ManagedStep
<1>1. pc \in EnsureSteps /\ lastUid' = lastUid
  BY DEF ScaleUp, EnsureSteps, Write
<1>2. CASE api' = api
  BY <1>1, <1>2, QuietManaged
<1>3. ASSUME NEW p \in PodIds, Fresh(p), api' = [api EXCEPT !.pods[p] = DesiredPod(entry)]
      PROVE  ManagedStep
  <2>1. api.pods[p] = None
    BY <1>3 DEF Fresh, Exists
  <2>2. DesiredPod(entry) \in Pod
    BY <1>1, EnsuredIsStored, DesiredTypes
  <2>3. DesiredPod(entry) # None /\ DesiredPod(entry).owner = entry.uid
    BY <2>2, NoneAssumption DEF DesiredPod
  <2>. QED
    BY <1>1, <1>3, <2>1, <2>3, EnsuredIsStored, AdoptPodManaged
<1>. QED
  BY <1>2, <1>3 DEF ScaleUp, Write

\* Every step of one instance and of the cluster is one that ManagedEntry allows, or
\* is not seen.
LEMMA StepManaged ==
  ASSUME AloneInv, RolloutNext, rollout = "never"
  PROVE  ManagedStep
<1>1. /\ ClusterTypeOK /\ api \in Objects
      /\ doomed \subseteq PodIds /\ current \subseteq PodIds \X (0 .. MaxClock)
  BY DEF AloneInv, TypeOK, ClusterTypeOK
<1>2. CASE ClusterNext
  <2>1. (api.cr = None \/ ~ api.cr.finalizer) => api.cm = None /\ api.svc = None
    BY DEF AloneInv, StoreInv, ChildrenOwned
  <2>. QED
    BY <1>1, <1>2, <2>1, ClusterManaged
<1>3. CASE AddFinalizer \/ RemoveFinalizer
  BY <1>3, FinalizersManaged
<1>4. CASE PutConfigMap \/ PutService
  BY <1>4, EnsureManaged
<1>5. CASE CleanupPod \/ DeleteOutdated
  BY <1>1, <1>5, DeleteManaged DEF CleanupPod, DeleteOutdated
<1>6. CASE ScaleDown
  <2>1. PICK c \in current : Write([api EXCEPT !.pods = DeletePod(api.pods, c[1])])
    BY <1>6 DEF ScaleDown
  <2>2. c[1] \in PodIds
    BY <1>1
  <2>. QED
    BY <1>1, <2>1, <2>2, DeleteManaged
<1>7. CASE CleanupService \/ CleanupConfigMap \/ \E k \in {"cm", "svc"} : CollectChild(k)
  <2>1. /\ api'.cr = api.cr /\ api'.pods = api.pods /\ lastUid' = lastUid
        /\ api'.cm \in {api.cm, None} /\ api'.svc \in {api.svc, None}
    BY <1>1, <1>7 DEF CleanupService, CleanupConfigMap, CollectChild, Write, Objects
  <2>. QED
    BY <2>1, LoseManaged
<1>8. CASE ScaleUp
  BY <1>8, ScaleUpManaged
<1>9. CASE \/ List \/ ListCleanup \/ GetConfigMap \/ GetService \/ ListPods \/ ReconcileDone
           \/ CallFails \/ NewStarts
  <2>1. api' = api /\ lastUid' = lastUid
    BY <1>9 DEF List, ListCleanup, GetConfigMap, GetService, Get, ListPods, ReconcileDone, CallFails,
       NewStarts, Write, clusterVars
  <2>. QED
    BY <2>1, QuietManaged
<1>10. \/ ClusterNext \/ (\E k \in {"cm", "svc"} : CollectChild(k))
       \/ List \/ ReconcileCR \/ CallFails \/ NewStarts
  BY DEF RolloutNext, ClusterStep, Cluster, OldPolls, Old, NewStep, OldStops
<1>. QED
  BY <1>2, <1>3, <1>4, <1>5, <1>6, <1>7, <1>8, <1>9, <1>10 DEF ReconcileCR

\* While one instance runs, it implements ManagedEntry, for any specs, edits, Pod
\* names and faults, although each pass acts on a CR that was listed before it.
THEOREM AloneManagesEntry == RolloutSpec => AloneManages
<1>. DEFINE Alone == rollout = "never" => Managed!Next \/ UNCHANGED Managed!managedVars
<1>1. RolloutInit => Managed!Init
  BY ManagedInit DEF RolloutInit, Init
<1>2. (rollout = "never" => AloneInv) /\ [RolloutNext]_rolloutVars => [Alone]_rolloutVars
  BY StepManaged DEF ManagedStep
<1>. QED
  BY Invariance, <1>1, <1>2, PTL DEF RolloutSpec, AloneManages

-----------------------------------------------------------------------------
(* The environment of the Pods.                                            *)

\* The configuration in a Pod's hash leads to the one in the ConfigMap, in the
\* Pod's environment, in the CR of the pass and in the CR as stored.
PodOrder(p) ==
  LET q == api.pods[p]
      c == q.hash[1][2]
  IN  /\ Leads(c, api.cr.spec.config)
      /\ pc \in EnsureSteps => Leads(c, entry.spec.config)
      /\ api.cm # None => Leads(c, api.cm.data[2])
      /\ q.phase = "Running" => /\ q.env \in Data
                                /\ q.env[1] = q.owner
                                /\ Leads(c, q.env[2])
                                /\ Leads(q.env[2], api.cr.spec.config)

MapOrder ==
  /\ api.cm.data[1] = api.cm.owner
  /\ Leads(api.cm.data[2], api.cr.spec.config)
  /\ pc \in EnsureSteps => Leads(api.cm.data[2], entry.spec.config)

LateSteps == EnsureSteps \ {"getConfigMap", "putConfigMap"}

Owned(p) == Exists(p) /\ api.cr # None /\ api.pods[p].owner = api.cr.uid

OrderInv ==
  /\ pc \in EnsureSteps => Leads(entry.spec.config, api.cr.spec.config)
  /\ pc \in LateSteps => api.cm \in {None, DesiredConfigMap(entry)}
  /\ api.cm # None => MapOrder
  /\ \A p \in PodIds : Owned(p) => PodOrder(p)

LEMMA DataPairs == \A d \in Data : d = <<d[1], d[2]>>
BY SMTT(20) DEF Data

\* The configurations that OrderInv compares.
LEMMA ConfigTypes ==
  ASSUME TypeOK
  PROVE  /\ api.cr # None => api.cr.spec \in Specs /\ api.cr.spec.config \in Configs
         /\ pc \in EnsureSteps => entry \in Entry /\ entry.spec.config \in Configs
         /\ api.cm # None => api.cm.data \in Data /\ api.cm.data[2] \in Configs
         /\ \A p \in PodIds : Exists(p) => api.pods[p].hash[1][2] \in Configs
         /\ \A d \in Data : d[2] \in Configs
<1>1. /\ api.cr \in Entry \cup {None} /\ api.cm \in ConfigMap \cup {None}
      /\ api.pods \in [PodIds -> Pod \cup {None}]
      /\ pc \in EnsureSteps => entry \in Entry
  BY ObjectsComponents DEF TypeOK, ClusterTypeOK, EnsureSteps
<1>2. \A e \in Entry : e.spec \in Specs /\ e.spec.config \in Configs
  BY SpecsAssumption DEF Entry
<1>3. \A d \in Data : d[2] \in Configs
  BY DEF Data
<1>4. \A m \in ConfigMap : m.data \in Data
  BY DEF ConfigMap
<1>5. \A q \in Pod : q.hash[1] \in Data
  BY DEF Pod, Hashes
<1>. QED
  BY <1>1, <1>2, <1>3, <1>4, <1>5 DEF Exists

\* Steps that create nothing, outside List and addFinalizer.
LEMMA OrderKept ==
  ASSUME Onward, AloneInv, AloneInv', OrderInv, ClusterChange,
         \/ pc' \notin EnsureSteps
         \/ pc \in EnsureSteps /\ entry' = entry,
         pc' \in LateSteps => api'.cm \in {None, DesiredConfigMap(entry')}
  PROVE  OrderInv'
<1>1. TypeOK /\ TypeOK' /\ ChildrenOwned /\ HeldInv /\ HeldInv'
  BY DEF AloneInv, StoreInv
<1>. DEFINE c == api.cr.spec.config
            cN == api'.cr.spec.config
<1>2. /\ api.cr # None => api.cr.spec \in Specs /\ c \in Configs
      /\ api'.cr # None => api'.cr.spec \in Specs /\ cN \in Configs
  <2>1. api' \in Objects
    BY <1>1 DEF TypeOK, ClusterTypeOK
  <2>2. api'.cr \in Entry \cup {None}
    BY <2>1 DEF Objects
  <2>. QED
    BY <1>1, <2>2, ConfigTypes, SpecsAssumption DEF Entry
<1>3. ASSUME api.cr # None, api'.cr # None, NEW x \in Configs, Leads(x, c) PROVE Leads(x, cN)
  <2>1. c \in Configs /\ cN \in Configs /\ Leads(c, cN)
    BY <1>2, <1>3, Order DEF ClusterChange, CrChange, Leads
  <2>. HIDE DEF c, cN
  <2>. QED
    BY <1>3, <2>1, Order
<1>4. /\ pc' \in EnsureSteps => /\ api.cr # None /\ api'.cr # None
                                /\ pc \in EnsureSteps /\ entry' = entry
      /\ api'.cm # None => api'.cm = api.cm /\ api.cr # None /\ api'.cr # None
  <2>1. api'.cm # None => api'.cm = api.cm /\ api.cr # None
    BY <1>1 DEF ChildrenOwned, ClusterChange
  <2>2. api'.cm # None => api'.cr # None
    BY DEF AloneInv, StoreInv, ChildrenOwned
  <2>3. pc' \in EnsureSteps => api.cr # None /\ api'.cr # None
    BY <1>1 DEF HeldInv
  <2>. QED
    BY <2>1, <2>2, <2>3
<1>5. pc' \in EnsureSteps => Leads(entry'.spec.config, cN)
  <2>1. pc' \in EnsureSteps => entry.spec.config \in Configs /\ Leads(entry.spec.config, c)
    BY <1>1, <1>4, ConfigTypes DEF OrderInv
  <2>. QED
    BY <1>3, <1>4, <2>1
<1>6. api'.cm # None => MapOrder'
  <2>. SUFFICES ASSUME api'.cm # None PROVE MapOrder'
    OBVIOUS
  <2>1. api.cm.data[2] \in Configs /\ MapOrder
    BY <1>1, <1>4, ConfigTypes DEF OrderInv
  <2>2. Leads(api.cm.data[2], c) /\ api.cr # None /\ api'.cr # None
    BY <1>4, <2>1 DEF MapOrder
  <2>3. Leads(api.cm.data[2], cN)
    BY <1>3, <2>1, <2>2
  <2>. QED
    BY <1>4, <2>1, <2>3 DEF MapOrder
<1>7. ASSUME NEW p \in PodIds, Owned(p)' PROVE PodOrder(p)'
  <2>1. /\ Exists(p) /\ api'.cr # None /\ api.pods[p].owner = api'.cr.uid
        /\ api'.pods[p].hash = api.pods[p].hash /\ api'.pods[p].owner = api.pods[p].owner
    BY <1>7 DEF Owned, Exists, ClusterChange, PodChange
  <2>2. api.cr # None /\ api.cr.uid = api'.cr.uid
    <3>1. api.pods[p].owner <= lastUid /\ lastUid \in Nat /\ api.pods[p].owner \in Nat
      BY <1>1, <2>1, Numbers DEF AloneInv, StoreInv
    <3>. QED
      BY <2>1, <3>1, SMTT(20) DEF ClusterChange, CrChange
  <2>3. PodOrder(p) /\ api.pods[p].hash[1][2] \in Configs
    BY <1>1, <2>1, <2>2, ConfigTypes DEF OrderInv, Owned
  <2>. DEFINE h == api.pods[p].hash[1][2]
  <2>4. Leads(h, cN)
    <3>1. Leads(h, c) /\ h \in Configs
      BY <2>3 DEF PodOrder
    <3>. QED
      BY <1>3, <2>1, <2>2, <3>1
  <2>5. /\ pc' \in EnsureSteps => Leads(h, entry'.spec.config)
        /\ api'.cm # None => Leads(h, api'.cm.data[2])
    BY <1>4, <2>3 DEF PodOrder
  <2>6. ASSUME api'.pods[p].phase = "Running"
        PROVE  /\ api'.pods[p].env \in Data
               /\ api'.pods[p].env[1] = api'.pods[p].owner
               /\ Leads(h, api'.pods[p].env[2])
               /\ Leads(api'.pods[p].env[2], cN)
    <3>1. CASE api'.pods[p].phase = api.pods[p].phase /\ api'.pods[p].env = api.pods[p].env
      <4>1. /\ api.pods[p].env \in Data /\ api.pods[p].env[1] = api.pods[p].owner
            /\ Leads(h, api.pods[p].env[2]) /\ Leads(api.pods[p].env[2], c)
        BY <2>3, <2>6, <3>1 DEF PodOrder
      <4>2. api.pods[p].env[2] \in Configs
        BY <1>1, <4>1, ConfigTypes
      <4>3. Leads(api.pods[p].env[2], cN)
        BY <1>3, <2>1, <2>2, <4>1, <4>2
      <4>. QED
        BY <2>1, <3>1, <4>1, <4>3
    <3>2. CASE api.cm # None /\ api'.pods[p].env = api.cm.data
      <4>1. /\ MapOrder /\ Leads(h, api.cm.data[2]) /\ api.cm.owner = api.cr.uid
            /\ api.cm.data \in Data /\ api.cm.data[2] \in Configs
        <5>1. MapOrder
          BY <3>2 DEF OrderInv
        <5>2. Leads(h, api.cm.data[2])
          BY <2>3, <3>2 DEF PodOrder
        <5>3. api.cm.owner = api.cr.uid
          BY <1>1, <3>2 DEF ChildrenOwned
        <5>. QED
          BY <1>1, <3>2, <5>1, <5>2, <5>3, ConfigTypes
      <4>2. Leads(api.cm.data[2], cN)
        <5>1. Leads(api.cm.data[2], c)
          BY <4>1 DEF MapOrder
        <5>. QED
          BY <1>3, <2>1, <2>2, <4>1, <5>1
      <4>. QED
        BY <2>1, <2>2, <3>2, <4>1, <4>2 DEF MapOrder
    <3>. QED
      BY <2>1, <2>6, <3>1, <3>2, <1>7 DEF ClusterChange, PodChange, Owned, Exists
  <2>. QED
    BY <2>1, <2>4, <2>5, <2>6 DEF PodOrder
<1>. QED
  BY <1>5, <1>6, <1>7 DEF OrderInv

\* A pass begins with the CR as stored.
LEMMA OrderBegins ==
  ASSUME OrderInv, api.cr # None, api'.cr # None, api'.cr.spec = api.cr.spec,
         api'.cr.uid = api.cr.uid, api'.cm = api.cm, api'.pods = api.pods,
         pc' \notin LateSteps, pc' \in EnsureSteps => entry'.spec = api.cr.spec
  PROVE  OrderInv'
<1>1. pc' \in EnsureSteps => Leads(entry'.spec.config, api'.cr.spec.config)
  BY DEF Leads
<1>2. api'.cm # None => MapOrder'
  BY DEF OrderInv, MapOrder
<1>3. ASSUME NEW p \in PodIds, Owned(p)' PROVE PodOrder(p)'
  <2>1. PodOrder(p)
    BY <1>3 DEF OrderInv, Owned, Exists
  <2>. QED
    BY <2>1 DEF PodOrder
<1>. QED
  BY <1>1, <1>2, <1>3 DEF OrderInv

\* ensureConfigMap stores what the CR of the pass asks for.
LEMMA OrderPutMap ==
  ASSUME AloneInv, OrderInv, pc \in EnsureSteps, pc' \in EnsureSteps, entry' = entry,
         api'.cr = api.cr, api'.pods = api.pods, api'.cm = DesiredConfigMap(entry)
  PROVE  OrderInv'
<1>1. /\ DesiredConfigMap(entry).data[1] = DesiredConfigMap(entry).owner
      /\ DesiredConfigMap(entry).data[2] = entry.spec.config
  BY DEF DesiredConfigMap, DesiredConfigData, StableTokenSecret
<1>2. Leads(entry.spec.config, api.cr.spec.config)
  BY DEF OrderInv
<1>3. MapOrder'
  BY <1>1, <1>2 DEF MapOrder, Leads
<1>4. ASSUME NEW p \in PodIds, Owned(p)' PROVE PodOrder(p)'
  <2>1. PodOrder(p)
    BY <1>4 DEF OrderInv, Owned, Exists
  <2>. QED
    BY <1>1, <2>1 DEF PodOrder
<1>5. pc' \in LateSteps => api'.cm \in {None, DesiredConfigMap(entry')}
  OBVIOUS
<1>. QED
  BY <1>2, <1>3, <1>4, <1>5 DEF OrderInv

\* A Pod is created when the ConfigMap is that of the pass, or is gone again.
LEMMA OrderCreate ==
  ASSUME OrderInv, pc = "reconcilePods", pc' = pc, entry' = entry, NEW p \in PodIds,
         api'.cr = api.cr, api'.cm = api.cm,
         \A q \in PodIds : api'.pods[q] = IF q = p THEN DesiredPod(entry) ELSE api.pods[q]
  PROVE  OrderInv'
<1>0. pc \in EnsureSteps /\ pc \in LateSteps
  BY DEF EnsureSteps, LateSteps
<1>1. /\ DesiredPod(entry).hash[1][2] = entry.spec.config
      /\ DesiredPod(entry).phase = "Pending"
      /\ DesiredConfigMap(entry).data[2] = entry.spec.config
  BY DEF DesiredPod, DesiredSpecHash, DesiredConfigMap, DesiredConfigData
<1>2. /\ Leads(entry.spec.config, api.cr.spec.config)
      /\ api.cm # None => api.cm.data[2] = entry.spec.config
  BY <1>0, <1>1 DEF OrderInv
<1>3. ASSUME NEW q \in PodIds, Owned(q)' PROVE PodOrder(q)'
  <2>1. CASE q = p
    BY <1>1, <1>2, <2>1 DEF PodOrder, Leads
  <2>2. CASE q # p
    <3>1. PodOrder(q)
      BY <1>3, <2>2 DEF OrderInv, Owned, Exists
    <3>. QED
      BY <2>2, <3>1 DEF PodOrder
  <2>. QED
    BY <2>1, <2>2
<1>4. api'.cm # None => MapOrder'
  BY DEF OrderInv, MapOrder
<1>. QED
  BY <1>0, <1>2, <1>3, <1>4 DEF OrderInv

LEMMA OrderStep ==
  ASSUME Onward, AloneInv, AloneInv', OrderInv,
         \/ ClusterNext /\ UNCHANGED passVars
         \/ List \/ ReconcileCR \/ CallFails
         \/ \E k \in {"cm", "svc"} : CollectChild(k) /\ UNCHANGED passVars
         \/ UNCHANGED vars
  PROVE  OrderInv'
<1>0. /\ ClusterTypeOK /\ api \in Objects /\ doomed \subseteq PodIds
      /\ current \subseteq PodIds \X (0 .. MaxClock)
  BY DEF AloneInv, TypeOK, ClusterTypeOK
<1>. USE DEF LateSteps, EnsureSteps
<1>1. ASSUME ClusterChange, UNCHANGED passVars \/ Return PROVE OrderInv'
  <2>1. pc' \in LateSteps => api'.cm \in {None, DesiredConfigMap(entry')}
    BY <1>1 DEF OrderInv, ClusterChange, passVars, Return
  <2>. QED
    BY <1>1, <2>1, OrderKept DEF passVars, Return
<1>2. ASSUME api' = api, lastUid' = lastUid, UNCHANGED passVars \/ Return PROVE OrderInv'
  BY <1>1, <1>2, UnchangedChange
<1>3. CASE ClusterNext /\ UNCHANGED passVars
  BY <1>0, <1>1, <1>3, ClusterChanges
<1>4. ASSUME NEW k \in {"cm", "svc"}, CollectChild(k), UNCHANGED passVars PROVE OrderInv'
  <2>1. /\ api'.cr = api.cr /\ api'.pods = api.pods /\ lastUid' = lastUid
        /\ api'.cm \in {api.cm, None} /\ api'.svc \in {api.svc, None}
    BY <1>0, <1>4 DEF CollectChild, Objects
  <2>2. ClusterChange
    BY <2>1 DEF ClusterChange, CrChange, PodChange
  <2>. QED
    BY <1>1, <1>4, <2>2
<1>5. CASE UNCHANGED vars \/ CallFails
  BY <1>2, <1>5 DEF vars, clusterVars, CallFails
<1>6. CASE List
  <2>1. api' = api /\ lastUid' = lastUid
    BY <1>6 DEF List, clusterVars
  <2>2. CASE Return
    BY <1>2, <2>1, <2>2
  <2>3. CASE pc' \in {"listCleanup", "addFinalizer", "getConfigMap"} /\ entry' = api.cr
    BY <1>6, <2>1, <2>3, OrderBegins DEF List
  <2>. QED
    BY <1>6, <2>2, <2>3 DEF List, Parsed
<1>7. CASE AddFinalizer
  <2>1. CASE api.cr # entry
    BY <1>2, <1>7, <2>1 DEF AddFinalizer, Write
  <2>2. CASE api.cr = entry
    <3>. DEFINE updated == [entry EXCEPT !.finalizer = TRUE, !.rv = entry.rv + 1]
    <3>1. entry \in Entry /\ entry # None
      BY <1>7, NoneAssumption DEF AddFinalizer, AloneInv, TypeOK
    <3>2. Write([api EXCEPT !.cr = updated]) /\ Parsed(updated)
      BY <1>7, <2>2 DEF AddFinalizer
    <3>3. updated.spec = entry.spec /\ updated.uid = entry.uid /\ updated \in Entry
      <4>1. entry.rv + 1 \in Nat
        BY <3>1, SMTT(20) DEF Entry
      <4>. QED
        BY <3>1, <4>1, EntryUpdates DEF Entry
    <3>4. /\ api'.cr = updated /\ api'.cm = api.cm /\ api'.pods = api.pods /\ api'.cr # None
      BY <1>0, <3>2, <3>3, NoneAssumption DEF Write, Objects
    <3>5. pc' \in {"polling", "getConfigMap"} /\ (pc' = "getConfigMap" => entry' = updated)
      BY <3>2 DEF Parsed, Return
    <3>. QED
      BY <2>2, <3>1, <3>3, <3>4, <3>5, OrderBegins
  <2>. QED
    BY <2>1, <2>2
<1>8. ASSUME NEW p \in PodIds, Write([api EXCEPT !.pods = DeletePod(api.pods, p)]),
             pc' = pc, entry' = entry
      PROVE  OrderInv'
  <2>1. ClusterChange /\ api'.cm = api.cm
    BY <1>0, <1>8, DeleteChange DEF Write
  <2>2. pc' \in LateSteps => api'.cm \in {None, DesiredConfigMap(entry')}
    BY <1>8, <2>1 DEF OrderInv
  <2>. QED
    BY <1>8, <2>1, <2>2, OrderKept
<1>9. CASE CleanupPod \/ DeleteOutdated
  BY <1>0, <1>8, <1>9 DEF CleanupPod, DeleteOutdated
<1>10. CASE ScaleDown
  <2>1. PICK newest \in current : Write([api EXCEPT !.pods = DeletePod(api.pods, newest[1])])
    BY <1>10 DEF ScaleDown
  <2>2. newest[1] \in PodIds
    BY <1>0
  <2>. QED
    BY <1>8, <1>10, <2>1, <2>2 DEF ScaleDown
<1>11. CASE ListCleanup
  BY <1>11, UnchangedChange, OrderKept DEF ListCleanup, clusterVars
<1>12. CASE CleanupService \/ CleanupConfigMap
  <2>1. /\ api'.cr = api.cr /\ api'.pods = api.pods /\ lastUid' = lastUid
        /\ api'.cm \in {api.cm, None} /\ api'.svc \in {api.svc, None}
    BY <1>0, <1>12 DEF CleanupService, CleanupConfigMap, Write, Objects
  <2>2. ClusterChange
    BY <2>1 DEF ClusterChange, CrChange, PodChange
  <2>. QED
    BY <1>12, <2>2, OrderKept DEF CleanupService, CleanupConfigMap, Continue
<1>13. CASE RemoveFinalizer
  <2>1. CASE api.cr # entry
    BY <1>2, <1>13, <2>1 DEF RemoveFinalizer, Write
  <2>2. CASE api.cr = entry
    <3>1. api'.cr = None /\ api'.cm = None /\ pc' = "polling"
      BY <1>0, <1>13, <2>2 DEF RemoveFinalizer, Return, Write, Objects, AloneInv, CleanedInv
    <3>. QED
      BY <3>1 DEF OrderInv, Owned
  <2>. QED
    BY <2>1, <2>2
<1>14. CASE GetConfigMap
  <2>1. api' = api /\ lastUid' = lastUid /\ entry' = entry
    BY <1>14 DEF GetConfigMap, Get, clusterVars
  <2>2. pc' \in LateSteps => api'.cm \in {None, DesiredConfigMap(entry')}
    BY <1>14, <2>1 DEF GetConfigMap, Get
  <2>. QED
    BY <1>14, <2>1, <2>2, UnchangedChange, OrderKept DEF GetConfigMap
<1>15. CASE GetService \/ ListPods
  <2>1. api' = api /\ lastUid' = lastUid /\ entry' = entry /\ pc \in LateSteps
    BY <1>15 DEF GetService, ListPods, Get, clusterVars
  <2>2. api'.cm \in {None, DesiredConfigMap(entry')}
    BY <2>1 DEF OrderInv
  <2>. QED
    BY <2>1, <2>2, UnchangedChange, OrderKept
<1>16. CASE PutConfigMap
  <2>1. CASE api.cm # existing
    BY <1>2, <1>16, <2>1 DEF PutConfigMap, Put, Write
  <2>2. CASE api.cm = existing
    <3>1. /\ api'.cr = api.cr /\ api'.pods = api.pods /\ api'.cm = DesiredConfigMap(entry)
          /\ pc' = "getService" /\ entry' = entry
      BY <1>0, <1>16, <2>2 DEF PutConfigMap, Put, Write, Continue, Objects
    <3>. QED
      BY <1>16, <3>1, OrderPutMap DEF PutConfigMap
  <2>. QED
    BY <2>1, <2>2
<1>17. CASE PutService
  <2>1. CASE api.svc # existing
    BY <1>2, <1>17, <2>1 DEF PutService, Put, Write
  <2>2. CASE api.svc = existing
    <3>1. /\ api'.cr = api.cr /\ api'.pods = api.pods /\ api'.cm = api.cm
          /\ pc' = "listPods" /\ entry' = entry /\ pc = "putService"
      BY <1>0, <1>17, <2>2 DEF PutService, Put, Write, Continue, Objects
    <3>2. MapOrder' <=> MapOrder
      BY <3>1 DEF MapOrder
    <3>3. \A p \in PodIds : (Owned(p)' <=> Owned(p)) /\ (PodOrder(p)' <=> PodOrder(p))
      BY <3>1 DEF Owned, Exists, PodOrder
    <3>. QED
      BY <3>1, <3>2, <3>3 DEF OrderInv
  <2>. QED
    BY <2>1, <2>2
<1>18. CASE ScaleUp
  <2>1. ASSUME NEW p \in PodIds, Write([api EXCEPT !.pods[p] = DesiredPod(entry)]),
               UNCHANGED <<pc, entry, existing, doomed>>
        PROVE  OrderInv'
    <3>1. /\ api'.cr = api.cr /\ api'.cm = api.cm
          /\ \A q \in PodIds : api'.pods[q] = IF q = p THEN DesiredPod(entry) ELSE api.pods[q]
      BY <1>0, <2>1 DEF Write, Objects
    <3>. QED
      BY <1>18, <2>1, <3>1, OrderCreate DEF ScaleUp
  <2>. QED
    BY <1>2, <1>18, <2>1 DEF ScaleUp, Write
<1>19. CASE ReconcileDone
  BY <1>2, <1>19 DEF ReconcileDone, Write
<1>. QED
  BY <1>3, <1>4, <1>5, <1>6, <1>7, <1>9, <1>10, <1>11, <1>12, <1>13, <1>14, <1>15, <1>16, <1>17,
     <1>18, <1>19 DEF ReconcileCR

\* While one instance runs and edits never return to an earlier configuration,
\* running Pods of the stored spec have its environment.
THEOREM AloneEnvAlwaysMatches == Onward => (RolloutSpec => []AloneEnvMatchesHash)
<1>. SUFFICES ASSUME Onward PROVE RolloutSpec => []AloneEnvMatchesHash
  OBVIOUS
<1>1. RolloutInit => OrderInv
  <2>. SUFFICES ASSUME RolloutInit PROVE OrderInv
    OBVIOUS
  <2>1. api.cr = None /\ api.cm = None /\ pc = "polling"
    BY DEF RolloutInit, Init, ClusterInit
  <2>2. pc \notin EnsureSteps /\ pc \notin LateSteps
    BY <2>1 DEF EnsureSteps, LateSteps
  <2>. QED
    BY <2>1, <2>2 DEF OrderInv, Owned
<1>2. /\ rollout = "never" => AloneInv
      /\ (rollout = "never" => AloneInv)'
      /\ rollout = "never" => OrderInv
      /\ [RolloutNext]_rolloutVars
      => (rollout = "never" => OrderInv)'
  BY BeforeRollout, OrderStep
<1>3. AloneInv /\ OrderInv => EnvMatchesHash
  <2>. SUFFICES ASSUME AloneInv, OrderInv, NEW p \in PodIds, api.cr # None, Exists(p),
                       api.pods[p].phase = "Running",
                       api.pods[p].hash = DesiredSpecHash(api.cr)
                PROVE  api.pods[p].env = DesiredConfigData(api.cr)
    BY DEF EnvMatchesHash
  <2>. DEFINE q == api.pods[p]
  <2>1. q.hash[1][1] = api.cr.uid /\ q.hash[1][2] = api.cr.spec.config
    BY DesiredParts
  <2>2. q.owner = api.cr.uid
    BY <2>1 DEF AloneInv, StoreInv
  <2>3. PodOrder(p)
    BY <2>2 DEF OrderInv, Owned
  <2>4. q.env \in Data /\ q.env[1] = api.cr.uid /\ Leads(api.cr.spec.config, q.env[2])
        /\ Leads(q.env[2], api.cr.spec.config)
    BY <2>1, <2>2, <2>3 DEF PodOrder
  <2>. HIDE DEF q
  <2>5. q.env[2] = api.cr.spec.config
    <3>1. api.cr.spec.config \in Configs /\ q.env[2] \in Configs
      BY <2>4, ConfigTypes DEF AloneInv
    <3>2. \A d \in Configs :
            Leads(d, api.cr.spec.config) /\ Leads(api.cr.spec.config, d) => d = api.cr.spec.config
      BY <3>1, Order
    <3>. QED
      BY <2>4, <3>1, <3>2
  <2>6. q.env = <<q.env[1], q.env[2]>>
    BY <2>4, DataPairs
  <2>. QED
    BY <2>4, <2>5, <2>6, DesiredParts DEF q
<1>4. (rollout = "never" => AloneInv) /\ (rollout = "never" => OrderInv) => AloneEnvMatchesHash
  BY <1>3 DEF AloneEnvMatchesHash
<1>. QED
  BY Invariance, <1>1, <1>2, <1>4, PTL DEF RolloutSpec

-----------------------------------------------------------------------------
(* The number of Pods, before the rollout.                                 *)

\* A Pod that reconcilePods counts towards the replicas.
Counted(p) == \E c \in current : c[1] = p

\* In reconcilePods, a Pod that is not on its way out is counted or will be deleted.
CountInv ==
  pc = "reconcilePods" =>
    \A p \in PodIds : (Exists(p) /\ ~ api.pods[p].deleting) => p \in doomed \/ Counted(p)

\* A step that changes Pods as the cluster may, and drops from the counted and the
\* doomed Pods only those on their way out, keeps the invariant.
LEMMA CountKept ==
  ASSUME CountInv, pc = "reconcilePods", \A p \in PodIds : PodChange(p),
         \A p \in PodIds : (p \in doomed \/ Counted(p)) =>
           \/ p \in doomed' \/ Counted(p)'
           \/ (api'.pods[p] # None => api'.pods[p].deleting)
  PROVE  CountInv'
BY DEF CountInv, PodChange, Exists

\* Every step of one instance and of the cluster keeps the count.
LEMMA CountStep ==
  ASSUME AloneInv, CountInv,
         \/ ClusterNext /\ UNCHANGED passVars
         \/ List \/ ReconcileCR \/ CallFails
         \/ \E k \in {"cm", "svc"} : CollectChild(k) /\ UNCHANGED passVars
         \/ UNCHANGED vars
  PROVE  CountInv'
<1>1. /\ ClusterTypeOK /\ api \in Objects /\ doomed \subseteq PodIds
      /\ current \subseteq PodIds \X (0 .. MaxClock)
  BY DEF AloneInv, TypeOK, ClusterTypeOK
<1>2. CASE pc' # "reconcilePods"
  BY <1>2 DEF CountInv
<1>3. ASSUME \A p \in PodIds : PodChange(p), UNCHANGED passVars
      PROVE  CountInv'
  <2>1. CASE pc = "reconcilePods"
    <3>1. doomed' = doomed /\ \A p \in PodIds : Counted(p)' <=> Counted(p)
      BY <1>3 DEF passVars, Counted
    <3>. QED
      BY <1>3, <2>1, <3>1, CountKept
  <2>. QED
    BY <1>2, <1>3, <2>1 DEF passVars
<1>4. CASE ClusterNext /\ UNCHANGED passVars
  BY <1>1, <1>3, <1>4, ClusterChanges DEF ClusterChange
<1>5. CASE \/ \E k \in {"cm", "svc"} : CollectChild(k) /\ UNCHANGED passVars
           \/ UNCHANGED vars
  <2>1. api'.pods = api.pods /\ UNCHANGED passVars
    BY <1>1, <1>5 DEF CollectChild, Objects, vars, clusterVars
  <2>2. \A p \in PodIds : PodChange(p)
    BY <2>1 DEF PodChange
  <2>. QED
    BY <1>3, <2>1, <2>2
<1>6. CASE \/ List \/ CallFails \/ AddFinalizer \/ ListCleanup \/ CleanupPod \/ CleanupService
           \/ CleanupConfigMap \/ RemoveFinalizer \/ GetConfigMap \/ PutConfigMap
           \/ GetService \/ PutService \/ ReconcileDone
  <2>1. pc' # "reconcilePods"
    BY <1>6 DEF List, CallFails, AddFinalizer, ListCleanup, CleanupPod, CleanupService,
       CleanupConfigMap, RemoveFinalizer, GetConfigMap, PutConfigMap, GetService, PutService,
       ReconcileDone, Get, Put, Parsed, Continue, Return
  <2>. QED
    BY <1>2, <2>1
<1>7. CASE ListPods
  <2>. DEFINE listed   == {p \in PodIds : Exists(p) /\ ~ api.pods[p].deleting}
              matching == {p \in listed : /\ api.pods[p].phase # "Terminated"
                                          /\ api.pods[p].hash = DesiredSpecHash(entry)}
  <2>1. /\ api' = api /\ doomed' = listed \ matching
        /\ current' = {<<p, api.pods[p].created>> : p \in matching}
    BY <1>7 DEF ListPods, clusterVars
  <2>2. \A p \in matching : Counted(p)'
    <3>1. \A p \in matching : <<p, api.pods[p].created>> \in current'
      BY <2>1
    <3>2. \A p, c : <<p, c>>[1] = p
      BY SMTT(20)
    <3>. QED
      BY <3>1, <3>2 DEF Counted
  <2>. QED
    BY <2>1, <2>2 DEF CountInv, Exists
<1>8. CASE DeleteOutdated
  <2>1. PICK q \in doomed : /\ doomed' = doomed \ {q}
                            /\ Write([api EXCEPT !.pods = DeletePod(api.pods, q)])
    BY <1>8 DEF DeleteOutdated
  <2>2. pc = "reconcilePods" /\ \A p \in PodIds : Counted(p)' <=> Counted(p)
    BY <1>8 DEF DeleteOutdated, Counted
  <2>3. /\ \A p \in PodIds : PodChange(p)
        /\ api'.pods[q] # None => api'.pods[q].deleting
    BY <1>1, <2>1, DeleteChange DEF Write, ClusterChange
  <2>. QED
    BY <2>1, <2>2, <2>3, CountKept
<1>9. CASE ScaleDown
  <2>1. PICK newest \in current :
          /\ current' = current \ {newest}
          /\ Write([api EXCEPT !.pods = DeletePod(api.pods, newest[1])])
    BY <1>9 DEF ScaleDown
  <2>2. pc = "reconcilePods" /\ doomed' = doomed
    BY <1>9 DEF ScaleDown
  <2>3. newest[1] \in PodIds
    BY <1>1
  <2>4. /\ \A p \in PodIds : PodChange(p)
        /\ api'.pods[newest[1]] # None => api'.pods[newest[1]].deleting
    BY <1>1, <2>1, <2>3, DeleteChange DEF Write, ClusterChange
  <2>5. \A p \in PodIds : Counted(p) /\ p # newest[1] => Counted(p)'
    BY <2>1 DEF Counted
  <2>. QED
    BY <2>2, <2>4, <2>5, CountKept
<1>10. CASE ScaleUp
  <2>1. CASE Return
    BY <1>2, <2>1 DEF Return
  <2>2. ASSUME NEW q \in PodIds, current' = current \cup {<<q, clock>>},
               Write([api EXCEPT !.pods[q] = DesiredPod(entry)]), UNCHANGED doomed
        PROVE  CountInv'
    <3>1. \A p \in PodIds : p # q => api'.pods[p] = api.pods[p]
      BY <1>1, <2>2 DEF Write, Objects
    <3>2. Counted(q)' /\ \A p \in PodIds : Counted(p) => Counted(p)'
      <4>1. <<q, clock>>[1] = q
        BY SMTT(20)
      <4>. QED
        BY <2>2, <4>1 DEF Counted
    <3>. QED
      BY <1>10, <2>2, <3>1, <3>2 DEF ScaleUp, CountInv, Exists
  <2>. QED
    BY <1>10, <2>1, <2>2 DEF ScaleUp
<1>. QED
  BY <1>4, <1>5, <1>6, <1>7, <1>8, <1>9, <1>10 DEF ReconcileCR

\* A step that is not ScaleUp brings no Pod into being.
LEMMA OnlyScaleUpCreates ==
  ASSUME AloneInv, RolloutNext, rollout = "never", ~ ScaleUp, NEW p \in PodIds, ~ Exists(p)
  PROVE  ~ Exists(p)'
<1>1. /\ ClusterTypeOK /\ api \in Objects
      /\ doomed \subseteq PodIds /\ current \subseteq PodIds \X (0 .. MaxClock)
  BY DEF AloneInv, TypeOK, ClusterTypeOK
<1>2. CASE \A q \in PodIds : PodChange(q)
  BY <1>2 DEF PodChange, Exists
<1>3. CASE api'.pods = api.pods
  BY <1>3 DEF Exists
<1>4. CASE ClusterNext
  BY <1>1, <1>2, <1>4, ClusterChanges DEF ClusterChange
<1>5. CASE CleanupPod \/ DeleteOutdated
  BY <1>1, <1>2, <1>5, DeleteChange DEF CleanupPod, DeleteOutdated, Write, ClusterChange
<1>6. CASE ScaleDown
  <2>1. PICK c \in current : Write([api EXCEPT !.pods = DeletePod(api.pods, c[1])])
    BY <1>6 DEF ScaleDown
  <2>2. c[1] \in PodIds
    BY <1>1
  <2>. QED
    BY <1>1, <1>2, <2>1, <2>2, DeleteChange DEF Write, ClusterChange
<1>7. ASSUME NEW k \in {"cr", "cm", "svc"}, NEW o, api' = [api EXCEPT ![k] = o]
      PROVE  api'.pods = api.pods
  BY <1>1, <1>7 DEF Objects
<1>8. CASE \/ AddFinalizer \/ RemoveFinalizer \/ CleanupService \/ CleanupConfigMap
           \/ PutConfigMap \/ PutService \/ \E k \in {"cm", "svc"} : CollectChild(k)
  BY <1>3, <1>7, <1>8 DEF AddFinalizer, RemoveFinalizer, CleanupService, CleanupConfigMap,
     PutConfigMap, PutService, CollectChild, Put, Write
<1>9. CASE \/ List \/ ListCleanup \/ GetConfigMap \/ GetService \/ ListPods \/ ReconcileDone
           \/ CallFails \/ NewStarts
  BY <1>3, <1>9 DEF List, ListCleanup, GetConfigMap, GetService, Get, ListPods, ReconcileDone,
     CallFails, NewStarts, Write, clusterVars
<1>10. \/ ClusterNext \/ (\E k \in {"cm", "svc"} : CollectChild(k))
       \/ List \/ ReconcileCR \/ CallFails \/ NewStarts
  BY DEF RolloutNext, ClusterStep, Cluster, OldPolls, Old, NewStep, OldStops
<1>. QED
  BY <1>4, <1>5, <1>6, <1>8, <1>9, <1>10 DEF ReconcileCR

\* The theorems about finite sets.
Sets == INSTANCE FiniteSetTheorems

\* They are about the finite sets and cardinalities of this module.
LEMMA SameSets ==
  ASSUME NEW S
  PROVE  /\ Sets!IsFiniteSet(S) <=> IsFiniteSet(S)
         /\ Sets!Cardinality(S) = Cardinality(S)
<1>1. Sets!IsFiniteSet(S) <=> IsFiniteSet(S)
  BY DEF Sets!IsFiniteSet, IsFiniteSet
<1>2. Sets!Cardinality(S) = Cardinality(S)
  BY DEF Sets!Cardinality, Cardinality
<1>. QED
  BY <1>1, <1>2

\* A subset of a finite set has a size.
LEMMA FiniteSubset ==
  ASSUME NEW S, IsFiniteSet(S), NEW T \in SUBSET S
  PROVE  IsFiniteSet(T) /\ Cardinality(T) \in Nat
<1>1. Sets!IsFiniteSet(T)
  BY SameSets, Sets!FS_Subset
<1>2. Sets!Cardinality(T) \in Nat
  BY <1>1, Sets!FS_CardinalityType
<1>. QED
  BY <1>1, <1>2, SameSets

\* One more element makes a set larger by at most one.
LEMMA OneMore ==
  ASSUME NEW S, IsFiniteSet(S), NEW x
  PROVE  /\ IsFiniteSet(S \cup {x})
         /\ Cardinality(S \cup {x}) \in {Cardinality(S), Cardinality(S) + 1}
<1>1. Sets!IsFiniteSet(S)
  BY SameSets
<1>2. /\ Sets!IsFiniteSet(S \cup {x})
      /\ Sets!Cardinality(S \cup {x}) = IF x \in S THEN Sets!Cardinality(S)
                                                 ELSE Sets!Cardinality(S) + 1
  BY <1>1, Sets!FS_AddElement
<1>. QED
  BY <1>2, SameSets

\* The Pods with their timestamps are finitely many.
LEMMA FiniteEntries == IsFiniteSet(PodIds \X (0 .. MaxClock))
<1>1. 0 \in Int /\ MaxClock \in Int
  <2>1. MaxClock \in Nat
    BY BoundsAssumption
  <2>. QED
    BY <2>1, SMTT(20)
<1>2. Sets!IsFiniteSet(PodIds)
  BY BoundsAssumption, SameSets
<1>3. Sets!IsFiniteSet(0 .. MaxClock)
  BY <1>1, Sets!FS_Interval
<1>. QED
  BY <1>2, <1>3, Sets!FS_Product, SameSets

\* Nothing is counted twice: there are at most as many Pods as entries of them.
LEMMA CountedOnce ==
  ASSUME NEW A, NEW C, IsFiniteSet(C), \A p \in A : \E c \in C : c[1] = p
  PROVE  Cardinality(A) <= Cardinality(C)
<1>. DEFINE f == [p \in A |-> CHOOSE c \in C : c[1] = p]
<1>1. \A p \in A : f[p] \in C /\ f[p][1] = p
  OBVIOUS
<1>2. f \in [A -> C]
  BY <1>1
<1>. HIDE DEF f
<1>3. f \in Sets!Injection(A, C)
  BY <1>1, <1>2, SMTT(20) DEF Sets!Injection, Sets!IsInjective
<1>4. Sets!Cardinality(A) <= Sets!Cardinality(C)
  BY <1>3, Sets!FS_Injection, SameSets
<1>. QED
  BY <1>4, SameSets, SMTT(20)

\* When one instance creates a Pod, all that are not on their way
\* out are counted.
LEMMA CreatedWithin ==
  ASSUME AloneInv, CountInv, ScaleUp, NEW p \in PodIds, ~ Exists(p), Exists(p)'
  PROVE  Cardinality({q \in PodIds : Exists(q)' /\ ~ api'.pods[q].deleting})
           <= entry.spec.replicas
<1>. DEFINE A == {q \in PodIds : Exists(q)' /\ ~ api'.pods[q].deleting}
<1>1. api' # api
  BY DEF Exists
<1>2. PICK q \in PodIds : /\ current' = current \cup {<<q, clock>>}
                          /\ UNCHANGED <<pc, doomed>>
  BY <1>1 DEF ScaleUp, Write
<1>3. pc' = "reconcilePods" /\ doomed' = {} /\ Cardinality(current) < entry.spec.replicas
  BY <1>2 DEF ScaleUp
<1>4. \A r \in A : Counted(r)'
  BY <1>3, CountStep DEF ReconcileCR, CountInv
<1>5. A \in SUBSET PodIds
  OBVIOUS
<1>. HIDE DEF A
<1>6. IsFiniteSet(current) /\ Cardinality(current) \in Nat
  <2>1. current \in SUBSET (PodIds \X (0 .. MaxClock))
    BY DEF AloneInv, TypeOK
  <2>. QED
    BY <2>1, FiniteEntries, FiniteSubset
<1>7. /\ IsFiniteSet(current')
      /\ Cardinality(current') \in {Cardinality(current), Cardinality(current) + 1}
  BY <1>2, <1>6, OneMore
<1>8. Cardinality(A) <= Cardinality(current')
  BY <1>4, <1>7, CountedOnce DEF Counted
<1>9. Cardinality(A) \in Nat
  BY <1>5, BoundsAssumption, FiniteSubset
<1>10. entry.spec.replicas \in Nat
  <2>1. entry \in Entry
    BY DEF ScaleUp, AloneInv, TypeOK
  <2>. QED
    BY <2>1, SpecsAssumption, SMTT(20) DEF Entry
<1>11. Cardinality(A) <= entry.spec.replicas
  BY <1>3, <1>6, <1>7, <1>8, <1>9, <1>10, SMTT(20)
<1>. QED
  BY <1>11 DEF A

\* While one instance runs, reconcilePods creates no Pod beyond the replicas, for any
\* number of Pods, edits, faults and incarnations.
THEOREM AloneCreatesNoSurplus == RolloutSpec => AloneNoSurplus
<1>. DEFINE Within == (rollout = "never" /\ \E p \in PodIds : ~ Exists(p) /\ Exists(p)')
                        => Cardinality({p \in PodIds : Exists(p)' /\ ~ api'.pods[p].deleting})
                             <= entry.spec.replicas
            Inv == rollout = "never" => AloneInv /\ CountInv
<1>1. RolloutInit => Inv
  BY AloneStart DEF RolloutInit, Init, CountInv
<1>2. Inv /\ [RolloutNext]_rolloutVars => Inv'
  <2>. SUFFICES ASSUME Inv, [RolloutNext]_rolloutVars, rollout' = "never"
                PROVE  (AloneInv /\ CountInv)'
    OBVIOUS
  <2>. QED
    BY BeforeRollout, AloneStep, CountStep
<1>3. Inv /\ [RolloutNext]_rolloutVars => [Within]_rolloutVars
  <2>. SUFFICES ASSUME AloneInv, CountInv, RolloutNext, rollout = "never",
                       NEW p \in PodIds, ~ Exists(p), Exists(p)'
                PROVE  Cardinality({q \in PodIds : Exists(q)' /\ ~ api'.pods[q].deleting})
                         <= entry.spec.replicas
    OBVIOUS
  <2>. QED
    BY OnlyScaleUpCreates, CreatedWithin
<1>. QED
  BY <1>1, <1>2, <1>3, PTL DEF RolloutSpec, AloneNoSurplus
=============================================================================
