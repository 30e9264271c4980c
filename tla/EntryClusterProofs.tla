------------------------- MODULE EntryClusterProofs -------------------------
(***************************************************************************)
(* Lemmas about EntryCluster that the proofs about both controllers use:   *)
(* the cluster keeps its state well typed, what it may change, and which   *)
(* changes of the stored objects are steps of ManagedEntry.                *)
(***************************************************************************)
EXTENDS EntryCluster, TLAPS

\* The prover of the steps that name no other.
USE ZenonT(40)

\* A graceful delete keeps the Pods well typed.
LEMMA DeletePodType ==
  ASSUME NEW pods \in [PodIds -> Pod \cup {None}], NEW p \in PodIds
  PROVE  DeletePod(pods, p) \in [PodIds -> Pod \cup {None}]
<1>1. CASE pods[p] = None
  BY <1>1 DEF DeletePod
<1>2. CASE pods[p] # None
  <2>1. pods[p] \in Pod
    BY <1>2
  <2>2. [pods[p] EXCEPT !.deleting = TRUE] \in Pod
    BY <2>1 DEF Pod
  <2>. QED
    BY <1>2, <2>2 DEF DeletePod
<1>. QED
  BY <1>1, <1>2

\* The stored objects, kind by kind.
LEMMA ObjectsComponents ==
  ASSUME NEW o \in Objects
  PROVE  /\ o.cr \in Entry \cup {None}
         /\ o.cm \in ConfigMap \cup {None}
         /\ o.svc \in Service \cup {None}
         /\ o.pods \in [PodIds -> Pod \cup {None}]
BY DEF Objects

\* Storing one well-typed object keeps the store well typed.
LEMMA StoreTypes ==
  ASSUME NEW o \in Objects
  PROVE  /\ \A e \in Entry \cup {None} : [o EXCEPT !.cr = e] \in Objects
         /\ \A c \in ConfigMap \cup {None} : [o EXCEPT !.cm = c] \in Objects
         /\ \A s \in Service \cup {None} : [o EXCEPT !.svc = s] \in Objects
         /\ \A ps \in [PodIds -> Pod \cup {None}] : [o EXCEPT !.pods = ps] \in Objects
BY DEF Objects

\* The updates users and the controller make to a CR leave a CR.
LEMMA EntryUpdates ==
  ASSUME NEW e \in Entry, NEW n \in Nat
  PROVE  /\ \A s \in Specs : [e EXCEPT !.spec = s, !.rv = n] \in Entry
         /\ [e EXCEPT !.deleting = TRUE, !.rv = n] \in Entry
         /\ [e EXCEPT !.finalizer = TRUE, !.rv = n] \in Entry
BY DEF Entry

\* Creating, editing and deleting the CR keeps the store well typed.
LEMMA UserType ==
  ASSUME ClusterTypeOK, User
  PROVE  ClusterTypeOK'
<1>. USE SpecsAssumption, BoundsAssumption
<1>1. /\ api \in Objects
      /\ api.cr \in Entry \cup {None}
      /\ lastUid \in 0 .. MaxUid
  BY ObjectsComponents DEF ClusterTypeOK
<1>2. CASE CreateEntry
  <2>. DEFINE new(s) == [uid |-> lastUid + 1, spec |-> s, deleting |-> FALSE,
                         finalizer |-> FALSE, rv |-> 1]
  <2>1. lastUid + 1 \in Uids
    BY <1>1, <1>2, SMTT(20) DEF CreateEntry, Uids
  <2>2. PICK s \in Specs : api' = [api EXCEPT !.cr = new(s)]
    BY <1>2 DEF CreateEntry
  <2>3. new(s) \in Entry
    BY <2>1 DEF Entry
  <2>4. api' \in Objects
    BY <1>1, <2>2, <2>3, StoreTypes
  <2>. QED
    BY <1>2, <2>1, <2>4, SMTT(20) DEF CreateEntry, ClusterTypeOK, Uids
<1>3. CASE EditEntry
  <2>1. PICK s \in Specs : api' = [api EXCEPT !.cr.spec = s, !.cr.rv = @ + 1]
    BY <1>3 DEF EditEntry
  <2>2. api.cr \in Entry
    BY <1>1, <1>3 DEF EditEntry
  <2>. DEFINE e == [api.cr EXCEPT !.spec = s, !.rv = api.cr.rv + 1]
  <2>3. e \in Entry
    <3>1. api.cr.rv + 1 \in Nat
      BY <2>2, SMTT(20) DEF Entry
    <3>. QED
      BY <2>2, <3>1, EntryUpdates
  <2>4. api' = [api EXCEPT !.cr = e]
    BY <1>1, <2>1, <2>2 DEF Objects, Entry
  <2>. QED
    BY <1>1, <1>3, <2>3, <2>4, StoreTypes DEF EditEntry, ClusterTypeOK
<1>4. CASE DeleteEntry
  <2>1. api.cr \in Entry
    BY <1>1, <1>4 DEF DeleteEntry
  <2>. DEFINE e == [api.cr EXCEPT !.deleting = TRUE, !.rv = api.cr.rv + 1]
  <2>2. e \in Entry
    <3>1. api.cr.rv + 1 \in Nat
      BY <2>1, SMTT(20) DEF Entry
    <3>. QED
      BY <2>1, <3>1, EntryUpdates
  <2>3. api' = [api EXCEPT !.cr = e] \/ api' = [api EXCEPT !.cr = None]
    BY <1>1, <1>4, <2>1 DEF DeleteEntry, Objects, Entry
  <2>. QED
    BY <1>1, <1>4, <2>2, <2>3, StoreTypes, SMTT(20) DEF DeleteEntry, ClusterTypeOK
<1>. QED
  BY <1>2, <1>3, <1>4 DEF User

\* Storing one Pod, or dropping it, keeps the store well typed.
LEMMA StorePodType ==
  ASSUME NEW o \in Objects, NEW p \in PodIds, NEW q \in Pod \cup {None}
  PROVE  [o EXCEPT !.pods = [o.pods EXCEPT ![p] = q]] \in Objects
<1>1. [o.pods EXCEPT ![p] = q] \in [PodIds -> Pod \cup {None}]
  BY ObjectsComponents
<1>. QED
  BY <1>1, StoreTypes

\* The kubelet keeps the store well typed.
LEMMA KubeletType ==
  ASSUME ClusterTypeOK, NEW p \in PodIds, Kubelet(p)
  PROVE  ClusterTypeOK'
<1>. USE BoundsAssumption
<1>1. /\ api \in Objects
      /\ api.pods \in [PodIds -> Pod \cup {None}]
      /\ api.cm \in ConfigMap \cup {None}
      /\ faults \in 0 .. MaxFaults
      /\ MaxFaults \in Nat
  BY ObjectsComponents DEF ClusterTypeOK
<1>2. api.pods[p] \in Pod
  BY <1>1 DEF Kubelet, StartPod, RestartContainer, PodFails, PodGone, Exists
<1>3. CASE StartPod(p)
  <2>1. api.cm.data \in Data
    BY <1>1, <1>3 DEF StartPod, ConfigMap
  <2>. DEFINE q == [api.pods[p] EXCEPT !.phase = "Running", !.env = api.cm.data]
  <2>2. q \in Pod
    BY <1>2, <2>1 DEF Pod
  <2>3. api' = [api EXCEPT !.pods = [api.pods EXCEPT ![p] = q]]
    BY <1>1, <1>2, <1>3 DEF StartPod, Objects, Pod
  <2>4. api' \in Objects
    BY <1>1, <2>2, <2>3, StorePodType
  <2>. QED
    BY <1>3, <2>4 DEF StartPod, ClusterTypeOK
<1>4. CASE RestartContainer(p)
  <2>1. api.cm.data \in Data
    BY <1>1, <1>4 DEF RestartContainer, ConfigMap
  <2>. DEFINE q == [api.pods[p] EXCEPT !.env = api.cm.data]
  <2>2. q \in Pod
    BY <1>2, <2>1 DEF Pod
  <2>3. api' = [api EXCEPT !.pods = [api.pods EXCEPT ![p] = q]]
    BY <1>1, <1>2, <1>4 DEF RestartContainer, Objects, Pod
  <2>4. api' \in Objects
    BY <1>1, <2>2, <2>3, StorePodType
  <2>. QED
    BY <1>1, <1>4, <2>4, SMTT(20) DEF RestartContainer, Fault, ClusterTypeOK
<1>5. CASE PodFails(p)
  <2>. DEFINE q == [api.pods[p] EXCEPT !.phase = "Terminated"]
  <2>2. q \in Pod
    BY <1>2 DEF Pod
  <2>3. api' = [api EXCEPT !.pods = [api.pods EXCEPT ![p] = q]]
    BY <1>1, <1>2, <1>5 DEF PodFails, Objects, Pod
  <2>4. api' \in Objects
    BY <1>1, <2>2, <2>3, StorePodType
  <2>. QED
    BY <1>1, <1>5, <2>4, SMTT(20) DEF PodFails, Fault, ClusterTypeOK
<1>6. CASE PodGone(p)
  <2>1. api' = [api EXCEPT !.pods = [api.pods EXCEPT ![p] = None]]
    BY <1>1, <1>6 DEF PodGone, Objects
  <2>2. api' \in Objects
    BY <1>1, <2>1, StorePodType
  <2>. QED
    BY <1>6, <2>2 DEF PodGone, ClusterTypeOK
<1>. QED
  BY <1>3, <1>4, <1>5, <1>6 DEF Kubelet

\* Every step of the cluster keeps the state well typed.
LEMMA ClusterType ==
  ASSUME ClusterTypeOK, ClusterNext
  PROVE  ClusterTypeOK'
<1>. USE BoundsAssumption
<1>1. /\ api \in Objects
      /\ api.pods \in [PodIds -> Pod \cup {None}]
      /\ faults \in 0 .. MaxFaults
      /\ MaxFaults \in Nat
  BY ObjectsComponents DEF ClusterTypeOK
<1>2. CASE User
  BY <1>2, UserType
<1>3. ASSUME NEW p \in PodIds, Kubelet(p)
      PROVE  ClusterTypeOK'
  BY <1>3, KubeletType
<1>4. ASSUME NEW p \in PodIds, CollectPod(p) \/ DriftPod(p)
      PROVE  ClusterTypeOK'
  <2>1. DeletePod(api.pods, p) \in [PodIds -> Pod \cup {None}]
    BY <1>1, DeletePodType
  <2>2. api' \in Objects
    BY <1>1, <1>4, <2>1, StoreTypes DEF CollectPod, DriftPod
  <2>. QED
    BY <1>1, <1>4, <2>2, SMTT(20) DEF CollectPod, DriftPod, Fault, ClusterTypeOK
<1>5. ASSUME NEW k \in {"cm", "svc"}, DriftChild(k)
      PROVE  ClusterTypeOK'
  <2>1. api' = [api EXCEPT !.cm = None] \/ api' = [api EXCEPT !.svc = None]
    BY <1>5 DEF DriftChild
  <2>2. api' \in Objects
    BY <1>1, <2>1, StoreTypes, SMTT(20), ZenonT(40)
  <2>. QED
    BY <1>1, <1>5, <2>2, SMTT(20) DEF DriftChild, Fault, ClusterTypeOK
<1>6. CASE NextSecond
  BY <1>6, SMTT(20) DEF NextSecond, ClusterTypeOK
<1>. QED
  BY <1>2, <1>3, <1>4, <1>5, <1>6 DEF ClusterNext

-----------------------------------------------------------------------------
(* What a step of the cluster may change.                                  *)

\* The CR stays, is created, is edited or marked, or goes at once when it has no
\* finalizer.
CrChange ==
  \/ api'.cr = api.cr /\ lastUid' = lastUid
  \/ /\ api.cr = None /\ api'.cr # None
     /\ api'.cr.uid = lastUid + 1 /\ lastUid' = lastUid + 1
     /\ ~ api'.cr.finalizer /\ ~ api'.cr.deleting
  \/ /\ api.cr # None /\ api'.cr # None
     /\ api'.cr.uid = api.cr.uid /\ lastUid' = lastUid
     /\ api'.cr.finalizer = api.cr.finalizer
     /\ \/ api'.cr.deleting = api.cr.deleting
        \/ api.cr.finalizer /\ ~ api.cr.deleting /\ api'.cr.deleting
     /\ api'.cr.spec = api.cr.spec \/ <<api.cr.spec, api'.cr.spec>> \in Edits
  \/ /\ api.cr # None /\ ~ api.cr.finalizer /\ api'.cr = None
     /\ lastUid' = lastUid

\* No Pod appears or changes owner or hash, a deletion mark stays, and a Pod gets
\* its environment from the ConfigMap.
PodChange(p) ==
  api'.pods[p] # None =>
    /\ api.pods[p] # None
    /\ api'.pods[p].owner = api.pods[p].owner
    /\ api'.pods[p].hash = api.pods[p].hash
    /\ api.pods[p].deleting => api'.pods[p].deleting
    /\ \/ api'.pods[p].phase # "Running"
       \/ api'.pods[p].phase = api.pods[p].phase /\ api'.pods[p].env = api.pods[p].env
       \/ api.cm # None /\ api'.pods[p].env = api.cm.data

ClusterChange ==
  /\ CrChange
  /\ \A p \in PodIds : PodChange(p)
  /\ api'.cm \in {api.cm, None}
  /\ api'.svc \in {api.svc, None}

LEMMA UserChange ==
  ASSUME ClusterTypeOK, User
  PROVE  ClusterChange
<1>1. api \in Objects /\ api.cr \in Entry \cup {None}
  BY ObjectsComponents DEF ClusterTypeOK
<1>2. CASE CreateEntry
  <2>1. PICK s \in Specs :
          api' = [api EXCEPT !.cr = [uid |-> lastUid + 1, spec |-> s, deleting |-> FALSE,
                                     finalizer |-> FALSE, rv |-> 1]]
    BY <1>2 DEF CreateEntry
  <2>2. lastUid + 1 \in Uids
    BY <1>2, BoundsAssumption, SMTT(20) DEF CreateEntry, ClusterTypeOK, Uids
  <2>3. [uid |-> lastUid + 1, spec |-> s, deleting |-> FALSE, finalizer |-> FALSE,
         rv |-> 1] \in Entry
    BY <2>2 DEF Entry
  <2>4. /\ api'.cr # None /\ api'.cr.uid = lastUid + 1
        /\ ~ api'.cr.finalizer /\ ~ api'.cr.deleting
        /\ api'.pods = api.pods /\ api'.cm = api.cm /\ api'.svc = api.svc
    BY <1>1, <2>1, <2>3, NoneAssumption DEF Objects
  <2>. QED
    BY <1>2, <2>4 DEF CreateEntry, ClusterChange, CrChange, PodChange
<1>3. CASE EditEntry
  <2>1. api.cr \in Entry
    BY <1>1, <1>3 DEF EditEntry
  <2>2. PICK s \in Specs : /\ api' = [api EXCEPT !.cr.spec = s, !.cr.rv = @ + 1]
                           /\ <<api.cr.spec, s>> \in Edits
    BY <1>3 DEF EditEntry
  <2>3. /\ api'.cr = [api.cr EXCEPT !.spec = s, !.rv = api.cr.rv + 1]
        /\ api'.pods = api.pods /\ api'.cm = api.cm /\ api'.svc = api.svc
    BY <1>1, <2>1, <2>2 DEF Objects, Entry
  <2>4. api'.cr \in Entry
    <3>1. api.cr.rv + 1 \in Nat
      BY <2>1, SMTT(20) DEF Entry
    <3>2. [api.cr EXCEPT !.spec = s, !.rv = api.cr.rv + 1] \in Entry
      BY <2>1, <3>1, EntryUpdates
    <3>. QED
      BY <2>3, <3>2
  <2>5. /\ api'.cr # None /\ api'.cr.uid = api.cr.uid /\ api'.cr.spec = s
        /\ api'.cr.finalizer = api.cr.finalizer /\ api'.cr.deleting = api.cr.deleting
    BY <2>1, <2>3, <2>4, NoneAssumption DEF Entry
  <2>. QED
    BY <1>3, <2>2, <2>3, <2>5 DEF EditEntry, ClusterChange, CrChange, PodChange
<1>4. CASE DeleteEntry
  <2>1. api.cr \in Entry
    BY <1>1, <1>4 DEF DeleteEntry
  <2>2. CASE api.cr.finalizer
    <3>1. /\ api'.cr = [api.cr EXCEPT !.deleting = TRUE, !.rv = api.cr.rv + 1]
          /\ api'.pods = api.pods /\ api'.cm = api.cm /\ api'.svc = api.svc
      BY <1>1, <1>4, <2>1, <2>2 DEF DeleteEntry, Objects, Entry
    <3>2. api.cr.rv + 1 \in Nat
      BY <2>1, SMTT(20) DEF Entry
    <3>3. api'.cr \in Entry
      BY <2>1, <3>1, <3>2, EntryUpdates
    <3>4. /\ api'.cr # None /\ api'.cr.uid = api.cr.uid /\ api'.cr.spec = api.cr.spec
          /\ api'.cr.finalizer = api.cr.finalizer /\ api'.cr.deleting
      BY <2>1, <3>1, <3>3, NoneAssumption DEF Entry
    <3>. QED
      BY <1>4, <2>2, <3>1, <3>4 DEF DeleteEntry, ClusterChange, CrChange, PodChange
  <2>3. CASE ~ api.cr.finalizer
    <3>1. /\ api'.cr = None
          /\ api'.pods = api.pods /\ api'.cm = api.cm /\ api'.svc = api.svc
      BY <1>1, <1>4, <2>3 DEF DeleteEntry, Objects
    <3>. QED
      BY <1>4, <2>3, <3>1 DEF DeleteEntry, ClusterChange, CrChange, PodChange
  <2>. QED
    BY <2>2, <2>3
<1>. QED
  BY <1>2, <1>3, <1>4 DEF User

\* One Pod changes or goes, the rest stays.
LEMMA OnePodChange ==
  ASSUME ClusterTypeOK, NEW p \in PodIds, NEW q, lastUid' = lastUid,
         api' = [api EXCEPT !.pods = [api.pods EXCEPT ![p] = q]],
         q # None => /\ api.pods[p] # None
                     /\ q.owner = api.pods[p].owner
                     /\ q.hash = api.pods[p].hash
                     /\ api.pods[p].deleting => q.deleting
                     /\ \/ q.phase # "Running"
                        \/ q.phase = api.pods[p].phase /\ q.env = api.pods[p].env
                        \/ api.cm # None /\ q.env = api.cm.data
  PROVE  ClusterChange
<1>1. api \in Objects /\ api.pods \in [PodIds -> Pod \cup {None}]
  BY ObjectsComponents DEF ClusterTypeOK
<1>2. /\ api'.cr = api.cr /\ api'.cm = api.cm /\ api'.svc = api.svc
      /\ api'.pods = [api.pods EXCEPT ![p] = q]
  BY <1>1 DEF Objects
<1>3. \A r \in PodIds : PodChange(r)
  BY <1>1, <1>2, SMTT(20) DEF PodChange
<1>. QED
  BY <1>2, <1>3 DEF ClusterChange, CrChange

LEMMA KubeletChange ==
  ASSUME ClusterTypeOK, NEW p \in PodIds, Kubelet(p)
  PROVE  ClusterChange
<1>1. /\ api \in Objects
      /\ api.pods \in [PodIds -> Pod \cup {None}]
      /\ lastUid' = lastUid
  BY ObjectsComponents DEF ClusterTypeOK, Kubelet, StartPod, RestartContainer, PodFails, PodGone
<1>2. api.pods[p] # None /\ api.pods[p] \in Pod
  BY <1>1 DEF Kubelet, StartPod, RestartContainer, PodFails, PodGone, Exists
<1>3. CASE StartPod(p)
  <2>. DEFINE q == [api.pods[p] EXCEPT !.phase = "Running", !.env = api.cm.data]
  <2>1. api' = [api EXCEPT !.pods = [api.pods EXCEPT ![p] = q]] /\ api.cm # None
    BY <1>1, <1>2, <1>3 DEF StartPod, Objects, Pod
  <2>2. /\ q.owner = api.pods[p].owner /\ q.hash = api.pods[p].hash
        /\ q.deleting = api.pods[p].deleting /\ q.env = api.cm.data
    BY <1>2 DEF Pod
  <2>. QED
    BY <1>1, <1>2, <2>1, <2>2, OnePodChange
<1>4. CASE RestartContainer(p)
  <2>. DEFINE q == [api.pods[p] EXCEPT !.env = api.cm.data]
  <2>1. api' = [api EXCEPT !.pods = [api.pods EXCEPT ![p] = q]] /\ api.cm # None
    BY <1>1, <1>2, <1>4 DEF RestartContainer, Objects, Pod
  <2>2. /\ q.owner = api.pods[p].owner /\ q.hash = api.pods[p].hash
        /\ q.deleting = api.pods[p].deleting /\ q.env = api.cm.data
    BY <1>2 DEF Pod
  <2>. QED
    BY <1>1, <1>2, <2>1, <2>2, OnePodChange
<1>5. CASE PodFails(p)
  <2>. DEFINE q == [api.pods[p] EXCEPT !.phase = "Terminated"]
  <2>1. api' = [api EXCEPT !.pods = [api.pods EXCEPT ![p] = q]]
    BY <1>1, <1>2, <1>5 DEF PodFails, Objects, Pod
  <2>2. /\ q.owner = api.pods[p].owner /\ q.hash = api.pods[p].hash
        /\ q.deleting = api.pods[p].deleting /\ q.phase = "Terminated"
    BY <1>2 DEF Pod
  <2>. QED
    BY <1>1, <1>2, <2>1, <2>2, OnePodChange
<1>6. CASE PodGone(p)
  <2>1. api' = [api EXCEPT !.pods = [api.pods EXCEPT ![p] = None]]
    BY <1>1, <1>6 DEF PodGone, Objects
  <2>. QED
    BY <1>1, <2>1, OnePodChange
<1>. QED
  BY <1>3, <1>4, <1>5, <1>6 DEF Kubelet

\* A delete, by whomever.
LEMMA DeleteChange ==
  ASSUME ClusterTypeOK, NEW p \in PodIds, lastUid' = lastUid,
         api' = [api EXCEPT !.pods = DeletePod(api.pods, p)]
  PROVE  /\ ClusterChange
         /\ api'.cr = api.cr /\ api'.cm = api.cm /\ api'.svc = api.svc
         /\ api'.pods[p] # None => api'.pods[p].deleting
<1>1. api \in Objects /\ api.pods \in [PodIds -> Pod \cup {None}]
  BY ObjectsComponents DEF ClusterTypeOK
<1>2. /\ api'.cr = api.cr /\ api'.cm = api.cm /\ api'.svc = api.svc
      /\ api'.pods = DeletePod(api.pods, p)
  BY <1>1 DEF Objects
<1>3. CASE api.pods[p] = None
  BY <1>2, <1>3 DEF DeletePod, ClusterChange, CrChange, PodChange
<1>4. CASE api.pods[p] # None
  <2>. DEFINE q == [api.pods[p] EXCEPT !.deleting = TRUE]
  <2>1. api' = [api EXCEPT !.pods = [api.pods EXCEPT ![p] = q]] /\ api.pods[p] \in Pod
    BY <1>1, <1>4 DEF DeletePod, Objects
  <2>2. /\ q.owner = api.pods[p].owner /\ q.hash = api.pods[p].hash
        /\ q.deleting /\ q.phase = api.pods[p].phase /\ q.env = api.pods[p].env
    BY <2>1 DEF Pod
  <2>3. api'.pods[p] = q
    BY <1>1, <1>2, <1>4, SMTT(20) DEF DeletePod
  <2>4. ClusterChange
    BY <1>1, <1>4, <2>1, <2>2, OnePodChange
  <2>. QED
    BY <1>2, <2>2, <2>3, <2>4
<1>. QED
  BY <1>3, <1>4, <1>2

LEMMA UnchangedChange ==
  ASSUME api' = api, lastUid' = lastUid
  PROVE  ClusterChange
BY DEF ClusterChange, CrChange, PodChange

\* Every step of the cluster is such a change.
LEMMA ClusterChanges ==
  ASSUME ClusterTypeOK, ClusterNext
  PROVE  ClusterChange
<1>1. api \in Objects
  BY DEF ClusterTypeOK
<1>2. CASE User
  BY <1>2, UserChange
<1>3. ASSUME NEW p \in PodIds, Kubelet(p)
      PROVE  ClusterChange
  BY <1>3, KubeletChange
<1>4. ASSUME NEW p \in PodIds, CollectPod(p) \/ DriftPod(p)
      PROVE  ClusterChange
  BY <1>1, <1>4, DeleteChange DEF CollectPod, DriftPod
<1>5. ASSUME NEW k \in {"cm", "svc"}, DriftChild(k)
      PROVE  ClusterChange
  <2>1. /\ api'.cr = api.cr /\ api'.pods = api.pods /\ lastUid' = lastUid
        /\ api'.cm \in {api.cm, None} /\ api'.svc \in {api.svc, None}
    BY <1>1, <1>5 DEF DriftChild, Objects
  <2>. QED
    BY <2>1 DEF ClusterChange, CrChange, PodChange
<1>6. CASE NextSecond
  BY <1>6, UnchangedChange DEF NextSecond
<1>. QED
  BY <1>2, <1>3, <1>4, <1>5, <1>6 DEF ClusterNext

-----------------------------------------------------------------------------
(* Edits that never return to an earlier configuration.                    *)

Ordered(rank) ==
  \A e \in Edits : \/ e[1].config = e[2].config
                   \/ rank[e[1].config] < rank[e[2].config]

Onward == \E rank \in [Configs -> Nat] : Ordered(rank)

Rank == CHOOSE rank \in [Configs -> Nat] : Ordered(rank)

\* The configuration d is c, or may come after it and never before.
Leads(c, d) == c = d \/ Rank[c] < Rank[d]

LEMMA Order ==
  ASSUME Onward
  PROVE  /\ \A s, t \in Specs : <<s, t>> \in Edits => Leads(s.config, t.config)
         /\ \A c, d, e \in Configs : Leads(c, d) /\ Leads(d, e) => Leads(c, e)
         /\ \A c, d \in Configs : Leads(c, d) /\ Leads(d, c) => c = d
<1>1. Rank \in [Configs -> Nat] /\ Ordered(Rank)
  BY DEF Onward, Rank
<1>2. \A s, t \in Specs : <<s, t>> \in Edits => Leads(s.config, t.config)
  BY <1>1 DEF Ordered, Leads
<1>3. \A c \in Configs : Rank[c] \in Nat
  BY <1>1
<1>. HIDE DEF Rank
<1>. QED
  BY <1>2, <1>3, SMTT(20) DEF Leads

-----------------------------------------------------------------------------
(* The stored objects as ManagedEntry sees them.                           *)

\* A change that ManagedEntry allows, or does not see.
ManagedStep == Managed!Next \/ UNCHANGED Managed!managedVars

\* At first nothing is stored.
LEMMA ManagedInit == ClusterInit => Managed!Init
BY SMTT(20) DEF ClusterInit, Managed!Init, Managed!Singles, Phase, Owner

\* Neither ConfigMap nor Service is stored.
LEMMA NoSingles ==
  ASSUME api.cm = None, api.svc = None
  PROVE  Managed!Bare
BY DEF Managed!Bare, Managed!Singles, Owner

\* Objects that go are lost to their owner; everything else is as before.
LEMMA LoseManaged ==
  ASSUME api'.cr = api.cr, lastUid' = lastUid,
         api'.cm \in {api.cm, None}, api'.svc \in {api.svc, None},
         \A p \in PodIds : api'.pods[p] # None => /\ api.pods[p] # None
                                                  /\ api'.pods[p].owner = api.pods[p].owner
  PROVE  ManagedStep
<1>. DEFINE singles == [k \in {"cm", "svc"} |-> Owner(api[k])]
            pods == [p \in PodIds |-> Owner(api.pods[p])]
            goneSingles == {k \in {"cm", "svc"} : Owner(api'[k]) = None}
            gonePods == {p \in PodIds : Owner(api'.pods[p]) = None}
<1>1. \A k \in {"cm", "svc"} : Owner(api'[k]) \in {Owner(api[k]), None}
  BY DEF Owner
<1>2. \A p \in PodIds : Owner(api'.pods[p]) \in {Owner(api.pods[p]), None}
  BY DEF Owner
<1>3. singles' = Managed!Without(singles, goneSingles)
  BY <1>1 DEF Managed!Without
<1>4. pods' = Managed!Without(pods, gonePods)
  BY <1>2 DEF Managed!Without
<1>5. Phase' = Phase
  BY DEF Phase
<1>6. Managed!Lose
  BY <1>3, <1>4, <1>5 DEF Managed!Lose, Managed!Singles
<1>. QED
  BY <1>6 DEF ManagedStep, Managed!Next

\* A step that leaves the stored objects alone is not seen.
LEMMA QuietManaged ==
  ASSUME api' = api, lastUid' = lastUid
  PROVE  ManagedStep
BY LoseManaged

\* Nothing but the CR changes.
OnlyCr == api'.cm = api.cm /\ api'.svc = api.svc /\ api'.pods = api.pods

LEMMA SameSingles ==
  ASSUME api'.cm = api.cm, api'.svc = api.svc
  PROVE  [k \in {"cm", "svc"} |-> Owner(api[k])]' = [k \in {"cm", "svc"} |-> Owner(api[k])]
BY DEF Owner

LEMMA SamePods ==
  ASSUME api'.pods = api.pods
  PROVE  [p \in PodIds |-> Owner(api.pods[p])]' = [p \in PodIds |-> Owner(api.pods[p])]
BY DEF Owner

LEMMA OnlyCrOwners ==
  ASSUME OnlyCr
  PROVE  /\ [k \in {"cm", "svc"} |-> Owner(api[k])]' = [k \in {"cm", "svc"} |-> Owner(api[k])]
         /\ [p \in PodIds |-> Owner(api.pods[p])]' = [p \in PodIds |-> Owner(api.pods[p])]
BY SameSingles, SamePods DEF OnlyCr

\* What users do to the CR, when a CR that is absent or without finalizer has
\* neither ConfigMap nor Service.
LEMMA CrManaged ==
  ASSUME OnlyCr, CrChange,
         (api.cr = None \/ ~ api.cr.finalizer) => api.cm = None /\ api.svc = None
  PROVE  ManagedStep
<1>1. CASE Phase' = Phase /\ lastUid' = lastUid
  BY <1>1, OnlyCrOwners DEF ManagedStep, Managed!managedVars
<1>2. CASE api.cr = None /\ api'.cr # None
  <2>1. Phase = "absent" /\ Phase' = "new" /\ lastUid' = lastUid + 1
    BY <1>2 DEF CrChange, Phase
  <2>. QED
    BY <1>2, <2>1, OnlyCrOwners, NoSingles DEF ManagedStep, Managed!Next, Managed!Create
<1>3. CASE api.cr # None /\ api'.cr # None
  <2>1. lastUid' = lastUid /\ (Phase' = Phase \/ (Phase = "guarded" /\ Phase' = "marked"))
    BY <1>3 DEF CrChange, Phase
  <2>. QED
    BY <1>1, <2>1, OnlyCrOwners DEF ManagedStep, Managed!Next, Managed!Mark
<1>4. CASE api.cr # None /\ api'.cr = None
  <2>1. Phase \in {"new", "marked"} /\ Phase' = "absent" /\ ~ api.cr.finalizer /\ lastUid' = lastUid
    BY <1>4 DEF CrChange, Phase
  <2>. QED
    BY <2>1, OnlyCrOwners, NoSingles DEF ManagedStep, Managed!Next, Managed!Vanish
<1>5. CASE api'.cr = api.cr /\ lastUid' = lastUid
  BY <1>1, <1>5 DEF Phase
<1>. QED
  BY <1>2, <1>3, <1>4, <1>5 DEF CrChange

\* Every step of the cluster, under the same condition.
LEMMA ClusterManaged ==
  ASSUME ClusterTypeOK, ClusterNext,
         (api.cr = None \/ ~ api.cr.finalizer) => api.cm = None /\ api.svc = None
  PROVE  ManagedStep
<1>1. ClusterChange /\ api \in Objects
  BY ClusterChanges DEF ClusterTypeOK
<1>2. CASE api'.cr = api.cr /\ lastUid' = lastUid
  BY <1>1, <1>2, LoseManaged DEF ClusterChange, PodChange
<1>3. CASE User
  <2>1. OnlyCr
    BY <1>1, <1>3 DEF User, CreateEntry, EditEntry, DeleteEntry, OnlyCr, Objects
  <2>. QED
    BY <1>1, <2>1, CrManaged DEF ClusterChange
<1>4. ASSUME NEW p \in PodIds, Kubelet(p) \/ CollectPod(p) \/ DriftPod(p)
      PROVE  api'.cr = api.cr /\ lastUid' = lastUid
  BY <1>1, <1>4 DEF Kubelet, StartPod, RestartContainer, PodFails, PodGone, CollectPod, DriftPod,
                    Objects
<1>5. ASSUME NEW k \in {"cm", "svc"}, DriftChild(k)
      PROVE  api'.cr = api.cr /\ lastUid' = lastUid
  BY <1>1, <1>5 DEF DriftChild, Objects
<1>6. NextSecond => api'.cr = api.cr /\ lastUid' = lastUid
  BY DEF NextSecond
<1>. QED
  BY <1>2, <1>3, <1>4, <1>5, <1>6 DEF ClusterNext

\* A ConfigMap or Service is made for the CR that exists under its finalizer.
LEMMA AdoptManaged ==
  ASSUME api \in Objects, NEW k \in {"cm", "svc"}, NEW o, o # None, o.owner = lastUid,
         api.cr # None, api.cr.finalizer, lastUid' = lastUid, api' = [api EXCEPT ![k] = o],
         api[k] # None => api[k].owner = lastUid
  PROVE  ManagedStep
<1>. DEFINE singles == [j \in {"cm", "svc"} |-> Owner(api[j])]
<1>1. /\ api'.cr = api.cr /\ api'.pods = api.pods
      /\ \A j \in {"cm", "svc"} : api'[j] = IF j = k THEN o ELSE api[j]
  BY DEF Objects
<1>2. Phase' = Phase /\ Phase \in {"guarded", "marked"}
  BY <1>1 DEF Phase
<1>3. [p \in PodIds |-> Owner(api.pods[p])]' = [p \in PodIds |-> Owner(api.pods[p])]
  BY <1>1, SamePods
<1>4. singles' = [singles EXCEPT ![k] = lastUid]
  <2>1. \A j \in {"cm", "svc"} : Owner(api'[j]) = IF j = k THEN lastUid ELSE Owner(api[j])
    BY <1>1, SMTT(20) DEF Owner
  <2>2. singles' = [j \in {"cm", "svc"} |-> Owner(api'[j])]
    OBVIOUS
  <2>. QED
    BY <2>1, <2>2
<1>5. CASE api[k] = None
  <2>1. singles[k] = None
    BY <1>5 DEF Owner
  <2>2. Managed!Adopt(k)
    BY <1>2, <1>3, <1>4, <2>1 DEF Managed!Adopt
  <2>. QED
    BY <2>2 DEF ManagedStep, Managed!Next, Managed!Singles
<1>6. CASE api[k] # None
  <2>1. singles[k] = lastUid
    BY <1>6 DEF Owner
  <2>2. singles' = singles
    BY <1>4, <2>1
  <2>. QED
    BY <1>2, <1>3, <2>2 DEF ManagedStep, Managed!managedVars
<1>. QED
  BY <1>5, <1>6

\* A Pod is created for the CR that exists under its finalizer.
LEMMA AdoptPodManaged ==
  ASSUME api \in Objects, NEW p \in PodIds, NEW o, o # None, o.owner = lastUid,
         api.cr # None, api.cr.finalizer, lastUid' = lastUid, api.pods[p] = None,
         api' = [api EXCEPT !.pods[p] = o]
  PROVE  ManagedStep
<1>. DEFINE pods == [q \in PodIds |-> Owner(api.pods[q])]
<1>1. /\ api'.cr = api.cr /\ api'.cm = api.cm /\ api'.svc = api.svc
      /\ \A q \in PodIds : api'.pods[q] = IF q = p THEN o ELSE api.pods[q]
  BY DEF Objects
<1>2. Phase' = Phase /\ Phase \in {"guarded", "marked"}
  BY <1>1 DEF Phase
<1>3. [k \in {"cm", "svc"} |-> Owner(api[k])]' = [k \in {"cm", "svc"} |-> Owner(api[k])]
  BY <1>1, SameSingles
<1>4. pods[p] = None /\ pods' = [pods EXCEPT ![p] = lastUid]
  <2>1. /\ Owner(api.pods[p]) = None
        /\ \A q \in PodIds : Owner(api'.pods[q]) = IF q = p THEN lastUid ELSE Owner(api.pods[q])
    BY <1>1, SMTT(20) DEF Owner
  <2>2. pods' = [q \in PodIds |-> Owner(api'.pods[q])]
    OBVIOUS
  <2>. QED
    BY <2>1, <2>2
<1>5. Managed!AdoptPod(p)
  BY <1>2, <1>3, <1>4 DEF Managed!AdoptPod
<1>. QED
  BY <1>5 DEF ManagedStep, Managed!Next

\* The finalizer is added, or is removed from a marked CR that has neither ConfigMap
\* nor Service left.
LEMMA FinalizerManaged ==
  ASSUME OnlyCr, lastUid' = lastUid, api.cr # None,
         \/ /\ api'.cr # None /\ api'.cr.finalizer
            /\ api'.cr.deleting = api.cr.deleting
         \/ /\ api'.cr = None /\ api.cr.deleting
            /\ api.cm = None /\ api.svc = None
  PROVE  ManagedStep
<1>1. CASE api'.cr = None
  <2>1. Phase = "marked" /\ Phase' = "absent" /\ Managed!Bare
    BY <1>1, NoSingles DEF Phase
  <2>. QED
    BY <2>1, OnlyCrOwners DEF ManagedStep, Managed!Next, Managed!Vanish
<1>2. CASE api'.cr # None
  <2>1. Phase' = Phase \/ (Phase = "new" /\ Phase' = "guarded")
    BY <1>2 DEF Phase
  <2>. QED
    BY <2>1, OnlyCrOwners DEF ManagedStep, Managed!Next, Managed!Guard, Managed!managedVars
<1>. QED
  BY <1>1, <1>2
=============================================================================
