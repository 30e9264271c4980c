--------------------------- MODULE PollingRollout ---------------------------
(***************************************************************************)
(* A rollout of the first controller's Deployment: without leader election *)
(* the new Pod polls while the old one still does.  A second instance of   *)
(* PollingController works on the cluster from its first List until the    *)
(* first instance stops, and then takes its place.                         *)
(*                                                                         *)
(* An Update carries the resourceVersion that was read.  PollingController *)
(* compares contents instead; here this accepts an Update after the other  *)
(* instance has put the same object in the place of a deleted one, which   *)
(* the API server refuses and the next poll repeats.                       *)
(***************************************************************************)
EXTENDS PollingController

CONSTANT MaxOverlap   \* bound: polls that the old instance starts in a rollout

ASSUME OverlapAssumption == MaxOverlap \in Nat

VARIABLES
  rollout,                                   \* "never", "now" or "done"
  overlap,                                   \* polls of the old one since then
  pcN, entryN, existingN, doomedN, currentN  \* the new instance

newVars == <<pcN, entryN, existingN, doomedN, currentN>>
rolloutVars == <<vars, rollout, overlap, newVars>>

New == INSTANCE PollingController
         WITH pc <- pcN, entry <- entryN, existing <- existingN,
              doomed <- doomedN, current <- currentN

RolloutTypeOK ==
  /\ TypeOK
  /\ New!TypeOK
  /\ rollout \in {"never", "now", "done"}
  /\ overlap \in 0 .. MaxOverlap

RolloutInit ==
  /\ Init
  /\ New!Init
  /\ rollout = "never"
  /\ overlap = 0

OldPolls ==
  /\ List
  /\ \/ rollout # "now" /\ UNCHANGED overlap
     \/ rollout = "now" /\ overlap < MaxOverlap /\ overlap' = overlap + 1
  /\ UNCHANGED <<rollout, newVars>>

Old(A) == A /\ UNCHANGED <<rollout, overlap, newVars>>

NewStep ==
  /\ rollout = "now"
  /\ New!List \/ New!ReconcileCR
  /\ UNCHANGED <<rollout, overlap, passVars>>

\* A rollout counts as a fault; there is one.
NewStarts ==
  /\ rollout = "never"
  /\ faults < MaxFaults
  /\ rollout' = "now"
  /\ faults' = faults + 1
  /\ UNCHANGED <<api, lastUid, clock, passVars, overlap, newVars>>

\* The old one's context is cancelled, wherever it is in a pass.
OldStops ==
  /\ rollout = "now"
  /\ rollout' = "done"
  /\ overlap' = 0
  /\ pc' = pcN /\ entry' = entryN /\ existing' = existingN
  /\ doomed' = doomedN /\ current' = currentN
  /\ New!Return
  /\ UNCHANGED clusterVars

\* The garbage collector, for what an instance made for a CR that the other had
\* already seen off.
CollectChild(k) ==
  /\ api[k] # None
  /\ Orphan(api[k].owner)
  /\ api' = [api EXCEPT ![k] = None]
  /\ UNCHANGED <<lastUid, clock, faults>>

ClusterStep(A) == Cluster(A) /\ UNCHANGED <<rollout, overlap, newVars>>

RolloutNext ==
  \/ ClusterStep(ClusterNext)
  \/ \E k \in {"cm", "svc"} : ClusterStep(CollectChild(k))
  \/ OldPolls \/ Old(ReconcileCR) \/ Old(CallFails)
  \/ NewStep
  \/ NewStarts \/ OldStops

\* Both processes run while they are there, and the old one is stopped in the end.
RolloutSpec ==
  /\ RolloutInit /\ [][RolloutNext]_rolloutVars
  /\ WF_rolloutVars(OldPolls \/ Old(ReconcileCR))
  /\ WF_rolloutVars(NewStep)
  /\ WF_rolloutVars(OldStops)
  /\ WF_rolloutVars(ClusterStep(\E p \in PodIds : StartPod(p) \/ PodGone(p)))
  /\ WF_rolloutVars(ClusterStep(\/ \E p \in PodIds : CollectPod(p)
                                \/ \E k \in {"cm", "svc"} : CollectChild(k)))

-----------------------------------------------------------------------------
(* Properties.  Settles is PollingController's, now of two instances: they *)
(* may create too many Pods, or objects for a CR that is gone, but in the  *)
(* end the cluster is what the spec asks for.                              *)

\* As long as one instance runs, no object outlives its CR unnoticed.  In a
\* rollout one may: the old instance creates it for a CR that it listed before
\* the new one removed the finalizer, and the garbage collector takes it away.
AloneChildrenOwned == rollout = "never" => ChildrenOwned

\* As long as one instance runs, Pods of the stored spec run with its environment.
\* In a rollout the old instance may put back the ConfigMap of a CR that it listed
\* before an edit while the new one creates the Pods.
AloneEnvMatchesHash == rollout = "never" => EnvMatchesHash

\* As long as one instance runs, removeFinalizer comes when every Pod of the CR has
\* been deleted: since reads are not cached, cleanupOwnedResources misses none.
AloneLeavesNoPod ==
  [][(/\ rollout = "never"
      /\ api.cr # None /\ api.cr.finalizer /\ api.cr' = None)
       => \A p \in PodIds :
            (Exists(p) /\ api.pods[p].owner = api.cr.uid) => api.pods[p].deleting]_rolloutVars

\* As long as one instance runs, reconcilePods creates no Pod beyond the replicas it
\* was asked for, old and outdated Pods that are not on their way out included: it
\* has seen its own Pods of earlier passes and deletes before it creates.  In a
\* rollout two instances count apart and may each create.
AloneNoSurplus ==
  [][(rollout = "never" /\ \E p \in PodIds : ~ Exists(p) /\ Exists(p)')
       => Cardinality({p \in PodIds : Exists(p)' /\ ~ api'.pods[p].deleting})
            <= entry.spec.replicas]_rolloutVars

\* As long as one instance runs, it keeps what ManagedEntry promises: objects are
\* made only for the incarnation that exists and under its finalizer, which is
\* removed after ConfigMap and Service.
AloneManages ==
  /\ Managed!Init
  /\ [][rollout = "never" => Managed!Next \/ UNCHANGED Managed!managedVars]_rolloutVars
=============================================================================
