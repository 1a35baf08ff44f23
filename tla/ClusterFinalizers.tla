-------------------------- MODULE ClusterFinalizers --------------------------
(***************************************************************************)
(* The finalizers of one ManagedCluster.                                   *)
(*                                                                         *)
(* Three controllers write metadata.finalizers of the same object:         *)
(*   - managedcluster-controller adds the import finalizer;                *)
(*   - manifestwork-controller adds the manifest work finalizer once it    *)
(*     sees klusterlet works and removes it when it sees none;             *)
(*   - resourcecleanup-controller removes both from a deleting cluster.    *)
(* Each one reads the cluster from the cache the manager shares between    *)
(* controllers and sends a JSON merge patch, which replaces the whole list *)
(* and carries no resourceVersion.  Other components keep finalizers of    *)
(* their own (Foreign) in the list and write it with a precondition.       *)
(*                                                                         *)
(* What resourcecleanup-controller does to the resources of the cluster    *)
(* before it lets the cluster go is the subject of ClusterDetach.          *)
(***************************************************************************)
EXTENDS Naturals, FiniteSets

CONSTANTS
    Foreign,                    \* finalizers of other components
    MaxConcurrentReconciles,    \* workers of each controller
    MaxIncarnations,            \* bound: times the user creates the cluster
    MaxDisturbances             \* bound: restarts of the manager, losses of the
                                \* works and finalizers of other components

Import == "import"
ManifestWork == "manifestwork"

ASSUME ForeignAssumption ==
    Foreign \cap {Import, ManifestWork} = {}
ASSUME BoundsAssumption ==
    /\ MaxConcurrentReconciles \in Nat \ {0}
    /\ MaxIncarnations \in Nat
    /\ MaxDisturbances \in Nat

VARIABLES
    mc,         \* the ManagedCluster in the API server
    cache,      \* the ManagedCluster in the manager's cache
    undelivered,    \* requests that the cluster events in transit will queue
    works,      \* klusterlet works in the API server: their owner's uid, or 0
    worksCache, \* whether the klusterlet work lister returns a work
    worksChanged,   \* whether an event about the works is in transit
    secret,     \* whether the import secret exists
    queue,      \* the reconcile requests that are queued
    step,       \* per request: what its reconciliation does next
    copy,       \* per request: the cluster its reconciliation read
    disturbances

clusterVars == <<mc, cache, undelivered>>
workVars == <<works, worksCache, worksChanged, secret>>
requestVars == <<queue, step, copy>>
boundVars == <<disturbances>>
vars == <<clusterVars, workVars, requestVars, boundVars>>

Finalizers == {Import, ManifestWork} \cup Foreign
Uids == 0 .. MaxIncarnations
Cluster == [exists: BOOLEAN, deleting: BOOLEAN, fins: SUBSET Finalizers,
            uid: Uids]
NoCluster == [exists |-> FALSE, deleting |-> FALSE, fins |-> {}, uid |-> 0]

(***************************************************************************)
(* The workqueue keys.  ManagedClusterResourceEventHandler.add queues      *)
(* {Namespace: c, Name: c}, EnqueueRequestForObject queues {Name: c}: to   *)
(* the workqueue these are two requests, and two workers may reconcile the *)
(* same cluster in manifestwork-controller at the same time.               *)
(***************************************************************************)
Meta == "meta"
WorkKeys == {"workCluster", "workNamespace"}
Cleanup == "cleanup"
Requests == {Meta, Cleanup} \cup WorkKeys
Steps == {"idle", "ensureMeta", "addFinalizer", "removeFinalizer", "apply",
          "orphan", "clean", "check", "removeFinalizers"}

-----------------------------------------------------------------------------
(* The watch predicates: which requests a change of the cluster queues.    *)

(* Mutant: managedcluster-controller does not react to lost finalizers. *)
MetaWatchesIgnoresFinalizers(old, new) ==
    IF old.exists /\ new.exists THEN new.deleting ELSE old.exists # new.exists

MetaWatches(old, new) ==
    IF old.exists /\ new.exists
      THEN new.deleting \/ old.fins # new.fins
      ELSE old.exists # new.exists

(* An update queues the cluster only when disable-auto-import toggles. *)
WorkWatches(old, new) == old.exists # new.exists

(* Mutant: only the disappearance of the cluster is noticed. *)
CleanupWatchesDeleteOnly(old, new) == old.exists /\ ~new.exists

CleanupWatches(old, new) ==
    \/ old.exists /\ ~new.exists
    \/ old.exists /\ new.exists /\ new.deleting

Watched(old, new) ==
    {r \in Requests : \/ r = Meta /\ MetaWatches(old, new)
                      \/ r = "workCluster" /\ WorkWatches(old, new)
                      \/ r = Cleanup /\ CleanupWatches(old, new)}

(***************************************************************************)
(* The API server's rules for a write of the finalizer list: an object     *)
(* that is being deleted accepts no new finalizer, and is gone with its    *)
(* last one.  Every write is announced to the watchers.                    *)
(***************************************************************************)
Accepted(c, new) == c.exists /\ (c.deleting => new \subseteq c.fins)
Settled(c) ==
    IF c.deleting /\ c.fins = {}
      THEN [c EXCEPT !.exists = FALSE, !.deleting = FALSE]
      ELSE c

Write(c) ==
    /\ mc' = Settled(c)
    /\ undelivered' = undelivered \cup Watched(mc, Settled(c))
    /\ UNCHANGED cache

WriteWorks(w) ==
    /\ works' = w
    /\ worksChanged' = (worksChanged \/ (works = 0) # (w = 0))
    /\ UNCHANGED <<worksCache, secret>>

Init ==
    /\ mc = NoCluster
    /\ cache = NoCluster
    /\ undelivered = {}
    /\ works = 0
    /\ worksCache = FALSE
    /\ worksChanged = FALSE
    /\ secret = FALSE
    /\ queue = {}
    /\ step = [r \in Requests |-> "idle"]
    /\ copy = [r \in Requests |-> NoCluster]
    /\ disturbances = 0

-----------------------------------------------------------------------------
(* The user and the other components.                                      *)

Disturb == disturbances < MaxDisturbances /\ disturbances' = disturbances + 1

UserCreates ==
    /\ ~mc.exists
    /\ mc.uid < MaxIncarnations
    /\ Write([exists |-> TRUE, deleting |-> FALSE, fins |-> {},
              uid |-> mc.uid + 1])
    /\ UNCHANGED <<workVars, requestVars, boundVars>>

UserDeletes ==
    /\ mc.exists /\ ~mc.deleting
    /\ Write([mc EXCEPT !.deleting = TRUE])
    /\ UNCHANGED <<workVars, requestVars, boundVars>>

ForeignAdds(f) ==
    /\ Disturb
    /\ mc.exists /\ ~mc.deleting /\ f \notin mc.fins
    /\ Write([mc EXCEPT !.fins = @ \cup {f}])
    /\ UNCHANGED <<workVars, requestVars>>

ForeignRemoves(f) ==
    /\ mc.exists /\ mc.deleting /\ f \in mc.fins
    /\ Write([mc EXCEPT !.fins = @ \ {f}])
    /\ UNCHANGED <<workVars, requestVars, boundVars>>

(* Somebody else deletes the klusterlet works. *)
WorksLost ==
    /\ Disturb
    /\ works # 0
    /\ WriteWorks(0)
    /\ UNCHANGED <<clusterVars, requestVars>>

(* Kubernetes collects works whose owner is gone. *)
GarbageCollects ==
    /\ works # 0
    /\ ~(mc.exists /\ mc.uid = works)
    /\ WriteWorks(0)
    /\ UNCHANGED <<clusterVars, requestVars, boundVars>>

(* importconfig-controller writes the import secret of a cluster it sees. *)
ImportSecretCreated ==
    /\ cache.exists /\ ~secret
    /\ secret' = TRUE
    /\ queue' = queue \cup {"workNamespace"}
    /\ UNCHANGED <<clusterVars, works, worksCache, worksChanged, step, copy,
                   boundVars>>

-----------------------------------------------------------------------------
(* The informers.  Events arrive late, but all of them arrive.             *)

CacheSync ==
    /\ cache # mc \/ undelivered # {}
    /\ cache' = mc
    /\ queue' = queue \cup undelivered
    /\ undelivered' = {}
    /\ UNCHANGED <<mc, workVars, step, copy, boundVars>>

(* The periodic resync delivers the cached object as an update of itself. *)
CacheResync ==
    /\ cache.exists
    /\ queue' = queue \cup Watched(cache, cache)
    /\ UNCHANGED <<clusterVars, workVars, step, copy, boundVars>>

(* Mutant: the lister is refreshed, but nothing is queued. *)
WorksSyncQueuesNothing ==
    /\ worksChanged
    /\ worksCache' = (works # 0)
    /\ worksChanged' = FALSE
    /\ UNCHANGED <<clusterVars, works, secret, requestVars, boundVars>>

WorksSync ==
    /\ worksChanged
    /\ worksCache' = (works # 0)
    /\ worksChanged' = FALSE
    /\ queue' = queue \cup {"workNamespace"}
    /\ UNCHANGED <<clusterVars, works, secret, step, copy, boundVars>>

(***************************************************************************)
(* A new process lists every object: the requests in flight are lost, and  *)
(* each existing object is delivered as a create event.                    *)
(***************************************************************************)
Restart ==
    /\ Disturb
    /\ cache' = mc
    /\ undelivered' = {}
    /\ worksCache' = (works # 0)
    /\ worksChanged' = FALSE
    /\ queue' = Watched(NoCluster, mc)
                  \cup (IF works # 0 \/ secret THEN {"workNamespace"} ELSE {})
    /\ step' = [r \in Requests |-> "idle"]
    /\ copy' = [r \in Requests |-> NoCluster]
    /\ UNCHANGED <<mc, works, secret>>

-----------------------------------------------------------------------------
(* Helpers of the reconcilers. *)

(* Go on at step s; a reconciliation that ends forgets what it read. *)
Goto(r, s, c) ==
    /\ step' = [step EXCEPT ![r] = s]
    /\ copy' = [copy EXCEPT ![r] = IF s = "idle" THEN NoCluster ELSE c]

(* A worker takes request r and reads the cluster from the cache. *)
Take(r, s) ==
    /\ r \in queue /\ step[r] = "idle"
    /\ queue' = queue \ {r}
    /\ Goto(r, s, cache)

Continue(r, s) == Goto(r, s, copy[r]) /\ UNCHANGED queue

(* An error, or RequeueAfter: the request is reconciled again. *)
Requeue(r) == Goto(r, "idle", copy[r]) /\ queue' = queue \cup {r}

(* Patch the list of finalizers to new and go on at s, or fail. *)
Patch(r, new, s) ==
    \/ /\ Accepted(mc, new)
       /\ Write([mc EXCEPT !.fins = new])
       /\ Continue(r, s)
    \/ /\ ~Accepted(mc, new)
       /\ UNCHANGED clusterVars
       /\ Requeue(r)

-----------------------------------------------------------------------------
(* managedcluster-controller *)

MetaReconcile ==
    /\ Take(Meta, IF cache.exists /\ ~cache.deleting
                       /\ Import \notin cache.fins
                    THEN "ensureMeta" ELSE "idle")
    /\ UNCHANGED <<clusterVars, workVars, boundVars>>

(* Mutant: the finalizer's name is misspelled. *)
EnsureManagedClusterMetaObjMisspelled ==
    /\ step[Meta] = "ensureMeta"
    /\ Patch(Meta, copy[Meta].fins \cup {"imported"}, "idle")
    /\ UNCHANGED <<workVars, boundVars>>

EnsureManagedClusterMetaObj ==
    /\ step[Meta] = "ensureMeta"
    /\ Patch(Meta, copy[Meta].fins \cup {Import}, "idle")
    /\ UNCHANGED <<workVars, boundVars>>

-----------------------------------------------------------------------------
(* manifestwork-controller *)

WorkersFree ==
    Cardinality({r \in WorkKeys : step[r] # "idle"}) < MaxConcurrentReconciles

AssertManifestWorkFinalizer ==
    IF ~cache.exists \/ cache.deleting THEN "idle"
    ELSE IF ~worksCache /\ ManifestWork \in cache.fins THEN "removeFinalizer"
    ELSE IF worksCache /\ ManifestWork \notin cache.fins THEN "addFinalizer"
    ELSE "apply"

WorkReconcile(r) ==
    /\ WorkersFree
    /\ Take(r, AssertManifestWorkFinalizer)
    /\ UNCHANGED <<clusterVars, workVars, boundVars>>

RemoveManagedClusterFinalizer(r) ==
    /\ step[r] = "removeFinalizer"
    /\ Patch(r, copy[r].fins \ {ManifestWork}, "apply")
    /\ UNCHANGED <<workVars, boundVars>>

AddManagedClusterFinalizer(r) ==
    /\ step[r] = "addFinalizer"
    /\ Patch(r, copy[r].fins \cup {ManifestWork}, "apply")
    /\ UNCHANGED <<workVars, boundVars>>

(* Works that are missing are created; on works that exist, applying them  *)
(* replaces the owner by the cluster this reconciliation read.             *)
ApplyManifestWorks(r) ==
    /\ step[r] = "apply"
    /\ WriteWorks(IF secret THEN copy[r].uid ELSE works)
    /\ Continue(r, "idle")
    /\ UNCHANGED <<clusterVars, boundVars>>

-----------------------------------------------------------------------------
(* resourcecleanup-controller *)

CleanupReconcile ==
    /\ Take(Cleanup, IF ~cache.exists THEN "orphan"
                     ELSE IF cache.deleting THEN "clean" ELSE "idle")
    /\ UNCHANGED <<clusterVars, workVars, boundVars>>

OrphanCleanup ==
    /\ step[Cleanup] = "orphan"
    /\ WriteWorks(0)
    /\ Continue(Cleanup, "idle")
    /\ UNCHANGED <<clusterVars, boundVars>>

(* Cleanup or forceCleanup: the works are gone afterwards, or not yet. *)
CleanupWorks(gone) ==
    /\ step[Cleanup] = "clean"
    /\ WriteWorks(IF gone THEN 0 ELSE works)
    /\ Continue(Cleanup, "check")
    /\ UNCHANGED <<clusterVars, boundVars>>

CleanupCompleted ==
    /\ step[Cleanup] = "check"
    /\ \/ works = 0 /\ Continue(Cleanup, "removeFinalizers")
       \/ works # 0 /\ Requeue(Cleanup)
    /\ UNCHANGED <<clusterVars, workVars, boundVars>>

(* Mutant: all finalizers are removed. *)
NoFinalizers == {}

RemainingFinalizers == copy[Cleanup].fins \ {Import, ManifestWork}

RemoveClusterFinalizers ==
    /\ step[Cleanup] = "removeFinalizers"
    /\ \/ /\ RemainingFinalizers = copy[Cleanup].fins \/ ~mc.exists
          /\ Continue(Cleanup, "idle")
          /\ UNCHANGED clusterVars
       \/ /\ RemainingFinalizers # copy[Cleanup].fins /\ mc.exists
          /\ Patch(Cleanup, RemainingFinalizers, "idle")
    /\ UNCHANGED <<workVars, boundVars>>

-----------------------------------------------------------------------------
WorkStep(r) ==
    \/ WorkReconcile(r)
    \/ RemoveManagedClusterFinalizer(r)
    \/ AddManagedClusterFinalizer(r)
    \/ ApplyManifestWorks(r)

Next ==
    \/ UserCreates
    \/ UserDeletes
    \/ \E f \in Foreign : ForeignAdds(f) \/ ForeignRemoves(f)
    \/ WorksLost
    \/ GarbageCollects
    \/ ImportSecretCreated
    \/ CacheSync
    \/ CacheResync
    \/ WorksSync
    \/ Restart
    \/ MetaReconcile
    \/ EnsureManagedClusterMetaObj
    \/ \E r \in WorkKeys : WorkStep(r)
    \/ CleanupReconcile
    \/ OrphanCleanup
    \/ \E gone \in BOOLEAN : CleanupWorks(gone)
    \/ CleanupCompleted
    \/ RemoveClusterFinalizers

Spec == Init /\ [][Next]_vars

(***************************************************************************)
(* Fairness.  Requests are served and informers catch up; a component      *)
(* lets a deleting cluster go; the cleanup of the works, retried every two *)
(* seconds, succeeds at some point (ClusterDetach shows why).  Nothing     *)
(* makes a user act or a process restart.                                  *)
(***************************************************************************)
Fairness ==
    /\ \A f \in Foreign : WF_vars(ForeignRemoves(f))
    /\ WF_vars(GarbageCollects)
    /\ WF_vars(ImportSecretCreated)
    /\ WF_vars(CacheSync)
    /\ WF_vars(CacheResync)
    /\ WF_vars(WorksSync)
    /\ WF_vars(MetaReconcile)
    /\ WF_vars(EnsureManagedClusterMetaObj)
    /\ \A r \in WorkKeys : WF_vars(WorkStep(r))
    /\ WF_vars(CleanupReconcile)
    /\ WF_vars(OrphanCleanup)
    /\ WF_vars(\E gone \in BOOLEAN : CleanupWorks(gone))
    /\ SF_vars(CleanupWorks(TRUE))
    /\ WF_vars(CleanupCompleted)
    /\ WF_vars(RemoveClusterFinalizers)

FairSpec == Spec /\ Fairness

-----------------------------------------------------------------------------
(* The cluster, its cached copies and the requests stay within their       *)
(* types; no write puts a finalizer nobody owns on the cluster.            *)
TypeOK ==
    /\ mc \in Cluster
    /\ cache \in Cluster
    /\ works \in Uids
    /\ worksCache \in BOOLEAN
    /\ secret \in BOOLEAN
    /\ undelivered \subseteq Requests
    /\ worksChanged \in BOOLEAN
    /\ queue \subseteq Requests
    /\ step \in [Requests -> Steps]
    /\ copy \in [Requests -> Cluster]
    /\ disturbances \in 0 .. MaxDisturbances

(***************************************************************************)
(* The merge patch of removeClusterFinalizers replaces the list by what it *)
(* computed from a cached copy.  Still it takes away no finalizer that     *)
(* another component holds, nor puts one back: a deleting cluster accepts  *)
(* no finalizer, so the list in a copy can only be too long, and a patch   *)
(* that is too long is refused.                                            *)
(***************************************************************************)
CleanupKeepsForeign ==
    [][(step[Cleanup] = "removeFinalizers" /\ copy[Cleanup].uid = mc.uid
          /\ step'[Cleanup] = "idle")
         => mc'.fins \cap Foreign = mc.fins \cap Foreign]_vars

(* The cluster exists and nobody deletes it. *)
Stable == mc.exists /\ ~mc.deleting

(* A stale merge patch of manifestwork-controller may drop the import      *)
(* finalizer; managedcluster-controller watches the list and puts it back. *)
ImportFinalizerRestored == <>[]Stable => <>[](Import \in mc.fins)

(* The klusterlet works of a cluster are there again and again, whatever   *)
(* deletes them: a late cleanup of an earlier incarnation, or somebody     *)
(* else.  manifestwork-controller re-creates them, owned by this cluster.  *)
WorksRestored == <>[]Stable => []<>(works = mc.uid)

(* A cluster that is deleted goes: requests survive failed patches, missed *)
(* watch events and a restart of the controller manager.                   *)
DetachCompletes == mc.deleting ~> ~mc.deleting

(***************************************************************************)
(* manifestwork_controller.go: "after the klusterlet works are created,    *)
(* make sure the managed cluster has manifest work finalizer".             *)
(* managedcluster-controller's merge patch from a copy without it drops    *)
(* it, and manifestwork-controller does not watch the finalizers.          *)
(***************************************************************************)
WorkFinalizerRestored ==
    <>[]Stable => []<>(works # 0 => ManifestWork \in mc.fins)
=============================================================================
