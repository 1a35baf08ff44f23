----------------------- MODULE ClusterFinalizersProofs -----------------------
(***************************************************************************)
(* Theorems about ClusterFinalizers: types, and that the cleanup of a      *)
(* deleting cluster never touches another component's finalizers, for any  *)
(* set of foreign finalizers, any number of workers, incarnations,         *)
(* restarts and losses of works.                                           *)
(***************************************************************************)
EXTENDS ClusterFinalizers, TLAPS

(* No copy of the cluster is from an incarnation yet to come. *)
NoFutureCopies ==
    /\ cache.uid <= mc.uid
    /\ \A r \in Requests : copy[r].uid <= mc.uid

(* A copy of the deleting cluster lists every finalizer it still has. *)
Covers(c) ==
    (c.deleting /\ mc.exists /\ c.uid = mc.uid)
        => (mc.deleting /\ mc.fins \subseteq c.fins)
DeletingCopiesCover ==
    /\ Covers(cache)
    /\ \A r \in Requests : Covers(copy[r])

(* resourcecleanup-controller works on a copy that is being deleted. *)
CleanupSteps == {"clean", "check", "removeFinalizers"}
CleanupCopyDeleting ==
    step[Cleanup] \in CleanupSteps => copy[Cleanup].deleting

(* The inductive invariant. *)
IInv ==
    /\ TypeOK
    /\ NoFutureCopies
    /\ DeletingCopiesCover
    /\ CleanupCopyDeleting

-----------------------------------------------------------------------------
(* The vocabulary of the requests and of their steps. *)
LEMMA RequestFacts ==
    /\ Meta \in Requests /\ Cleanup \in Requests /\ WorkKeys \subseteq Requests
    /\ Meta # Cleanup /\ Cleanup \notin WorkKeys
    /\ Import \in Finalizers /\ ManifestWork \in Finalizers
BY DEF Requests, Meta, Cleanup, WorkKeys, Finalizers, Import, ManifestWork

(* The absent cluster is a cluster value. *)
LEMMA NoClusterType ==
    /\ NoCluster \in Cluster
    /\ NoCluster.deleting = FALSE /\ NoCluster.uid = 0
BY BoundsAssumption DEF NoCluster, Cluster, Uids, Finalizers

(* Settling a cluster keeps its finalizers and its identity, and a cluster *)
(* that exists afterwards is the one that was written.                     *)
LEMMA SettledFacts ==
    ASSUME NEW c \in Cluster
    PROVE  /\ Settled(c) \in Cluster
           /\ Settled(c).fins = c.fins
           /\ Settled(c).uid = c.uid
           /\ Settled(c).exists => Settled(c) = c
BY DEF Settled, Cluster

(* The cluster as a step may change it: a new incarnation, or the same one *)
(* with, once it is being deleted, no more finalizers than before.         *)
Evolves ==
    /\ mc' \in Cluster
    /\ \/ mc'.uid > mc.uid
       \/ /\ mc'.uid = mc.uid
          /\ mc'.exists => /\ mc.exists
                           /\ mc.deleting => /\ mc'.deleting
                                             /\ mc'.fins \subseteq mc.fins

(* A copy that a reconciliation has is kept, forgotten, or just read. *)
CopiesFrom ==
    \A r \in Requests : copy'[r] \in {copy[r], NoCluster, cache}

RequestType ==
    /\ queue \subseteq Requests
    /\ step \in [Requests -> Steps]
    /\ copy \in [Requests -> Cluster]

(* A step of the reconciliation of r. *)
Moves(r) ==
    /\ RequestType'
    /\ CopiesFrom
    /\ \A q \in Requests \ {r} : step'[q] = step[q] /\ copy'[q] = copy[q]

(* Covering is preserved by every evolution of the cluster. *)
LEMMA CoverPreserved ==
    ASSUME IInv, Evolves, CopiesFrom, cache' \in {cache, mc'}
    PROVE  NoFutureCopies' /\ DeletingCopiesCover'
<1>1. /\ mc \in Cluster /\ cache \in Cluster
      /\ \A r \in Requests : copy[r] \in Cluster
  BY DEF IInv, TypeOK
<1>2. \A c \in Cluster : c.uid \in Nat
  BY BoundsAssumption DEF Cluster, Uids
<1>3. mc' \in Cluster
  BY DEF Evolves
<1>4. ASSUME NEW c \in Cluster, c.uid <= mc.uid, Covers(c)
      PROVE  /\ c.uid <= mc'.uid
             /\ (c.deleting /\ mc'.exists /\ c.uid = mc'.uid)
                   => (mc'.deleting /\ mc'.fins \subseteq c.fins)
  BY <1>1, <1>2, <1>3, <1>4 DEF Evolves, Covers
<1>5. /\ NoCluster.uid <= mc'.uid /\ ~NoCluster.deleting
  BY <1>2, <1>3, NoClusterType
<1>6. /\ cache'.uid <= mc'.uid
      /\ (cache'.deleting /\ mc'.exists /\ cache'.uid = mc'.uid)
             => (mc'.deleting /\ mc'.fins \subseteq cache'.fins)
  <2>1. CASE cache' = cache
    BY <2>1, <1>1, <1>4 DEF IInv, NoFutureCopies, DeletingCopiesCover
  <2>2. CASE cache' = mc'
    BY <2>2, <1>2, <1>3
  <2> QED BY <2>1, <2>2
<1>7. ASSUME NEW r \in Requests
      PROVE  /\ copy'[r].uid <= mc'.uid
             /\ (copy'[r].deleting /\ mc'.exists /\ copy'[r].uid = mc'.uid)
                    => (mc'.deleting /\ mc'.fins \subseteq copy'[r].fins)
  <2>1. CASE copy'[r] = copy[r]
    BY <2>1, <1>1, <1>4 DEF IInv, NoFutureCopies, DeletingCopiesCover
  <2>2. CASE copy'[r] = cache
    BY <2>2, <1>1, <1>4 DEF IInv, NoFutureCopies, DeletingCopiesCover
  <2>3. CASE copy'[r] = NoCluster
    BY <2>3, <1>5
  <2> QED BY <2>1, <2>2, <2>3 DEF CopiesFrom
<1> QED
  BY <1>6, <1>7 DEF NoFutureCopies, DeletingCopiesCover, Covers

(* A write through the API server is an evolution and is announced. *)
LEMMA WriteFacts ==
    ASSUME TypeOK, NEW c \in Cluster, Write(c),
           \/ c.uid > mc.uid
           \/ /\ c.uid = mc.uid /\ mc.exists
              /\ mc.deleting => (c.deleting /\ c.fins \subseteq mc.fins)
    PROVE  Evolves /\ cache' = cache /\ undelivered' \subseteq Requests
<1>1. mc' = Settled(c) /\ cache' = cache
  BY DEF Write
<1>2. undelivered' \subseteq Requests
  BY DEF Write, TypeOK, Watched
<1>3. Evolves
  BY <1>1, SettledFacts DEF Evolves
<1> QED BY <1>1, <1>2, <1>3

(* Going on at a step moves one request, and keeps or forgets its copy. *)
LEMMA GotoFacts ==
    ASSUME TypeOK, NEW r \in Requests, NEW s \in Steps,
           NEW c \in {copy[r], cache}, Goto(r, s, c)
    PROVE  /\ step' \in [Requests -> Steps] /\ copy' \in [Requests -> Cluster]
           /\ CopiesFrom
           /\ step'[r] = s
           /\ s # "idle" => copy'[r] = c
           /\ \A q \in Requests \ {r} : step'[q] = step[q] /\ copy'[q] = copy[q]
<1>1. c \in Cluster /\ NoCluster \in Cluster
  BY NoClusterType DEF TypeOK
<1> QED
  BY <1>1 DEF TypeOK, Goto, CopiesFrom

(* A reconciliation that goes on keeps the copy it works on. *)
LEMMA ContinueFacts ==
    ASSUME TypeOK, NEW r \in Requests, NEW s \in Steps, Continue(r, s)
    PROVE  Moves(r) /\ step'[r] = s /\ (s # "idle" => copy'[r] = copy[r])
BY GotoFacts DEF Continue, Moves, RequestType, TypeOK

(* A request that is put back ends its reconciliation. *)
LEMMA RequeueFacts ==
    ASSUME TypeOK, NEW r \in Requests, Requeue(r)
    PROVE  Moves(r) /\ step'[r] = "idle"
<1>1. "idle" \in Steps
  BY DEF Steps
<1> QED
  BY <1>1, GotoFacts DEF Requeue, Moves, RequestType, TypeOK

(* A worker that takes a request copies the cached cluster. *)
LEMMA TakeFacts ==
    ASSUME TypeOK, NEW r \in Requests, NEW s \in Steps, Take(r, s)
    PROVE  Moves(r) /\ step'[r] = s /\ (s # "idle" => copy'[r] = cache)
BY GotoFacts DEF Take, Moves, RequestType, TypeOK

(* A merge patch of the finalizers, accepted or refused. *)
LEMMA PatchFacts ==
    ASSUME TypeOK, NEW r \in Requests, NEW s \in Steps,
           NEW new \in SUBSET Finalizers, Patch(r, new, s)
    PROVE  /\ Evolves /\ cache' = cache /\ undelivered' \subseteq Requests
           /\ Moves(r)
           /\ step'[r] \in {s, "idle"}
           /\ step'[r] # "idle" => copy'[r] = copy[r]
<1>1. CASE Accepted(mc, new) /\ Write([mc EXCEPT !.fins = new]) /\ Continue(r, s)
  <2>1. [mc EXCEPT !.fins = new] \in Cluster
    BY DEF TypeOK, Cluster
  <2>2. LET c == [mc EXCEPT !.fins = new]
        IN /\ c.uid = mc.uid /\ mc.exists
           /\ mc.deleting => (c.deleting /\ c.fins \subseteq mc.fins)
    BY <1>1 DEF Accepted, TypeOK, Cluster
  <2>3. Evolves /\ cache' = cache /\ undelivered' \subseteq Requests
    BY <1>1, <2>1, <2>2, WriteFacts
  <2> QED
    BY <1>1, <2>3, ContinueFacts
<1>2. CASE UNCHANGED clusterVars /\ Requeue(r)
  BY <1>2, RequeueFacts DEF clusterVars, Evolves, TypeOK
<1> QED
  BY <1>1, <1>2 DEF Patch

(* Writing the works keeps the types of what is known of them. *)
LEMMA WriteWorksFacts ==
    ASSUME TypeOK, NEW w \in Uids, WriteWorks(w)
    PROVE  /\ works' \in Uids /\ worksCache' \in BOOLEAN
           /\ worksChanged' \in BOOLEAN /\ secret' \in BOOLEAN
BY DEF TypeOK, WriteWorks

-----------------------------------------------------------------------------
(* The inductive invariant holds initially ... *)
LEMMA InitIInv == Init => IInv
<1> SUFFICES ASSUME Init PROVE IInv
  OBVIOUS
<1> USE DEF Init
<1>1. TypeOK
  <2>1. 0 \in Uids /\ 0 \in 0 .. MaxDisturbances
    BY BoundsAssumption DEF Uids
  <2>2. "idle" \in Steps
    BY DEF Steps
  <2> QED
    BY <2>1, <2>2, NoClusterType DEF TypeOK
<1>2. NoFutureCopies
  BY NoClusterType DEF NoFutureCopies
<1>3. DeletingCopiesCover
  BY NoClusterType DEF DeletingCopiesCover, Covers
<1>4. CleanupCopyDeleting
  BY RequestFacts DEF CleanupCopyDeleting, CleanupSteps
<1> QED
  BY <1>1, <1>2, <1>3, <1>4 DEF IInv

(* A step that leaves the reconciliations alone preserves it. *)
LEMMA QuietStep ==
    ASSUME IInv, Evolves, cache' \in {cache, mc'}, undelivered' \subseteq Requests,
           queue' \subseteq Requests, UNCHANGED <<step, copy>>,
           works' \in Uids, worksCache' \in BOOLEAN, worksChanged' \in BOOLEAN,
           secret' \in BOOLEAN, disturbances' \in 0 .. MaxDisturbances
    PROVE  IInv'
<1>1. TypeOK'
  BY DEF IInv, TypeOK, Evolves
<1>2. CopiesFrom
  BY DEF CopiesFrom
<1>3. NoFutureCopies' /\ DeletingCopiesCover'
  BY <1>2, CoverPreserved
<1>4. CleanupCopyDeleting'
  BY DEF IInv, CleanupCopyDeleting
<1> QED
  BY <1>1, <1>3, <1>4 DEF IInv

(* ... and so does a step of a reconciliation that keeps the works' types  *)
(* and, if it is the cleanup, works on the copy of a deleting cluster.     *)
LEMMA RequestStep ==
    ASSUME IInv, NEW r \in Requests, Moves(r), Evolves, cache' = cache,
           undelivered' \subseteq Requests, works' \in Uids,
           worksCache' \in BOOLEAN, worksChanged' \in BOOLEAN,
           secret' \in BOOLEAN, UNCHANGED boundVars,
           r = Cleanup => (step'[r] \in CleanupSteps => copy'[r].deleting)
    PROVE  IInv'
<1>1. TypeOK'
  BY DEF IInv, TypeOK, Evolves, Moves, RequestType, boundVars
<1>2. NoFutureCopies' /\ DeletingCopiesCover'
  BY CoverPreserved DEF Moves
<1>3. CleanupCopyDeleting'
  BY RequestFacts DEF IInv, CleanupCopyDeleting, Moves
<1> QED
  BY <1>1, <1>2, <1>3 DEF IInv

(* ... and is preserved by every step. *)
LEMMA NextIInv == IInv /\ [Next]_vars => IInv'
<1> SUFFICES ASSUME IInv, [Next]_vars PROVE IInv'
  OBVIOUS
<1>t. TypeOK
  BY DEF IInv
<1>m. mc \in Cluster /\ cache \in Cluster
  BY <1>t DEF TypeOK
<1>w. /\ works \in Uids /\ worksCache \in BOOLEAN /\ worksChanged \in BOOLEAN
      /\ secret \in BOOLEAN /\ queue \subseteq Requests
      /\ undelivered \subseteq Requests
      /\ disturbances \in 0 .. MaxDisturbances
  BY <1>t DEF TypeOK
<1>z. 0 \in Uids
  BY BoundsAssumption DEF Uids
<1>d. Disturb => disturbances' \in 0 .. MaxDisturbances
  BY <1>w, BoundsAssumption DEF Disturb
<1>e. UNCHANGED mc => Evolves
  BY <1>m DEF Evolves
<1>q. Cleanup \in Requests /\ Meta \in Requests /\ Meta # Cleanup
  BY RequestFacts
<1>1. CASE UserCreates
  <2> DEFINE c == [exists |-> TRUE, deleting |-> FALSE, fins |-> {},
                   uid |-> mc.uid + 1]
  <2>1. c \in Cluster /\ c.uid > mc.uid
    BY <1>1, <1>m, BoundsAssumption DEF UserCreates, Cluster, Uids
  <2>2. Evolves /\ cache' = cache /\ undelivered' \subseteq Requests
    BY <1>1, <1>t, <2>1, WriteFacts DEF UserCreates
  <2> QED
    BY <1>1, <1>w, <2>2, QuietStep DEF UserCreates, workVars, requestVars, boundVars
<1>2. CASE UserDeletes
  <2> DEFINE c == [mc EXCEPT !.deleting = TRUE]
  <2>1. /\ c \in Cluster /\ c.uid = mc.uid /\ mc.exists
        /\ mc.deleting => (c.deleting /\ c.fins \subseteq mc.fins)
    BY <1>2, <1>m DEF UserDeletes, Cluster
  <2>2. Evolves /\ cache' = cache /\ undelivered' \subseteq Requests
    BY <1>2, <1>t, <2>1, WriteFacts DEF UserDeletes
  <2> QED
    BY <1>2, <1>w, <2>2, QuietStep DEF UserDeletes, workVars, requestVars, boundVars
<1>3. ASSUME NEW f \in Foreign, ForeignAdds(f) PROVE IInv'
  <2> DEFINE c == [mc EXCEPT !.fins = @ \cup {f}]
  <2>1. /\ c \in Cluster /\ c.uid = mc.uid /\ mc.exists
        /\ mc.deleting => (c.deleting /\ c.fins \subseteq mc.fins)
    BY <1>3, <1>m DEF ForeignAdds, Cluster, Finalizers
  <2>2. Evolves /\ cache' = cache /\ undelivered' \subseteq Requests
    BY <1>3, <1>t, <2>1, WriteFacts DEF ForeignAdds
  <2> QED
    BY <1>3, <1>w, <1>d, <2>2, QuietStep DEF ForeignAdds, workVars, requestVars
<1>4. ASSUME NEW f \in Foreign, ForeignRemoves(f) PROVE IInv'
  <2> DEFINE c == [mc EXCEPT !.fins = @ \ {f}]
  <2>1. /\ c \in Cluster /\ c.uid = mc.uid /\ mc.exists
        /\ mc.deleting => (c.deleting /\ c.fins \subseteq mc.fins)
    BY <1>4, <1>m DEF ForeignRemoves, Cluster
  <2>2. Evolves /\ cache' = cache /\ undelivered' \subseteq Requests
    BY <1>4, <1>t, <2>1, WriteFacts DEF ForeignRemoves
  <2> QED
    BY <1>4, <1>w, <2>2, QuietStep DEF ForeignRemoves, workVars, requestVars, boundVars
<1>5. CASE WorksLost
  BY <1>5, <1>t, <1>w, <1>z, <1>d, <1>e, WriteWorksFacts, QuietStep
  DEF WorksLost, clusterVars, requestVars
<1>6. CASE GarbageCollects
  BY <1>6, <1>t, <1>w, <1>z, <1>e, WriteWorksFacts, QuietStep
  DEF GarbageCollects, clusterVars, requestVars, boundVars
<1>7. CASE ImportSecretCreated
  <2>1. queue' \subseteq Requests
    BY <1>7, <1>w DEF ImportSecretCreated, Requests, WorkKeys
  <2> QED
    BY <1>7, <1>w, <1>e, <2>1, QuietStep DEF ImportSecretCreated, clusterVars, boundVars
<1>8. CASE CacheSync
  <2>1. queue' \subseteq Requests /\ undelivered' \subseteq Requests
    BY <1>8, <1>w DEF CacheSync
  <2> QED
    BY <1>8, <1>w, <1>e, <2>1, QuietStep DEF CacheSync, workVars, boundVars
<1>9. CASE CacheResync
  <2>1. queue' \subseteq Requests
    BY <1>9, <1>w DEF CacheResync, Watched
  <2> QED
    BY <1>9, <1>w, <1>e, <2>1, QuietStep DEF CacheResync, clusterVars, workVars, boundVars
<1>10. CASE WorksSync
  <2>1. /\ queue' \subseteq Requests
        /\ worksCache' \in BOOLEAN /\ worksChanged' \in BOOLEAN
    BY <1>10, <1>w DEF WorksSync, Requests, WorkKeys
  <2> QED
    BY <1>10, <1>w, <1>e, <2>1, QuietStep DEF WorksSync, clusterVars, boundVars
<1>11. CASE Restart
  <2>1. TypeOK'
    <3>1. queue' \subseteq Requests
      BY <1>11 DEF Restart, Watched, Requests, WorkKeys
    <3>2. "idle" \in Steps
      BY DEF Steps
    <3>3. disturbances' \in 0 .. MaxDisturbances
      BY <1>11, <1>d DEF Restart
    <3>4. worksCache' \in BOOLEAN /\ worksChanged' \in BOOLEAN
      BY <1>11 DEF Restart
    <3> QED
      BY <1>11, <1>t, <3>1, <3>2, <3>3, <3>4, NoClusterType DEF Restart, TypeOK
  <2>2. Evolves /\ CopiesFrom /\ cache' = mc'
    BY <1>11, <1>e DEF Restart, CopiesFrom
  <2>3. NoFutureCopies' /\ DeletingCopiesCover'
    BY <2>2, CoverPreserved
  <2>4. CleanupCopyDeleting'
    BY <1>11, <1>q DEF Restart, CleanupCopyDeleting, CleanupSteps
  <2> QED
    BY <2>1, <2>3, <2>4 DEF IInv
<1>12. CASE MetaReconcile
  <2> DEFINE s == IF cache.exists /\ ~cache.deleting /\ Import \notin cache.fins
                    THEN "ensureMeta" ELSE "idle"
  <2>1. s \in Steps
    BY DEF Steps
  <2>2. Moves(Meta)
    BY <1>12, <1>t, <1>q, <2>1, TakeFacts DEF MetaReconcile
  <2> QED
    BY <1>12, <1>w, <1>e, <1>q, <2>2, RequestStep
    DEF MetaReconcile, clusterVars, workVars
<1>13. CASE EnsureManagedClusterMetaObj
  <2>1. copy[Meta].fins \cup {Import} \in SUBSET Finalizers /\ "idle" \in Steps
    BY <1>t, RequestFacts DEF TypeOK, Cluster, Steps
  <2>2. Evolves /\ cache' = cache /\ undelivered' \subseteq Requests /\ Moves(Meta)
    BY <1>13, <1>t, <1>q, <2>1, PatchFacts DEF EnsureManagedClusterMetaObj
  <2> QED
    BY <1>13, <1>w, <1>q, <2>2, RequestStep DEF EnsureManagedClusterMetaObj, workVars
<1>14. ASSUME NEW r \in WorkKeys, WorkStep(r) PROVE IInv'
  <2>0. r \in Requests /\ r # Cleanup
    BY RequestFacts
  <2>1. CASE WorkReconcile(r)
    <3>1. AssertManifestWorkFinalizer \in Steps
      BY DEF AssertManifestWorkFinalizer, Steps
    <3>2. Moves(r)
      BY <1>t, <2>0, <2>1, <3>1, TakeFacts DEF WorkReconcile
    <3> QED
      BY <1>w, <1>e, <2>0, <2>1, <3>2, RequestStep
      DEF WorkReconcile, clusterVars, workVars
  <2>2. CASE RemoveManagedClusterFinalizer(r)
    <3>1. copy[r].fins \ {ManifestWork} \in SUBSET Finalizers /\ "apply" \in Steps
      BY <1>t, <2>0 DEF TypeOK, Cluster, Steps
    <3>2. Evolves /\ cache' = cache /\ undelivered' \subseteq Requests /\ Moves(r)
      BY <1>t, <2>0, <2>2, <3>1, PatchFacts DEF RemoveManagedClusterFinalizer
    <3> QED
      BY <1>w, <2>0, <2>2, <3>2, RequestStep DEF RemoveManagedClusterFinalizer, workVars
  <2>3. CASE AddManagedClusterFinalizer(r)
    <3>1. copy[r].fins \cup {ManifestWork} \in SUBSET Finalizers /\ "apply" \in Steps
      BY <1>t, <2>0, RequestFacts DEF TypeOK, Cluster, Steps
    <3>2. Evolves /\ cache' = cache /\ undelivered' \subseteq Requests /\ Moves(r)
      BY <1>t, <2>0, <2>3, <3>1, PatchFacts DEF AddManagedClusterFinalizer
    <3> QED
      BY <1>w, <2>0, <2>3, <3>2, RequestStep DEF AddManagedClusterFinalizer, workVars
  <2>4. CASE ApplyManifestWorks(r)
    <3>1. (IF secret THEN copy[r].uid ELSE works) \in Uids
      BY <1>t, <1>w, <2>0 DEF TypeOK, Cluster
    <3>2. /\ works' \in Uids /\ worksCache' \in BOOLEAN
          /\ worksChanged' \in BOOLEAN /\ secret' \in BOOLEAN
      BY <1>t, <2>4, <3>1, WriteWorksFacts DEF ApplyManifestWorks
    <3>3. Moves(r)
      BY <1>t, <2>0, <2>4, ContinueFacts DEF ApplyManifestWorks, Steps
    <3> QED
      BY <1>w, <1>e, <2>0, <2>4, <3>2, <3>3, RequestStep
      DEF ApplyManifestWorks, clusterVars
  <2> QED
    BY <1>14, <2>1, <2>2, <2>3, <2>4 DEF WorkStep
<1>15. CASE CleanupReconcile
  <2> DEFINE s == IF ~cache.exists THEN "orphan"
                  ELSE IF cache.deleting THEN "clean" ELSE "idle"
  <2>1. s \in Steps
    BY DEF Steps
  <2>2. /\ Moves(Cleanup) /\ step'[Cleanup] = s
        /\ s # "idle" => copy'[Cleanup] = cache
    BY <1>15, <1>t, <1>q, <2>1, TakeFacts DEF CleanupReconcile
  <2>3. step'[Cleanup] \in CleanupSteps => copy'[Cleanup].deleting
    BY <2>2 DEF CleanupSteps
  <2> QED
    BY <1>15, <1>w, <1>e, <1>q, <2>2, <2>3, RequestStep
    DEF CleanupReconcile, clusterVars, workVars
<1>16. CASE OrphanCleanup
  <2>1. Moves(Cleanup) /\ step'[Cleanup] = "idle"
    BY <1>16, <1>t, <1>q, ContinueFacts DEF OrphanCleanup, Steps
  <2>2. /\ works' \in Uids /\ worksCache' \in BOOLEAN
        /\ worksChanged' \in BOOLEAN /\ secret' \in BOOLEAN
    BY <1>16, <1>t, <1>z, WriteWorksFacts DEF OrphanCleanup
  <2> QED
    BY <1>16, <1>w, <1>e, <1>q, <2>1, <2>2, RequestStep
    DEF OrphanCleanup, clusterVars, CleanupSteps
<1>17. ASSUME NEW gone \in BOOLEAN, CleanupWorks(gone) PROVE IInv'
  <2>1. Moves(Cleanup) /\ copy'[Cleanup] = copy[Cleanup]
    BY <1>17, <1>t, <1>q, ContinueFacts DEF CleanupWorks, Steps
  <2>2. /\ works' \in Uids /\ worksCache' \in BOOLEAN
        /\ worksChanged' \in BOOLEAN /\ secret' \in BOOLEAN
    BY <1>17, <1>t, <1>w, <1>z, WriteWorksFacts DEF CleanupWorks
  <2>3. copy[Cleanup].deleting
    BY <1>17 DEF CleanupWorks, IInv, CleanupCopyDeleting, CleanupSteps
  <2> QED
    BY <1>17, <1>w, <1>e, <1>q, <2>1, <2>2, <2>3, RequestStep
    DEF CleanupWorks, clusterVars
<1>18. CASE CleanupCompleted
  <2>1. copy[Cleanup].deleting
    BY <1>18 DEF CleanupCompleted, IInv, CleanupCopyDeleting, CleanupSteps
  <2>2. CASE Continue(Cleanup, "removeFinalizers")
    <3>1. Moves(Cleanup) /\ copy'[Cleanup] = copy[Cleanup]
      BY <1>t, <1>q, <2>2, ContinueFacts DEF Steps
    <3> QED
      BY <1>18, <1>w, <1>e, <1>q, <2>1, <3>1, RequestStep
      DEF CleanupCompleted, clusterVars, workVars
  <2>3. CASE Requeue(Cleanup)
    <3>1. Moves(Cleanup) /\ step'[Cleanup] = "idle"
      BY <1>t, <1>q, <2>3, RequeueFacts
    <3> QED
      BY <1>18, <1>w, <1>e, <1>q, <3>1, RequestStep
      DEF CleanupCompleted, clusterVars, workVars, CleanupSteps
  <2> QED
    BY <1>18, <2>2, <2>3 DEF CleanupCompleted
<1>19. CASE RemoveClusterFinalizers
  <2>1. RemainingFinalizers \in SUBSET Finalizers /\ "idle" \in Steps
    BY <1>t, <1>q DEF RemainingFinalizers, TypeOK, Cluster, Steps
  <2>2. CASE Continue(Cleanup, "idle") /\ UNCHANGED clusterVars
    <3>1. Moves(Cleanup) /\ step'[Cleanup] = "idle"
      BY <1>t, <1>q, <2>1, <2>2, ContinueFacts
    <3> QED
      BY <1>19, <1>w, <1>e, <1>q, <2>2, <3>1, RequestStep
      DEF RemoveClusterFinalizers, clusterVars, workVars, CleanupSteps
  <2>3. CASE Patch(Cleanup, RemainingFinalizers, "idle")
    <3>1. /\ Evolves /\ cache' = cache /\ undelivered' \subseteq Requests
          /\ Moves(Cleanup) /\ step'[Cleanup] = "idle"
      BY <1>t, <1>q, <2>1, <2>3, PatchFacts
    <3> QED
      BY <1>19, <1>w, <1>q, <3>1, RequestStep
      DEF RemoveClusterFinalizers, workVars, CleanupSteps
  <2> QED
    BY <1>19, <2>2, <2>3 DEF RemoveClusterFinalizers
<1>20. CASE UNCHANGED vars
  BY <1>20, <1>w, <1>e, QuietStep
  DEF vars, clusterVars, workVars, requestVars, boundVars
<1> QED
  BY <1>1, <1>2, <1>3, <1>4, <1>5, <1>6, <1>7, <1>8, <1>9, <1>10, <1>11,
     <1>12, <1>13, <1>14, <1>15, <1>16, <1>17, <1>18, <1>19, <1>20 DEF Next

(* IInv is an invariant of the finalizer protocol. *)
LEMMA SpecIInv == Spec => []IInv
BY InitIInv, NextIInv, PTL DEF Spec

(* Type correctness, for all values of the constants: in particular no     *)
(* controller ever writes a finalizer that is neither ours nor foreign.    *)
THEOREM TypeCorrect == Spec => []TypeOK
<1>1. IInv => TypeOK
  BY DEF IInv
<1> QED
  BY SpecIInv, <1>1, PTL

(***************************************************************************)
(* A copy of a deleting cluster, in the cache or in the hands of any       *)
(* controller, lists every finalizer the cluster still has: what a stale   *)
(* patch computes from it can be too long, never too short.                *)
(***************************************************************************)
THEOREM StaleCopiesCover == Spec => []DeletingCopiesCover
<1>1. IInv => DeletingCopiesCover
  BY DEF IInv
<1> QED
  BY SpecIInv, <1>1, PTL

(***************************************************************************)
(* resourcecleanup-controller's merge patch, computed from a cached copy   *)
(* and sent without a precondition, leaves the finalizers of the other     *)
(* components exactly as they are.                                         *)
(***************************************************************************)
THEOREM CleanupKeepsForeignFinalizers == Spec => CleanupKeepsForeign
<1> DEFINE A == (step[Cleanup] = "removeFinalizers" /\ copy[Cleanup].uid = mc.uid
                   /\ step'[Cleanup] = "idle")
                  => mc'.fins \cap Foreign = mc.fins \cap Foreign
<1>1. ASSUME IInv, [Next]_vars PROVE A
  <2> SUFFICES ASSUME step[Cleanup] = "removeFinalizers",
                      copy[Cleanup].uid = mc.uid, step'[Cleanup] = "idle"
               PROVE  mc'.fins \cap Foreign = mc.fins \cap Foreign
    OBVIOUS
  <2>t. TypeOK /\ mc \in Cluster /\ copy[Cleanup] \in Cluster
    BY <1>1, RequestFacts DEF IInv, TypeOK
  <2>q. Meta \in Requests /\ Cleanup \in Requests \ {Meta}
    BY RequestFacts
  <2>1. CASE RemoveClusterFinalizers
    <3>1. CASE Accepted(mc, RemainingFinalizers)
                 /\ Write([mc EXCEPT !.fins = RemainingFinalizers])
      \* The copy covers the list, the list covers the patch.
      <4>1. copy[Cleanup].deleting
        BY <1>1 DEF IInv, CleanupCopyDeleting, CleanupSteps
      <4>2. mc.fins \subseteq copy[Cleanup].fins /\ mc.deleting
        BY <1>1, <3>1, <4>1, <2>q DEF Accepted, IInv, DeletingCopiesCover, Covers
      <4>3. RemainingFinalizers \subseteq mc.fins
        BY <3>1, <4>2 DEF Accepted
      <4>4. mc.fins \cap Foreign \subseteq RemainingFinalizers
        BY <4>2, ForeignAssumption DEF RemainingFinalizers
      <4>5. mc'.fins = RemainingFinalizers
        <5>1. [mc EXCEPT !.fins = RemainingFinalizers] \in Cluster
          BY <2>t, <4>3 DEF Cluster
        <5> QED
          BY <3>1, <5>1, <2>t, SettledFacts DEF Write, Cluster
      <4> QED
        BY <4>3, <4>4, <4>5
    <3>2. CASE UNCHANGED clusterVars
      BY <3>2 DEF clusterVars
    <3> QED
      BY <2>1, <3>1, <3>2 DEF RemoveClusterFinalizers, Patch
  <2>2. CASE \/ UserCreates \/ UserDeletes \/ WorksLost \/ GarbageCollects
             \/ ImportSecretCreated \/ CacheSync \/ CacheResync \/ WorksSync
             \/ UNCHANGED vars
    BY <2>2 DEF UserCreates, UserDeletes, WorksLost, GarbageCollects,
                ImportSecretCreated, CacheSync, CacheResync, WorksSync, vars,
                requestVars
  <2>3. ASSUME NEW f \in Foreign, ForeignAdds(f) \/ ForeignRemoves(f)
        PROVE  FALSE
    BY <2>3 DEF ForeignAdds, ForeignRemoves, requestVars
  <2>4. CASE Restart
    BY <2>4 DEF Restart
  <2>5. CASE \/ MetaReconcile \/ CleanupReconcile \/ OrphanCleanup
             \/ CleanupCompleted \/ \E gone \in BOOLEAN : CleanupWorks(gone)
    BY <2>5 DEF MetaReconcile, CleanupReconcile, OrphanCleanup, CleanupWorks,
                CleanupCompleted, clusterVars
  <2>6. CASE EnsureManagedClusterMetaObj
    <3>1. copy[Meta].fins \cup {Import} \in SUBSET Finalizers /\ "idle" \in Steps
      BY <2>t, RequestFacts DEF TypeOK, Cluster, Steps
    <3>2. Moves(Meta)
      BY <2>t, <2>q, <2>6, <3>1, PatchFacts DEF EnsureManagedClusterMetaObj
    <3> QED
      BY <2>q, <3>2 DEF Moves
  <2>7. ASSUME NEW r \in WorkKeys, WorkStep(r)
        PROVE  mc'.fins \cap Foreign = mc.fins \cap Foreign
    <3>0. r \in Requests /\ Cleanup \in Requests \ {r}
      BY RequestFacts
    <3>1. CASE WorkReconcile(r) \/ ApplyManifestWorks(r)
      BY <3>1 DEF WorkReconcile, ApplyManifestWorks, clusterVars
    <3>2. CASE RemoveManagedClusterFinalizer(r) \/ AddManagedClusterFinalizer(r)
      <4>1. /\ copy[r].fins \ {ManifestWork} \in SUBSET Finalizers
            /\ copy[r].fins \cup {ManifestWork} \in SUBSET Finalizers
            /\ "apply" \in Steps
        BY <2>t, <3>0, RequestFacts DEF TypeOK, Cluster, Steps
      <4>2. Moves(r)
        BY <2>t, <3>0, <3>2, <4>1, PatchFacts
        DEF RemoveManagedClusterFinalizer, AddManagedClusterFinalizer
      <4> QED
        BY <3>0, <4>2 DEF Moves
    <3> QED
      BY <2>7, <3>1, <3>2 DEF WorkStep
  <2> QED
    BY <1>1, <2>1, <2>2, <2>3, <2>4, <2>5, <2>6, <2>7 DEF Next
<1> QED
  BY SpecIInv, <1>1, PTL DEF Spec, CleanupKeepsForeign
=============================================================================
