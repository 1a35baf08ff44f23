------------------------ MODULE ClusterDetachProofs ------------------------
(***************************************************************************)
(* A detach leaves nothing behind, and goes in order, for every setting.   *)
(*                                                                         *)
(* None of the safety properties is inductive: the works are checked in    *)
(* one step and the finalizers removed in a later one, from a copy of the  *)
(* cluster that is older still.  The invariant says what makes up for the  *)
(* time in between: once a deletion is requested the works only become     *)
(* fewer, but for late ones, so whatever was seen to be gone stays gone;   *)
(* and whatever may let the cluster or its namespace go - a finalizer that *)
(* is missing on the API server, in the cache or in a copy, a reconcile    *)
(* past its checks, a decision to delete the namespace - was preceded by   *)
(* such an observation.                                                    *)
(***************************************************************************)
EXTENDS ClusterDetach, TLAPS

(* The deletion of the cluster was requested. *)
Going == ~mc.exists \/ mc.deleting

(* No work is left but those that came late. *)
WorksClean == Present(work) \subseteq late
HostingClean == Present(hwork) \subseteq late

(* A cluster has its works in one place. *)
ModeOK ==
    /\ Hosted => work = NoWorks
    /\ ~Hosted => hwork = NoHostingWorks

(* The finalizers that a cluster has until its deletion is requested: the  *)
(* creator never patches them away, whatever it read.                      *)
Pinned == {Import, Registration}
HoldsFinalizers(c) ==
    /\ c.exists /\ ~c.deleting => Pinned \subseteq c.fins
    /\ ~c.exists => c.fins = {}

FinalizersOK ==
    /\ HoldsFinalizers(mc) /\ HoldsFinalizers(cache)
    /\ create.step \in {"addFinalizer", "removeFinalizer"}
         => Pinned \subseteq create.fins

(* Caches and reconciliations are behind: a deletion they know of was      *)
(* requested.                                                              *)
BehindOK ==
    /\ ~cache.exists \/ cache.deleting => Going
    /\ clean.step # "idle" => Going

(* Something has happened that may let the cluster, or its namespace, go   *)
(* without another look at the works.                                      *)
WorksFreed ==
    \/ Registration \notin mc.fins
    \/ Registration \notin cache.fins
    \/ clean.step \notin {"idle", "orphan"} /\ Registration \notin clean.fins
    \/ clean.step \in {"checkHosting", "removeFinalizers"}
    \/ Import \notin mc.fins
    \/ nsdel = "delete"
    \/ ns # "active"
HostingFreed == clean.step = "removeFinalizers" \/ Import \notin mc.fins

(* By then the works are gone. *)
CleanOK ==
    ~UserStrips => /\ WorksFreed => Going /\ WorksClean
                   /\ HostingFreed => Going /\ HostingClean

(* The works that are to go before ws are gone.  It holds of a list that   *)
(* deleteHostingManifestWorks goes by, and of works being deleted.         *)
Ordered(ws) ==
    \A w \in ws : \A v \in DeletedBefore(w) \ late : hwork[v] = "none"
OrderOK == clean.step = "deleteHosting" => Ordered(clean.targets)

SinkingOK ==
    \A w \in HostingWorks : hwork[w] = "deleting" => Going /\ (mc.exists => Ordered({w}))

IInv ==
    TypeOK /\ ModeOK /\ FinalizersOK /\ BehindOK /\ CleanOK /\ OrderOK /\ SinkingOK

-----------------------------------------------------------------------------
(* Types. *)

LEMMA SettledType == \A c \in Cluster : Settled(c) \in Cluster
BY DEF Settled, Cluster

LEMMA DeletedType ==
    ASSUME NEW S, NEW f \in [S -> WorkStates], NEW ws
    PROVE  Deleted(f, ws) \in [S -> WorkStates]
BY DEF Deleted, WorkStates

LEMMA NoneType ==
    /\ NoWorks \in [Works -> WorkStates]
    /\ NoHostingWorks \in [HostingWorks -> WorkStates]
BY DEF NoWorks, NoHostingWorks, WorkStates

LEMMA IdleType == Idle \in Cleaning
BY DEF Idle, Cleaning, CleanSteps, Conditions

LEMMA GotoType ==
    ASSUME NEW s \in CleanSteps, clean \in Cleaning, queued \in BOOLEAN,
           Goto(s)
    PROVE  clean' \in Cleaning /\ queued' \in BOOLEAN
BY DEF Goto, Cleaning, Conditions

LEMMA RequeueType ==
    ASSUME Requeue PROVE clean' \in Cleaning /\ queued' \in BOOLEAN
BY IdleType DEF Requeue

LEMMA DoneType ==
    ASSUME Done, queued \in BOOLEAN
    PROVE  clean' \in Cleaning /\ queued' \in BOOLEAN
BY IdleType DEF Done

LEMMA ForceDoneType ==
    ASSUME ForceCleanupDone, clean \in Cleaning, queued \in BOOLEAN
    PROVE  clean' \in Cleaning /\ queued' \in BOOLEAN
BY GotoType, RequeueType DEF ForceCleanupDone, CleanSteps

LEMMA SettingType ==
    ASSUME TypeOK
    PROVE  /\ Hosted \in BOOLEAN /\ HasCRDs \in BOOLEAN
           /\ MaxFlips \in Nat /\ MaxFailures \in Nat
BY SettingsAssumption DEF TypeOK, Hosted, HasCRDs, MaxFlips, MaxFailures

LEMMA CreateGotoType ==
    ASSUME NEW s \in CreateSteps, CreateGoto(s) PROVE create' \in Creating
BY DEF CreateGoto, Creating

LEMMA InitType == Init => TypeOK
<1> SUFFICES ASSUME Init PROVE TypeOK
  OBVIOUS
<1>1. setting \in Settings /\ 0 \in 0 .. MaxFlips /\ 0 \in 0 .. MaxFailures
  BY SettingsAssumption DEF Init, MaxFlips, MaxFailures
<1>2. mc \in Cluster /\ agentUp \in BOOLEAN
  BY DEF Init, Cluster, Finalizers, Availability, Conditions
<1>3. create \in Creating
  BY DEF Init, Creating, CreateSteps
<1> QED
  BY <1>1, <1>2, <1>3, NoneType, IdleType DEF Init, TypeOK, AddonStates, Cluster

(* What users, agents, Kubernetes and the informers do. *)
LEMMA EnvironmentType ==
    ASSUME TypeOK,
           \/ UserDeletes \/ UserStripsFinalizers \/ AddonEnabled \/ AgentFlips
           \/ AvailabilityReported \/ RegistrationDeletes \/ RegistrationFinishes
           \/ AgentWorks \/ HostingAgentWorks \/ NamespaceTerminates
           \/ GarbageCollects \/ ClusterSync \/ ClusterResync \/ AddonSync
           \/ BindingSync \/ WorksSync
    PROVE  TypeOK'
<1> USE SettingType DEF TypeOK, cacheVars, hubVars, controllerVars, boundVars
<1>1. CASE UserDeletes
  <2>1. mc' \in Cluster
    BY <1>1 DEF UserDeletes, Cluster
  <2> QED BY <1>1, <2>1 DEF UserDeletes, MaxFlips, MaxFailures
<1>2. CASE UserStripsFinalizers
  <2>1. [mc EXCEPT !.fins = {}] \in Cluster
    BY DEF Cluster
  <2> QED BY <1>2, <2>1, SettledType DEF UserStripsFinalizers, MaxFlips, MaxFailures
<1>3. CASE AddonEnabled
  <2>1. addon' \in AddonStates /\ hwork' \in [HostingWorks -> WorkStates]
    BY <1>3 DEF AddonEnabled, AddonStates, HostingWorks, WorkStates
  <2> QED BY <1>3, <2>1 DEF AddonEnabled, MaxFlips, MaxFailures
<1>4. CASE AgentFlips
  <2>1. flips' \in 0 .. MaxFlips'
    BY <1>4 DEF AgentFlips, MaxFlips
  <2> QED BY <1>4, <2>1 DEF AgentFlips, MaxFlips, MaxFailures
<1>5. CASE AvailabilityReported
  <2>1. mc' \in Cluster
    BY <1>5 DEF AvailabilityReported, Cluster, Availability
  <2> QED BY <1>5, <2>1 DEF AvailabilityReported, MaxFlips, MaxFailures
<1>6. CASE RegistrationDeletes
  <2>1. addon' \in AddonStates /\ work' \in [Works -> WorkStates]
    <3>1. \A w : Deleted(work, {w}) \in [Works -> WorkStates]
      BY DeletedType
    <3> QED BY <1>6, <3>1 DEF RegistrationDeletes, AddonStates
  <2> QED BY <1>6, <2>1 DEF RegistrationDeletes, MaxFlips, MaxFailures
<1>7. CASE RegistrationFinishes
  <2>1. [mc EXCEPT !.fins = @ \ {Registration}] \in Cluster
    BY DEF Cluster
  <2> QED BY <1>7, <2>1, SettledType DEF RegistrationFinishes, MaxFlips, MaxFailures
<1>8. CASE AgentWorks
  <2>1. addon' \in AddonStates /\ work' \in [Works -> WorkStates] /\ agentUp' \in BOOLEAN
    BY <1>8 DEF AgentWorks, AddonStates, WorkStates
  <2> QED BY <1>8, <2>1 DEF AgentWorks, MaxFlips, MaxFailures
<1>9. CASE HostingAgentWorks
  <2>1. addon' \in AddonStates /\ hwork' \in [HostingWorks -> WorkStates]
    BY <1>9 DEF HostingAgentWorks, AddonStates, WorkStates, HostingWorks
  <2> QED BY <1>9, <2>1 DEF HostingAgentWorks, MaxFlips, MaxFailures
<1>10. CASE NamespaceTerminates
  <2>1. addon' \in AddonStates /\ work' \in [Works -> WorkStates]
    BY <1>10, DeletedType DEF NamespaceTerminates, AddonStates
  <2> QED BY <1>10, <2>1 DEF NamespaceTerminates, MaxFlips, MaxFailures
<1>11. CASE GarbageCollects
  BY <1>11, DeletedType DEF GarbageCollects, MaxFlips, MaxFailures
<1>12. CASE ClusterSync
  BY <1>12 DEF ClusterSync, CleanupWatches, MaxFlips, MaxFailures
<1>13. CASE ClusterResync
  BY <1>13 DEF ClusterResync, MaxFlips, MaxFailures
<1>14. CASE AddonSync
  BY <1>14 DEF AddonSync, MaxFlips, MaxFailures
<1>15. CASE BindingSync
  BY <1>15 DEF BindingSync, MaxFlips, MaxFailures
<1>16. CASE WorksSync
  BY <1>16 DEF WorksSync, MaxFlips, MaxFailures
<1> QED
  BY <1>1, <1>2, <1>3, <1>4, <1>5, <1>6, <1>7, <1>8, <1>9, <1>10, <1>11, <1>12,
     <1>13, <1>14, <1>15, <1>16

(* The creator and clusternamespacedeletion-controller. *)
LEMMA CreatorType ==
    ASSUME TypeOK,
           \/ CreateReconcile \/ CreateStep \/ NamespaceReconcile \/ DeleteNamespace
    PROVE  TypeOK'
<1> USE SettingType DEF TypeOK, cacheVars, hubVars, controllerVars, boundVars
<1>1. CASE CreateReconcile
  <2>1. create' \in Creating
    BY <1>1 DEF CreateReconcile, Creating, CreateSteps, Cluster
  <2> QED BY <1>1, <2>1 DEF CreateReconcile, MaxFlips, MaxFailures
<1>2. CASE AssertManifestWorkFinalizer
  <2> DEFINE new == IF create.step = "addFinalizer"
                      THEN create.fins \cup {ManifestWork}
                      ELSE create.fins \ {ManifestWork}
  <2>1. [mc EXCEPT !.fins = new] \in Cluster
    BY DEF Cluster, Creating, Finalizers
  <2> HIDE DEF new
  <2>2. mc' \in Cluster
    BY <1>2, <2>1, SettledType DEF AssertManifestWorkFinalizer, new
  <2>3. create' \in Creating
    BY <1>2, CreateGotoType DEF AssertManifestWorkFinalizer, CreateSteps
  <2> QED BY <1>2, <2>2, <2>3 DEF AssertManifestWorkFinalizer, MaxFlips, MaxFailures
<1>3. CASE ApplyManifestWorks
  <2>1. work' \in [Works -> WorkStates] /\ late' \subseteq Works \cup HostingWorks
    BY <1>3 DEF ApplyManifestWorks, Late, Works, WorkStates
  <2>2. create' \in Creating
    BY <1>3, CreateGotoType DEF ApplyManifestWorks, CreateSteps
  <2> QED BY <1>3, <2>1, <2>2 DEF ApplyManifestWorks, MaxFlips, MaxFailures
<1>4. CASE ApplyHostingWorks
  <2>1. hwork' \in [HostingWorks -> WorkStates] /\ late' \subseteq Works \cup HostingWorks
    BY <1>4 DEF ApplyHostingWorks, Late, HostingWorks, WorkStates
  <2>2. create' \in Creating
    BY <1>4, CreateGotoType DEF ApplyHostingWorks, CreateSteps
  <2> QED BY <1>4, <2>1, <2>2 DEF ApplyHostingWorks, MaxFlips, MaxFailures
<1>5. CASE UpdateImportCondition
  <2>1. mc' \in Cluster
    BY <1>5 DEF UpdateImportCondition, Cluster, Conditions
  <2>2. create' \in Creating
    BY <1>5, CreateGotoType DEF UpdateImportCondition, CreateSteps
  <2> QED BY <1>5, <2>1, <2>2 DEF UpdateImportCondition, MaxFlips, MaxFailures
<1>6. CASE NamespaceReconcile
  BY <1>6 DEF NamespaceReconcile, MaxFlips, MaxFailures
<1>7. CASE DeleteNamespace
  BY <1>7 DEF DeleteNamespace, MaxFlips, MaxFailures
<1> QED
  BY <1>1, <1>2, <1>3, <1>4, <1>5, <1>6, <1>7 DEF CreateStep

(* resourcecleanup-controller. *)
LEMMA CleanerType ==
    ASSUME TypeOK, CleanStep \/ CleanFails PROVE TypeOK'
<1> USE SettingType DEF TypeOK, cacheVars, hubVars, controllerVars, boundVars
<1>1. CASE CleanReconcile
  <2>1. clusterNeedForceDelete(cache) \in BOOLEAN
    BY DEF clusterNeedForceDelete
  <2>2. clean' \in Cleaning
    BY <1>1, <2>1, IdleType DEF CleanReconcile, Cleaning, CleanSteps, Cluster
  <2> QED BY <1>1, <2>2 DEF CleanReconcile, MaxFlips, MaxFailures
<1>2. CASE updateDetachingCondition
  <2>1. mc' \in Cluster
    BY <1>2 DEF updateDetachingCondition, Cluster, Conditions
  <2>2. clean' \in Cleaning /\ queued' \in BOOLEAN
    BY <1>2, GotoType, RequeueType DEF updateDetachingCondition, CleanSteps
  <2> QED BY <1>2, <2>1, <2>2 DEF updateDetachingCondition, MaxFlips, MaxFailures
<1>3. CASE forceCleanup
  <2>1. clean' \in Cleaning /\ queued' \in BOOLEAN
    BY <1>3, GotoType DEF forceCleanup, CleanSteps
  <2> QED BY <1>3, <2>1 DEF forceCleanup, MaxFlips, MaxFailures
<1>4. CASE ForceDeleteAllManagedClusterAddons
  <2>1. addon' \in AddonStates
    BY <1>4 DEF ForceDeleteAllManagedClusterAddons, ForceDeletedAddon, AddonStates
  <2>2. clean' \in Cleaning /\ queued' \in BOOLEAN
    BY <1>4, GotoType DEF ForceDeleteAllManagedClusterAddons, CleanSteps
  <2> QED
    BY <1>4, <2>1, <2>2 DEF ForceDeleteAllManagedClusterAddons, MaxFlips, MaxFailures
<1>5. CASE forceDeleteManifestWorks
  <2>1. clean' \in Cleaning /\ queued' \in BOOLEAN
    BY <1>5, GotoType DEF forceDeleteManifestWorks, CleanSteps
  <2> QED
    BY <1>5, <2>1, NoneType DEF forceDeleteManifestWorks, MaxFlips, MaxFailures
<1>6. CASE forceListAddons
  <2>1. clean' \in Cleaning /\ queued' \in BOOLEAN
    BY <1>6, GotoType, ForceDoneType DEF forceListAddons, CleanSteps
  <2> QED BY <1>6, <2>1 DEF forceListAddons, MaxFlips, MaxFailures
<1>7. CASE listHostingManifestWorks
  <2>1. clean' \in Cleaning
    <3>1. HostingTargets \subseteq HostingWorks
      BY DEF HostingTargets, Present
    <3> QED BY <1>7, <3>1 DEF listHostingManifestWorks, Cleaning, CleanSteps
  <2> QED BY <1>7, <2>1 DEF listHostingManifestWorks, MaxFlips, MaxFailures
<1>8. CASE deleteHostingManifestWorks
  <2>1. clean' \in Cleaning /\ queued' \in BOOLEAN
    <3> DEFINE gone == \E w \in clean.targets \ {"hostedAddon"} : hwork[w] = "none"
    <3>1. \/ /\ clean' = [clean EXCEPT !.step = "forceBinding",
                                       !.failed = @ \/ gone, !.targets = {}]
             /\ UNCHANGED queued
          \/ Requeue \/ Goto("checkWorks")
      BY <1>8, Zenon DEF deleteHostingManifestWorks, Cleaning
    <3> HIDE DEF gone
    <3> QED
      BY <3>1, GotoType, RequeueType DEF Cleaning, CleanSteps
  <2>2. hwork' \in [HostingWorks -> WorkStates]
    BY <1>8, DeletedType DEF deleteHostingManifestWorks
  <2> QED BY <1>8, <2>1, <2>2 DEF deleteHostingManifestWorks, MaxFlips, MaxFailures
<1>9. CASE ForceDeleteWorkRoleBinding
  <2>1. clean' \in Cleaning /\ queued' \in BOOLEAN
    BY <1>9, ForceDoneType DEF ForceDeleteWorkRoleBinding
  <2> QED BY <1>9, <2>1 DEF ForceDeleteWorkRoleBinding, MaxFlips, MaxFailures
<1>10. CASE Cleanup
  <2>1. clean' \in Cleaning /\ queued' \in BOOLEAN
    BY <1>10, GotoType DEF Cleanup, CleanSteps
  <2>2. work' \in [Works -> WorkStates]
    BY <1>10, NoneType DEF Cleanup
  <2> QED BY <1>10, <2>1, <2>2 DEF Cleanup, MaxFlips, MaxFailures
<1>11. CASE cleanupCompleted
  <2>1. clean' \in Cleaning /\ queued' \in BOOLEAN
    BY <1>11, GotoType, RequeueType DEF cleanupCompleted, CleanSteps
  <2> QED BY <1>11, <2>1 DEF cleanupCompleted, MaxFlips, MaxFailures
<1>12. CASE removeClusterFinalizers
  <2>1. [mc EXCEPT !.fins = clean.fins \ {Import, ManifestWork}] \in Cluster
    BY DEF Cluster, Cleaning
  <2>2. mc' \in Cluster
    BY <1>12, <2>1, SettledType DEF removeClusterFinalizers
  <2>3. clean' \in Cleaning /\ queued' \in BOOLEAN
    BY <1>12, DoneType, RequeueType DEF removeClusterFinalizers
  <2> QED BY <1>12, <2>2, <2>3 DEF removeClusterFinalizers, MaxFlips, MaxFailures
<1>13. CASE orphanCleanup
  <2>1. addon' \in AddonStates /\ work' \in [Works -> WorkStates] /\ rb' \in BOOLEAN
    BY <1>13, NoneType DEF orphanCleanup, ForceDeletedAddon, AddonStates
  <2>2. clean' \in Cleaning /\ queued' \in BOOLEAN
    BY <1>13, DoneType DEF orphanCleanup
  <2> QED BY <1>13, <2>1, <2>2 DEF orphanCleanup, MaxFlips, MaxFailures
<1>14. CASE CleanFails
  <2>1. AfterFailure \in CleanSteps
    BY DEF AfterFailure, CleanSteps
  <2>2. [clean EXCEPT !.step = AfterFailure, !.failed = TRUE, !.targets = {}]
          \in Cleaning
    BY <2>1 DEF Cleaning
  <2>3. clean' \in Cleaning /\ queued' \in BOOLEAN
    BY <1>14, <2>2, ForceDoneType, RequeueType DEF CleanFails
  <2>4. failures' \in 0 .. MaxFailures'
    BY <1>14 DEF CleanFails, MaxFailures
  <2> QED BY <1>14, <2>3, <2>4 DEF CleanFails, MaxFlips
<1> QED
  BY <1>1, <1>2, <1>3, <1>4, <1>5, <1>6, <1>7, <1>8, <1>9, <1>10, <1>11, <1>12,
     <1>13, <1>14 DEF CleanStep

(***************************************************************************)
(* Whatever users, agents, caches and controllers do, the hub, the caches  *)
(* and the three reconciliations keep to their types.                      *)
(***************************************************************************)
THEOREM TypeCorrect == Spec => []TypeOK
<1>1. TypeOK /\ [Next]_vars => TypeOK'
  <2> SUFFICES ASSUME TypeOK, [Next]_vars PROVE TypeOK'
    OBVIOUS
  <2>1. CASE Next
    BY <2>1, EnvironmentType, CreatorType, CleanerType DEF Next
  <2>2. CASE UNCHANGED vars
    BY <2>2
    DEF vars, TypeOK, cacheVars, hubVars, boundVars, MaxFlips, MaxFailures
  <2> QED BY <2>1, <2>2
<1> QED BY InitType, <1>1, PTL DEF Spec

-----------------------------------------------------------------------------
(***************************************************************************)
(* Who writes what: every other action leaves the variable alone.          *)
(***************************************************************************)
ClusterWriters ==
    \/ UserDeletes \/ UserStripsFinalizers \/ AvailabilityReported
    \/ RegistrationFinishes \/ AssertManifestWorkFinalizer
    \/ UpdateImportCondition \/ updateDetachingCondition
    \/ removeClusterFinalizers
WorkWriters ==
    \/ RegistrationDeletes \/ AgentWorks \/ NamespaceTerminates
    \/ GarbageCollects \/ ApplyManifestWorks \/ work' = NoWorks
HostingWorkWriters ==
    \/ AddonEnabled \/ HostingAgentWorks \/ GarbageCollects
    \/ ApplyHostingWorks \/ deleteHostingManifestWorks

LEMMA Writers ==
    ASSUME Next
    PROVE  /\ UNCHANGED setting
           /\ ClusterWriters \/ UNCHANGED mc
           /\ ClusterSync \/ UNCHANGED cache
           /\ WorkWriters \/ UNCHANGED work
           /\ HostingWorkWriters \/ UNCHANGED hwork
           /\ CleanStep \/ CleanFails \/ UNCHANGED clean
           /\ CreateReconcile \/ CreateStep \/ UNCHANGED create
           /\ NamespaceTerminates \/ DeleteNamespace \/ UNCHANGED ns
           /\ NamespaceReconcile \/ DeleteNamespace \/ UNCHANGED nsdel
           /\ ApplyManifestWorks \/ ApplyHostingWorks \/ UNCHANGED late
BY DEF Next, CreateStep, CleanStep, ClusterWriters, WorkWriters, HostingWorkWriters,
       UserDeletes, UserStripsFinalizers, AddonEnabled, AgentFlips,
       AvailabilityReported, RegistrationDeletes, RegistrationFinishes, AgentWorks,
       HostingAgentWorks, NamespaceTerminates, GarbageCollects, ClusterSync,
       ClusterResync, AddonSync, BindingSync, WorksSync, CreateReconcile,
       AssertManifestWorkFinalizer, ApplyManifestWorks, ApplyHostingWorks,
       UpdateImportCondition, NamespaceReconcile, DeleteNamespace, CleanReconcile,
       updateDetachingCondition, forceCleanup, ForceDeleteAllManagedClusterAddons,
       forceDeleteManifestWorks, forceListAddons, listHostingManifestWorks,
       deleteHostingManifestWorks, ForceDeleteWorkRoleBinding, Cleanup,
       cleanupCompleted, removeClusterFinalizers, orphanCleanup, CleanFails,
       cacheVars, hubVars, controllerVars, boundVars

(* A deletion is not taken back. *)
LEMMA SettledGoing ==
    ASSUME NEW c \in Cluster, ~c.exists \/ c.deleting
    PROVE  ~Settled(c).exists \/ Settled(c).deleting
BY DEF Settled, Cluster

LEMMA GoingStays ==
    ASSUME TypeOK, Next, Going PROVE Going'
<1> USE DEF Going, TypeOK
<1>1. CASE UserDeletes
  BY <1>1 DEF UserDeletes, Cluster
<1>2. CASE UserStripsFinalizers
  <2>1. [mc EXCEPT !.fins = {}] \in Cluster /\ [mc EXCEPT !.fins = {}].deleting
    BY <1>2 DEF Cluster, UserStripsFinalizers
  <2> QED BY <1>2, <2>1, SettledGoing DEF UserStripsFinalizers
<1>3. CASE AvailabilityReported
  BY <1>3 DEF AvailabilityReported, Cluster
<1>4. CASE RegistrationFinishes
  <2> DEFINE c == [mc EXCEPT !.fins = @ \ {Registration}]
  <2>1. c \in Cluster /\ c.deleting
    BY <1>4 DEF Cluster, RegistrationFinishes
  <2>2. mc' = Settled(c)
    BY <1>4 DEF RegistrationFinishes
  <2> HIDE DEF c
  <2> QED BY <2>1, <2>2, SettledGoing
<1>5. CASE AssertManifestWorkFinalizer
  <2> DEFINE new == IF create.step = "addFinalizer"
                      THEN create.fins \cup {ManifestWork}
                      ELSE create.fins \ {ManifestWork}
             c == [mc EXCEPT !.fins = new]
  <2>1. mc' = mc \/ mc' = Settled(c)
    BY <1>5 DEF AssertManifestWorkFinalizer
  <2>2. c \in Cluster /\ (~c.exists \/ c.deleting)
    BY DEF Cluster, Creating, Finalizers
  <2> HIDE DEF c
  <2> QED BY <2>1, <2>2, SettledGoing
<1>6. CASE UpdateImportCondition
  BY <1>6 DEF UpdateImportCondition, Cluster
<1>7. CASE updateDetachingCondition
  BY <1>7 DEF updateDetachingCondition, Cluster
<1>8. CASE removeClusterFinalizers
  <2> DEFINE c == [mc EXCEPT !.fins = clean.fins \ {Import, ManifestWork}]
  <2>1. mc' = mc \/ mc' = Settled(c)
    BY <1>8 DEF removeClusterFinalizers
  <2>2. c \in Cluster /\ (~c.exists \/ c.deleting)
    BY DEF Cluster, Cleaning
  <2> HIDE DEF c
  <2> QED BY <2>1, <2>2, SettledGoing
<1>9. CASE UNCHANGED mc
  BY <1>9
<1> QED
  BY <1>1, <1>2, <1>3, <1>4, <1>5, <1>6, <1>7, <1>8, <1>9, Writers DEF ClusterWriters

(* Works that are there after a step were there before, or come late. *)
LEMMA DeletedPresent ==
    ASSUME NEW f, NEW ws PROVE Present(Deleted(f, ws)) \subseteq Present(f)
BY DEF Deleted, Present

LEMMA NoWorksPresent == Present(NoWorks) = {} /\ Present(NoHostingWorks) = {}
BY DEF Present, NoWorks, NoHostingWorks

(* No work appears in the cluster namespace of a cluster that goes, but     *)
(* late ones.                                                               *)
LEMMA NoNewWorks ==
    ASSUME TypeOK, Next, Going
    PROVE  Present(work') \subseteq Present(work) \cup late'
<1> USE DEF TypeOK
<1>1. CASE RegistrationDeletes
  BY <1>1, DeletedPresent DEF RegistrationDeletes
<1>2. CASE AgentWorks
  BY <1>2 DEF AgentWorks, Present
<1>3. CASE NamespaceTerminates
  BY <1>3, DeletedPresent DEF NamespaceTerminates
<1>4. CASE GarbageCollects
  BY <1>4, DeletedPresent DEF GarbageCollects
<1>5. CASE ApplyManifestWorks
  BY <1>5 DEF ApplyManifestWorks, Late, Going, Present
<1>6. CASE work' = NoWorks
  BY <1>6, NoWorksPresent
<1>7. CASE UNCHANGED work
  BY <1>7
<1> QED
  BY <1>1, <1>2, <1>3, <1>4, <1>5, <1>6, <1>7, Writers DEF WorkWriters

(* Nor in the namespace of its hosting cluster. *)
LEMMA NoNewHostingWorks ==
    ASSUME TypeOK, Next, Going
    PROVE  Present(hwork') \subseteq Present(hwork) \cup late'
<1> USE DEF TypeOK
<1>1. CASE AddonEnabled
  BY <1>1 DEF AddonEnabled, Going
<1>2. CASE HostingAgentWorks
  BY <1>2 DEF HostingAgentWorks, Present
<1>3. CASE GarbageCollects
  BY <1>3, DeletedPresent DEF GarbageCollects
<1>4. CASE ApplyHostingWorks
  BY <1>4 DEF ApplyHostingWorks, Late, Going, Present
<1>5. CASE deleteHostingManifestWorks
  BY <1>5, DeletedPresent DEF deleteHostingManifestWorks
<1>6. CASE UNCHANGED hwork
  BY <1>6
<1> QED
  BY <1>1, <1>2, <1>3, <1>4, <1>5, <1>6, Writers DEF HostingWorkWriters

(* What came late stays marked. *)
LEMMA LateGrows == ASSUME Next PROVE late \subseteq late'
<1>1. CASE ApplyManifestWorks
  BY <1>1 DEF ApplyManifestWorks, Late
<1>2. CASE ApplyHostingWorks
  BY <1>2 DEF ApplyHostingWorks, Late
<1>3. CASE UNCHANGED late
  BY <1>3
<1> QED
  BY <1>1, <1>2, <1>3, Writers

-----------------------------------------------------------------------------
(* The works of a hosted cluster are in the hosting cluster's namespace,    *)
(* those of any other cluster in its own.                                   *)
LEMMA ModeStep == ASSUME TypeOK, ModeOK, Next PROVE ModeOK'
<1> USE DEF TypeOK, ModeOK, Hosted
<1>0. UNCHANGED setting
  BY Writers
<1>1. Hosted => work' = NoWorks
  <2> SUFFICES ASSUME Hosted, work = NoWorks PROVE work' = NoWorks
    OBVIOUS
  <2>1. work' \in [Works -> WorkStates]
    BY EnvironmentType, CreatorType, CleanerType DEF Next
  <2>2. Deleted(work, Works) = work /\ Deletable(work) = {}
    BY DEF Deleted, Deletable, NoWorks
  <2>3. \A w \in Works : work[w] = "none"
    BY DEF NoWorks
  <2> QED
    BY <2>1, <2>2, <2>3, Writers
    DEF WorkWriters, RegistrationDeletes, AgentWorks, NamespaceTerminates,
        GarbageCollects, ApplyManifestWorks, LastWork, Works
<1>2. ~Hosted => hwork' = NoHostingWorks
  <2> SUFFICES ASSUME ~Hosted, hwork = NoHostingWorks PROVE hwork' = NoHostingWorks
    OBVIOUS
  <2>1. \A ws : Deleted(hwork, ws) = hwork
    BY DEF Deleted, NoHostingWorks
  <2>2. \A w \in HostingWorks : hwork[w] = "none"
    BY DEF NoHostingWorks
  <2> QED
    BY <2>1, <2>2, Writers
    DEF HostingWorkWriters, AddonEnabled, HostingAgentWorks, GarbageCollects,
        ApplyHostingWorks, deleteHostingManifestWorks
<1> QED BY <1>0, <1>1, <1>2

-----------------------------------------------------------------------------
(* Finalizers. *)
LEMMA SettledHolds ==
    ASSUME NEW c \in Cluster, c.exists,
           c.deleting \/ Pinned \subseteq c.fins
    PROVE  HoldsFinalizers(Settled(c))
BY DEF Settled, HoldsFinalizers, Cluster, Pinned

LEMMA FinalizersStep == ASSUME TypeOK, FinalizersOK, BehindOK, Next PROVE FinalizersOK'
<1> USE DEF TypeOK, FinalizersOK
<1>1. HoldsFinalizers(mc)'
  <2>1. CASE UserDeletes
    BY <2>1 DEF UserDeletes, HoldsFinalizers, Cluster
  <2>2. CASE UserStripsFinalizers
    <3> DEFINE c == [mc EXCEPT !.fins = {}]
    <3>1. c \in Cluster /\ c.exists /\ c.deleting /\ mc' = Settled(c)
      BY <2>2 DEF UserStripsFinalizers, Cluster
    <3> HIDE DEF c
    <3> QED BY <3>1, SettledHolds DEF HoldsFinalizers
  <2>3. CASE AvailabilityReported
    BY <2>3 DEF AvailabilityReported, HoldsFinalizers, Cluster
  <2>4. CASE RegistrationFinishes
    <3> DEFINE c == [mc EXCEPT !.fins = @ \ {Registration}]
    <3>1. c \in Cluster /\ c.exists /\ c.deleting /\ mc' = Settled(c)
      BY <2>4 DEF RegistrationFinishes, Cluster
    <3> HIDE DEF c
    <3> QED BY <3>1, SettledHolds DEF HoldsFinalizers
  <2>5. CASE AssertManifestWorkFinalizer
    <3> DEFINE new == IF create.step = "addFinalizer"
                        THEN create.fins \cup {ManifestWork}
                        ELSE create.fins \ {ManifestWork}
               c == [mc EXCEPT !.fins = new]
    <3>1. mc' = mc \/ (mc.exists /\ mc' = Settled(c))
      BY <2>5 DEF AssertManifestWorkFinalizer, Accepted
    <3>2. Pinned \subseteq new /\ new \subseteq Finalizers
      BY <2>5
      DEF AssertManifestWorkFinalizer, Pinned, Creating, Finalizers, Import,
          Registration, ManifestWork
    <3> HIDE DEF new
    <3>3. c \in Cluster /\ Pinned \subseteq c.fins /\ (mc.exists => c.exists)
      BY <3>2 DEF Cluster
    <3> HIDE DEF c
    <3> QED BY <3>1, <3>3, SettledHolds DEF HoldsFinalizers
  <2>6. CASE UpdateImportCondition
    BY <2>6 DEF UpdateImportCondition, HoldsFinalizers, Cluster
  <2>7. CASE updateDetachingCondition
    BY <2>7 DEF updateDetachingCondition, HoldsFinalizers, Cluster
  <2>8. CASE removeClusterFinalizers
    <3> DEFINE c == [mc EXCEPT !.fins = clean.fins \ {Import, ManifestWork}]
    <3>1. mc' = mc \/ (mc.exists /\ mc' = Settled(c))
      BY <2>8 DEF removeClusterFinalizers
    <3>2. c \in Cluster /\ (mc.exists => c.exists /\ c.deleting)
      BY <2>8 DEF removeClusterFinalizers, BehindOK, Going, Cluster, Cleaning
    <3> HIDE DEF c
    <3> QED BY <3>1, <3>2, SettledHolds DEF HoldsFinalizers
  <2>9. CASE UNCHANGED mc
    BY <2>9 DEF HoldsFinalizers
  <2> QED
    BY <2>1, <2>2, <2>3, <2>4, <2>5, <2>6, <2>7, <2>8, <2>9, Writers
    DEF ClusterWriters
<1>2. HoldsFinalizers(cache)'
  BY Writers DEF ClusterSync, HoldsFinalizers
<1>3. create'.step \in {"addFinalizer", "removeFinalizer"}
        => Pinned \subseteq create'.fins
  <2>1. CASE CreateReconcile
    BY <2>1 DEF CreateReconcile, HoldsFinalizers
  <2>2. CASE CreateStep
    BY <2>2
    DEF CreateStep, AssertManifestWorkFinalizer, ApplyManifestWorks,
        ApplyHostingWorks, UpdateImportCondition, CreateGoto
  <2> QED BY <2>1, <2>2, Writers
<1> QED BY <1>1, <1>2, <1>3

(* Nobody acts on a deletion that was not requested. *)
LEMMA BehindStep == ASSUME TypeOK, BehindOK, Next PROVE BehindOK'
<1>1. Going => Going'
  BY GoingStays
<1>2. ~cache'.exists \/ cache'.deleting => Going'
  BY <1>1, Writers DEF BehindOK, ClusterSync, Going
<1>3. clean'.step # "idle" => Going'
  <2>1. CASE CleanReconcile
    BY <2>1, <1>1 DEF CleanReconcile, BehindOK, Idle
  <2>2. CASE clean.step # "idle"
    BY <2>2, <1>1 DEF BehindOK
  <2> QED
    BY <2>1, <2>2, Writers
    DEF CleanStep, updateDetachingCondition, forceCleanup,
        ForceDeleteAllManagedClusterAddons, forceDeleteManifestWorks,
        forceListAddons, listHostingManifestWorks, deleteHostingManifestWorks,
        ForceDeleteWorkRoleBinding, Cleanup, cleanupCompleted,
        removeClusterFinalizers, orphanCleanup, CleanFails
<1> QED BY <1>2, <1>3 DEF BehindOK

-----------------------------------------------------------------------------
(* How the cleanup goes on: the steps the invariant speaks of are reached   *)
(* from their predecessors only, and the finalizers that were read stay.    *)
Advances ==
    /\ clean.step \notin {"idle", "orphan"}
    /\ clean'.fins = clean.fins

LEMMA IdleStep == Idle.step = "idle" /\ Idle.targets = {}
BY DEF Idle

LEMMA GotoStep ==
    ASSUME NEW s, clean \in Cleaning, Goto(s)
    PROVE  clean'.step = s /\ clean'.fins = clean.fins
BY DEF Goto, Cleaning

LEMMA ReconcileStep ==
    ASSUME CleanReconcile
    PROVE  /\ clean'.step \in {"idle", "orphan", "condition"}
           /\ clean'.step # "idle" => ~cache.exists \/ cache.deleting
           /\ clean'.step = "condition" => clean'.fins = cache.fins
<1>1. [Idle EXCEPT !.step = "orphan"].step = "orphan"
  BY DEF Idle
<1> DEFINE c == [Idle EXCEPT !.step = "condition", !.fins = cache.fins,
                             !.force = clusterNeedForceDelete(cache),
                             !.cond = cache.cond]
<1>2. c.step = "condition" /\ c.fins = cache.fins
  BY DEF Idle
<1>3. \/ ~cache.exists /\ clean' = [Idle EXCEPT !.step = "orphan"]
      \/ clean' = Idle
      \/ cache.deleting /\ clean' = c
  BY Zenon DEF CleanReconcile
<1> HIDE DEF c
<1> QED BY <1>1, <1>2, <1>3, IdleStep

LEMMA CleanMoves ==
    ASSUME TypeOK, Next
    PROVE  \/ UNCHANGED clean
           \/ clean' = Idle
           \/ CleanReconcile
           \/ cleanupCompleted /\ Advances
           \/ listHostingManifestWorks /\ Advances
           \/ /\ Advances
              /\ clean'.step \notin {"checkHosting", "removeFinalizers",
                                     "deleteHosting"}
<1> USE GotoStep DEF TypeOK, Advances, Requeue, Done, ForceCleanupDone
<1>1. CASE updateDetachingCondition
  BY <1>1 DEF updateDetachingCondition
<1>2. CASE forceCleanup
  BY <1>2 DEF forceCleanup
<1>3. CASE ForceDeleteAllManagedClusterAddons
  BY <1>3 DEF ForceDeleteAllManagedClusterAddons
<1>4. CASE forceDeleteManifestWorks
  BY <1>4 DEF forceDeleteManifestWorks
<1>5. CASE forceListAddons
  BY <1>5 DEF forceListAddons
<1>6. CASE listHostingManifestWorks
  BY <1>6 DEF listHostingManifestWorks, Cleaning
<1>7. CASE deleteHostingManifestWorks
  <2> DEFINE gone == \E w \in clean.targets \ {"hostedAddon"} : hwork[w] = "none"
             c == [clean EXCEPT !.step = "forceBinding",
                                !.failed = @ \/ gone, !.targets = {}]
  <2>1. clean.step = "deleteHosting"
    BY <1>7 DEF deleteHostingManifestWorks
  <2>2. clean' = c \/ Requeue \/ Goto("checkWorks")
    BY <1>7, Zenon DEF deleteHostingManifestWorks, Cleaning
  <2> HIDE DEF gone
  <2>3. c.step = "forceBinding" /\ c.fins = clean.fins
    BY DEF Cleaning
  <2> HIDE DEF c
  <2> QED BY <2>1, <2>2, <2>3
<1>8. CASE ForceDeleteWorkRoleBinding
  BY <1>8 DEF ForceDeleteWorkRoleBinding
<1>9. CASE Cleanup
  BY <1>9 DEF Cleanup
<1>10. CASE cleanupCompleted
  BY <1>10 DEF cleanupCompleted
<1>11. CASE removeClusterFinalizers
  BY <1>11 DEF removeClusterFinalizers
<1>12. CASE orphanCleanup
  BY <1>12 DEF orphanCleanup
<1>13. CASE CleanFails
  <2>1. CASE clean.step = "forceList"
    <3>1. AfterFailure = "idle"
      BY <2>1 DEF AfterFailure
    <3>2. ForceCleanupDone
      BY <1>13, <2>1, <3>1, Zenon DEF CleanFails
    <3> QED BY <2>1, <3>2
  <2>2. CASE clean.step # "forceList" /\ AfterFailure # "idle"
    <3>1. /\ clean.step \notin {"idle", "orphan"}
          /\ AfterFailure \in {"forceWorks", "forceList", "forceBinding"}
      BY <2>2 DEF AfterFailure
    <3>2. clean' = [clean EXCEPT !.step = AfterFailure, !.failed = TRUE,
                                 !.targets = {}]
      BY <1>13, <2>2, Zenon DEF CleanFails
    <3> QED BY <3>1, <3>2 DEF Cleaning
  <2>3. CASE clean.step # "forceList" /\ AfterFailure = "idle"
    BY <1>13, <2>3, Zenon DEF CleanFails, Requeue
  <2> QED BY <2>1, <2>2, <2>3
<1> QED
  BY <1>1, <1>2, <1>3, <1>4, <1>5, <1>6, <1>7, <1>8, <1>9, <1>10, <1>11, <1>12,
     <1>13, Writers DEF CleanStep

(* Who takes which finalizer away from the cluster. *)
LEMMA SettledFins ==
    ASSUME NEW c \in Cluster PROVE Settled(c).fins = c.fins
BY DEF Settled, Cluster

LEMMA FinalizersTaken ==
    ASSUME TypeOK, FinalizersOK, Next, ~UserStrips
    PROVE  /\ Import \notin mc'.fins
                => Import \notin mc.fins \/ removeClusterFinalizers
           /\ Registration \notin mc'.fins
                => \/ Registration \notin mc.fins
                   \/ RegistrationFinishes
                   \/ removeClusterFinalizers
<1> USE DEF TypeOK
<1>1. CASE UserDeletes
  BY <1>1 DEF UserDeletes, Cluster
<1>2. CASE UserStripsFinalizers
  BY <1>2 DEF UserStripsFinalizers
<1>3. CASE AvailabilityReported
  BY <1>3 DEF AvailabilityReported, Cluster
<1>4. CASE RegistrationFinishes
  <2> DEFINE c == [mc EXCEPT !.fins = @ \ {Registration}]
  <2>1. c \in Cluster /\ c.fins = mc.fins \ {Registration} /\ mc' = Settled(c)
    BY <1>4 DEF RegistrationFinishes, Cluster
  <2> HIDE DEF c
  <2> QED BY <1>4, <2>1, SettledFins DEF Import, Registration
<1>5. CASE AssertManifestWorkFinalizer
  <2> DEFINE new == IF create.step = "addFinalizer"
                      THEN create.fins \cup {ManifestWork}
                      ELSE create.fins \ {ManifestWork}
             c == [mc EXCEPT !.fins = new]
  <2>1. mc' = mc \/ mc' = Settled(c)
    BY <1>5 DEF AssertManifestWorkFinalizer
  <2>2. Import \in new /\ Registration \in new /\ new \subseteq Finalizers
    BY <1>5
    DEF AssertManifestWorkFinalizer, FinalizersOK, Pinned, Creating, Finalizers,
        Import, Registration, ManifestWork
  <2> HIDE DEF new
  <2>3. c \in Cluster /\ c.fins = new
    BY <2>2 DEF Cluster
  <2> HIDE DEF c
  <2> QED BY <2>1, <2>2, <2>3, SettledFins
<1>6. CASE UpdateImportCondition
  BY <1>6 DEF UpdateImportCondition, Cluster
<1>7. CASE updateDetachingCondition
  BY <1>7 DEF updateDetachingCondition, Cluster
<1>8. CASE removeClusterFinalizers
  BY <1>8
<1>9. CASE UNCHANGED mc
  BY <1>9
<1> QED
  BY <1>1, <1>2, <1>3, <1>4, <1>5, <1>6, <1>7, <1>8, <1>9, Writers
  DEF ClusterWriters

(* Nothing that may let the works of the cluster namespace be forgotten     *)
(* happens before they are seen to be gone.                                 *)
LEMMA WorksFreedWhenGone ==
    ASSUME IInv, Next, ~UserStrips, WorksFreed'
    PROVE  WorksFreed \/ (Going /\ work = NoWorks)
<1> USE DEF IInv
<1>1. CASE Registration \notin mc'.fins \/ Import \notin mc'.fins
  BY <1>1, FinalizersTaken
  DEF WorksFreed, RegistrationFinishes, removeClusterFinalizers, Going
<1>2. CASE Registration \notin cache'.fins
  BY <1>2, Writers DEF WorksFreed, ClusterSync
<1>3. CASE \/ clean'.step \notin {"idle", "orphan"} /\ Registration \notin clean'.fins
           \/ clean'.step \in {"checkHosting", "removeFinalizers"}
  <2>1. CASE CleanReconcile
    BY <1>3, <2>1, ReconcileStep DEF WorksFreed
  <2>2. CASE cleanupCompleted /\ Advances
    BY <1>3, <2>2, IdleStep
    DEF cleanupCompleted, Requeue, Advances, WorksFreed, BehindOK
  <2> QED
    BY <1>3, <2>1, <2>2, CleanMoves, IdleStep
    DEF listHostingManifestWorks, TypeOK, Cleaning, Advances, WorksFreed
<1>4. CASE nsdel' = "delete"
  BY <1>4, Writers
  DEF WorksFreed, NamespaceReconcile, DeleteNamespace, FinalizersOK,
      HoldsFinalizers, Import, Registration
<1>5. CASE ns' # "active"
  BY <1>5, Writers DEF WorksFreed, NamespaceTerminates, DeleteNamespace
<1> QED BY <1>1, <1>2, <1>3, <1>4, <1>5 DEF WorksFreed

(* Nor those in the hosting cluster's namespace. *)
LEMMA HostingFreedWhenGone ==
    ASSUME IInv, Next, ~UserStrips, HostingFreed'
    PROVE  HostingFreed \/ (Going /\ hwork = NoHostingWorks)
<1> USE DEF IInv
<1>1. CASE Import \notin mc'.fins
  BY <1>1, FinalizersTaken DEF HostingFreed, removeClusterFinalizers
<1>2. CASE clean'.step = "removeFinalizers"
  <2>1. CASE CleanReconcile
    BY <1>2, <2>1, ReconcileStep
  <2>2. CASE cleanupCompleted
    BY <1>2, <2>2, GotoStep, IdleStep
    DEF cleanupCompleted, TypeOK, Requeue, BehindOK, ModeOK
  <2> QED
    BY <1>2, <2>1, <2>2, CleanMoves, IdleStep
    DEF listHostingManifestWorks, TypeOK, Cleaning, HostingFreed
<1> QED BY <1>1, <1>2 DEF HostingFreed

LEMMA CleanOKStep == ASSUME IInv, Next PROVE CleanOK'
<1> USE DEF IInv
<1>1. UserStrips' = UserStrips
  BY Writers DEF UserStrips
<1> SUFFICES ASSUME ~UserStrips
             PROVE  /\ WorksFreed' => Going' /\ WorksClean'
                    /\ HostingFreed' => Going' /\ HostingClean'
  BY <1>1 DEF CleanOK
<1>2. ASSUME WorksFreed' PROVE Going' /\ WorksClean'
  <2>1. Going /\ WorksClean
    BY <1>2, WorksFreedWhenGone, NoWorksPresent DEF CleanOK, WorksClean
  <2> QED
    BY <2>1, GoingStays, NoNewWorks, LateGrows DEF WorksClean
<1>3. ASSUME HostingFreed' PROVE Going' /\ HostingClean'
  <2>1. Going /\ HostingClean
    BY <1>3, HostingFreedWhenGone, NoWorksPresent DEF CleanOK, HostingClean
  <2> QED
    BY <2>1, GoingStays, NoNewHostingWorks, LateGrows DEF HostingClean
<1> QED BY <1>2, <1>3

-----------------------------------------------------------------------------
(* The list of hosting works that are to be deleted does not go stale.      *)
LEMMA TargetsOrdered == ASSUME TypeOK PROVE Ordered(HostingTargets)
<1> SUFFICES ASSUME NEW w \in HostingTargets, NEW v \in DeletedBefore(w)
             PROVE  hwork[v] = "none"
  BY DEF Ordered
<1> USE DEF TypeOK, HostingWorks, Present
<1> DEFINE others == Present(hwork) \ {"hostedKlusterlet", "hostedKubeconfig"}
<1>1. /\ w \in Present(hwork)
      /\ w \notin others => others = {}
  BY DEF HostingTargets
<1>5. w # "hostedAddon" => hwork["hostedAddon"] = "none"
  BY <1>1
<1> HIDE DEF others
<1>2. CASE w = "hostedAddon"
  BY <1>2 DEF DeletedBefore
<1>3. CASE w = "hostedKlusterlet"
  <2>1. v = "hostedAddon"
    BY <1>3 DEF DeletedBefore
  <2> QED BY <1>3, <1>5, <2>1
<1>4. CASE w = "hostedKubeconfig"
  <2>1. v \in {"hostedAddon", "hostedKlusterlet"}
    BY <1>4 DEF DeletedBefore
  <2>2. hwork["hostedKlusterlet"] = "none"
    BY <1>4, <1>5 DEF HostingTargets
  <2> QED BY <1>4, <1>5, <2>1, <2>2
<1> QED BY <1>1, <1>2, <1>3, <1>4

LEMMA OrderStep == ASSUME IInv, Next PROVE OrderOK'
<1> USE DEF IInv, TypeOK
<1>1. CASE listHostingManifestWorks
  <2>1. UNCHANGED <<hwork, late>> /\ clean'.targets = HostingTargets
    BY <1>1 DEF listHostingManifestWorks, hubVars, Cleaning
  <2> QED BY <2>1, TargetsOrdered DEF OrderOK, Ordered
<1>2. CASE UNCHANGED clean
  <2> SUFFICES ASSUME clean.step = "deleteHosting", NEW w \in clean.targets,
                      NEW v \in DeletedBefore(w) \ late'
               PROVE  hwork'[v] = "none"
    BY <1>2 DEF OrderOK, Ordered
  <2>1. v \in HostingWorks
    BY DEF DeletedBefore, HostingWorks, Cleaning
  <2>2. hwork[v] = "none" /\ Going
    BY LateGrows DEF OrderOK, Ordered, BehindOK
  <2>3. v \notin Present(hwork')
    BY <2>2, NoNewHostingWorks DEF Present
  <2>4. hwork' \in [HostingWorks -> WorkStates]
    BY EnvironmentType, CreatorType, CleanerType DEF Next
  <2> QED BY <2>1, <2>3, <2>4 DEF Present
<1>3. CASE clean'.step # "deleteHosting"
  BY <1>3 DEF OrderOK
<1>4. CASE cleanupCompleted
  <2>1. clean'.step # "deleteHosting"
    BY <1>4, IdleStep, GotoStep DEF cleanupCompleted, Requeue
  <2> QED BY <1>3, <2>1
<1> QED
  BY <1>1, <1>2, <1>3, <1>4, CleanMoves, IdleStep, ReconcileStep

(* A work that is gone from the hosting cluster, or came late, stays so. *)
LEMMA OrderedStays ==
    ASSUME TypeOK, TypeOK', Next, Going, NEW ws \in SUBSET HostingWorks, Ordered(ws)
    PROVE  Ordered(ws)'
<1> SUFFICES ASSUME NEW w \in ws, NEW v \in DeletedBefore(w) \ late'
             PROVE  hwork'[v] = "none"
  BY DEF Ordered
<1>1. v \in HostingWorks
  BY DEF DeletedBefore, HostingWorks
<1>2. hwork[v] = "none"
  BY LateGrows DEF Ordered
<1>3. v \notin Present(hwork')
  BY <1>2, NoNewHostingWorks DEF Present
<1> QED BY <1>1, <1>3 DEF Present, TypeOK

(* The cluster does not come back. *)
LEMMA StaysGone == ASSUME TypeOK, Next, mc'.exists PROVE mc.exists
<1> USE DEF TypeOK
<1>1. CASE AssertManifestWorkFinalizer
  BY <1>1 DEF AssertManifestWorkFinalizer, Accepted
<1>2. CASE removeClusterFinalizers
  BY <1>2 DEF removeClusterFinalizers
<1>3. CASE UpdateImportCondition
  BY <1>3 DEF UpdateImportCondition
<1>4. CASE updateDetachingCondition
  BY <1>4 DEF updateDetachingCondition
<1> QED
  BY <1>1, <1>2, <1>3, <1>4, Writers
  DEF ClusterWriters, UserDeletes, UserStripsFinalizers, AvailabilityReported,
      RegistrationFinishes

LEMMA SinkingStep == ASSUME IInv, TypeOK', Next PROVE SinkingOK'
<1> USE DEF IInv
<1> SUFFICES ASSUME NEW w \in HostingWorks, hwork'[w] = "deleting"
             PROVE  Going' /\ (mc'.exists => Ordered({w})')
  BY DEF SinkingOK
<1>1. CASE hwork[w] = "deleting"
  <2>1. Going /\ (mc.exists => Ordered({w}))
    BY <1>1 DEF SinkingOK
  <2> QED BY <2>1, GoingStays, StaysGone, OrderedStays
<1>2. CASE hwork[w] # "deleting" /\ deleteHostingManifestWorks
  <2>1. w \in clean.targets /\ Going
    BY <1>2 DEF deleteHostingManifestWorks, Deleted, TypeOK, BehindOK
  <2>2. Ordered({w})
    BY <1>2, <2>1 DEF deleteHostingManifestWorks, OrderOK, Ordered
  <2> QED BY <2>1, <2>2, GoingStays, OrderedStays
<1>3. CASE hwork[w] # "deleting" /\ GarbageCollects
  BY <1>3, GoingStays, StaysGone DEF GarbageCollects, Going
<1>4. CASE hwork[w] # "deleting" /\ HostingAgentWorks
  BY <1>4 DEF HostingAgentWorks, TypeOK
<1>5. CASE hwork[w] # "deleting" /\ AddonEnabled
  BY <1>5 DEF AddonEnabled, TypeOK
<1>6. CASE hwork[w] # "deleting" /\ ApplyHostingWorks
  BY <1>6 DEF ApplyHostingWorks, TypeOK
<1> QED
  BY <1>1, <1>2, <1>3, <1>4, <1>5, <1>6, Writers DEF HostingWorkWriters

-----------------------------------------------------------------------------
LEMMA InitIInv == Init => IInv
<1> SUFFICES ASSUME Init PROVE IInv
  OBVIOUS
<1>1. TypeOK
  BY InitType
<1>2. mc.exists /\ ~mc.deleting /\ mc.fins = Pinned
  BY DEF Init, Pinned
<1>3. FinalizersOK /\ BehindOK
  BY <1>2 DEF Init, FinalizersOK, HoldsFinalizers, BehindOK, Idle
<1>4. CleanOK
  BY <1>2 DEF Init, CleanOK, WorksFreed, HostingFreed, Pinned, Idle
<1> QED
  BY <1>1, <1>3, <1>4 DEF Init, IInv, ModeOK, OrderOK, Idle, SinkingOK, NoHostingWorks

LEMMA IInvStep == IInv /\ [Next]_vars => IInv'
<1> SUFFICES ASSUME IInv, [Next]_vars PROVE IInv'
  OBVIOUS
<1>1. CASE Next
  <2>1. TypeOK'
    BY <1>1, EnvironmentType, CreatorType, CleanerType DEF Next, IInv
  <2> QED
    BY <1>1, <2>1, ModeStep, FinalizersStep, BehindStep, CleanOKStep, OrderStep,
       SinkingStep
    DEF IInv
<1>2. CASE UNCHANGED vars
  BY <1>2
  DEF vars, cacheVars, hubVars, boundVars, IInv, TypeOK, ModeOK, FinalizersOK,
      HoldsFinalizers, BehindOK, CleanOK, WorksFreed, HostingFreed, WorksClean,
      HostingClean, OrderOK, SinkingOK, Ordered, Going, Hosted, UserStrips, MaxFlips,
      MaxFailures, Present
<1> QED BY <1>1, <1>2

LEMMA Invariant == Spec => []IInv
BY InitIInv, IInvStep, PTL DEF Spec

(***************************************************************************)
(* A cluster that nobody strips of its finalizers goes only when its works *)
(* are gone, in its own namespace and in the hosting cluster's: only a     *)
(* work that a reconciliation under way created after the deletion was     *)
(* requested can be left behind.                                           *)
(***************************************************************************)
THEOREM DetachLeavesNothing == Spec => []DetachedIsClean
<1>1. IInv => DetachedIsClean
  BY DEF IInv, DetachedIsClean, FinalizersOK, HoldsFinalizers, CleanOK, WorksFreed,
         HostingFreed, WorksClean, HostingClean, Import
<1> QED BY <1>1, Invariant, PTL

(***************************************************************************)
(* clusternamespacedeletion-controller, which decides on the finalizers of *)
(* its cached cluster, does not delete the cluster namespace under works   *)
(* the agent still has to clean up.                                        *)
(***************************************************************************)
THEOREM NamespaceWaits == Spec => []NamespaceKeptForWorks
<1>1. IInv => NamespaceKeptForWorks
  BY DEF IInv, NamespaceKeptForWorks, CleanOK, WorksFreed, WorksClean
<1> QED BY <1>1, Invariant, PTL

(***************************************************************************)
(* Hosting works go in order, addon, klusterlet and kubeconfig, although   *)
(* deleteHostingManifestWorks deletes what it listed in an earlier call.   *)
(***************************************************************************)
THEOREM HostingWorksInOrder == Spec => HostingWorkOrder
<1> DEFINE InOrder ==
      \A w \in HostingWorks :
         (mc.exists /\ hwork[w] \in Undeleted /\ hwork'[w] \notin Undeleted)
            => \A v \in DeletedBefore(w) \ late : hwork[v] = "none"
<1>1. ASSUME IInv, Next PROVE InOrder
  <2> USE <1>1 DEF IInv, TypeOK
  <2> SUFFICES ASSUME NEW w \in HostingWorks, mc.exists, hwork[w] \in Undeleted,
                      hwork'[w] \notin Undeleted,
                      NEW v \in DeletedBefore(w) \ late
               PROVE  hwork[v] = "none"
    OBVIOUS
  <2>1. CASE deleteHostingManifestWorks
    <3>1. w \in clean.targets
      BY <2>1 DEF deleteHostingManifestWorks, Deleted
    <3> QED BY <2>1, <3>1 DEF deleteHostingManifestWorks, OrderOK, Ordered
  <2>2. CASE HostingAgentWorks
    BY <2>2 DEF HostingAgentWorks, Undeleted, DeletedBefore
  <2>3. CASE AddonEnabled
    BY <2>3 DEF AddonEnabled, Undeleted
  <2>4. CASE ApplyHostingWorks
    BY <2>4 DEF ApplyHostingWorks, Undeleted
  <2> QED
    BY <2>1, <2>2, <2>3, <2>4, Writers DEF HostingWorkWriters, GarbageCollects
<1>2. IInv /\ [Next]_vars => [InOrder]_vars
  BY <1>1
<1> QED BY <1>2, Invariant, PTL DEF Spec, HostingWorkOrder

-----------------------------------------------------------------------------
(* The refinement.  What a step does to the stage of the detach: only a    *)
(* user's request and the removal of the last finalizer change it.         *)

LEMMA SettledStage ==
    ASSUME NEW c \in Cluster, c.exists = mc.exists, c.deleting = mc.deleting,
           mc' = Settled(c)
    PROVE  \/ mc'.exists = mc.exists /\ mc'.deleting = mc.deleting
           \/ mc.deleting /\ ~mc'.exists
BY DEF Settled, Cluster

LEMMA StageMoves ==
    ASSUME TypeOK, Next, ~UserStrips
    PROVE  \/ mc'.exists = mc.exists /\ mc'.deleting = mc.deleting
           \/ UserDeletes
           \/ /\ mc.exists /\ mc.deleting /\ ~mc'.exists
              /\ UNCHANGED <<work, hwork, ns, late>>
<1> USE DEF TypeOK
<1>1. CASE AvailabilityReported
  BY <1>1 DEF AvailabilityReported, Cluster
<1>2. CASE RegistrationFinishes
  <2> DEFINE c == [mc EXCEPT !.fins = @ \ {Registration}]
  <2>1. c \in Cluster /\ c.exists = mc.exists /\ c.deleting = mc.deleting
    BY DEF Cluster
  <2>2. mc' = Settled(c)
    BY <1>2 DEF RegistrationFinishes
  <2> HIDE DEF c
  <2> QED
    BY <1>2, <2>1, <2>2, SettledStage DEF RegistrationFinishes, hubVars, controllerVars
<1>3. CASE AssertManifestWorkFinalizer
  <2> DEFINE new == IF create.step = "addFinalizer"
                      THEN create.fins \cup {ManifestWork}
                      ELSE create.fins \ {ManifestWork}
             c == [mc EXCEPT !.fins = new]
  <2>1. mc' = mc \/ (mc.exists /\ mc' = Settled(c))
    BY <1>3 DEF AssertManifestWorkFinalizer, Accepted
  <2>2. c \in Cluster /\ c.exists = mc.exists /\ c.deleting = mc.deleting
    BY DEF Cluster, Creating, Finalizers
  <2> HIDE DEF c
  <2> QED BY <1>3, <2>1, <2>2, SettledStage DEF AssertManifestWorkFinalizer, hubVars
<1>4. CASE UpdateImportCondition
  BY <1>4 DEF UpdateImportCondition, Cluster
<1>5. CASE updateDetachingCondition
  BY <1>5 DEF updateDetachingCondition, Cluster
<1>6. CASE removeClusterFinalizers
  <2> DEFINE c == [mc EXCEPT !.fins = clean.fins \ {Import, ManifestWork}]
  <2>1. mc' = mc \/ (mc.exists /\ mc' = Settled(c))
    BY <1>6 DEF removeClusterFinalizers
  <2>2. c \in Cluster /\ c.exists = mc.exists /\ c.deleting = mc.deleting
    BY DEF Cluster, Cleaning
  <2> HIDE DEF c
  <2> QED BY <1>6, <2>1, <2>2, SettledStage DEF removeClusterFinalizers, hubVars
<1>7. CASE UserStripsFinalizers
  BY <1>7 DEF UserStripsFinalizers
<1> QED
  BY <1>1, <1>2, <1>3, <1>4, <1>5, <1>6, <1>7, Writers DEF ClusterWriters

(* The hosting works that go in a step of a detach are due. *)
LEMMA RemovedInOrder ==
    ASSUME IInv, Next, mc.exists, NEW w \in HostingWorks, w \notin late,
           hwork[w] # "none", hwork'[w] = "none"
    PROVE  \A v \in DeletedBefore(w) \ late : hwork[v] = "none"
<1> USE DEF IInv, TypeOK
<1>1. CASE hwork[w] = "deleting"
  BY <1>1 DEF SinkingOK, Ordered
<1>2. CASE hwork[w] # "deleting" /\ deleteHostingManifestWorks
  <2>1. w \in clean.targets
    BY <1>2 DEF deleteHostingManifestWorks, Deleted
  <2> QED BY <1>2, <2>1 DEF deleteHostingManifestWorks, OrderOK, Ordered
<1>3. CASE hwork[w] # "deleting" /\ HostingAgentWorks
  BY <1>3 DEF HostingAgentWorks, DeletedBefore
<1>4. CASE hwork[w] # "deleting" /\ AddonEnabled
  BY <1>4 DEF AddonEnabled
<1>5. CASE hwork[w] # "deleting" /\ ApplyHostingWorks
  BY <1>5 DEF ApplyHostingWorks
<1> QED
  BY <1>1, <1>2, <1>3, <1>4, <1>5, Writers DEF HostingWorkWriters, GarbageCollects

(* What is left when the namespace, or the cluster, goes. *)
GoneIsClean ==
    ~UserStrips => /\ ns # "active" => Going /\ Present(work) \ late = {}
                   /\ ~mc.exists => /\ Present(work) \ late = {}
                                    /\ Present(hwork) \ late = {}

LEMMA CleanWhenGone == (IInv => GoneIsClean) /\ (IInv' => GoneIsClean')
<1>1. IInv => GoneIsClean
  BY DEF IInv, GoneIsClean, FinalizersOK, HoldsFinalizers, CleanOK, WorksFreed,
         HostingFreed, WorksClean, HostingClean, Import
<1> QED BY <1>1, PTL

(* Only a work that is created can be late. *)
LEMMA LateIsNew ==
    ASSUME Next, NEW w \in HostingWorks, w \notin late, hwork[w] # "none"
    PROVE  w \notin late'
<1>1. CASE ApplyManifestWorks
  BY <1>1 DEF ApplyManifestWorks, Late, HostingWorks
<1>2. CASE ApplyHostingWorks
  BY <1>2 DEF ApplyHostingWorks, Late
<1>3. CASE UNCHANGED late
  BY <1>3
<1> QED BY <1>1, <1>2, <1>3, Writers

(* Every step of the system is a step of the promise, or none. *)
LEMMA PromiseStep ==
    ASSUME IInv, IInv', Next PROVE [Promise!Next]_Promise!vars
<1> DEFINE ws == Present(work) \ late
           hs == Present(hwork) \ late
           kept == UserStrips \/ ns = "active"
<1>1. UserStrips' = UserStrips /\ TypeOK
  BY Writers DEF UserStrips, IInv
<1>2. GoneIsClean /\ GoneIsClean'
  BY CleanWhenGone
<1>3. CASE UserStrips
  BY <1>1, <1>3 DEF Promise!Next, Promise!Attached, stage
<1>4. CASE ~UserStrips
  <2> USE <1>4
  <2>1. kept' = (ns' = "active") /\ kept = (ns = "active")
    BY <1>1
  <2>2. CASE UserDeletes
    <3>1. stage = "attached" /\ stage' = "detaching"
      BY <1>1, <2>2 DEF stage, UserDeletes, TypeOK, Cluster
    <3>2. UNCHANGED <<ws, hs, kept>>
      BY <1>1, <2>2 DEF UserDeletes, hubVars, controllerVars
    <3> QED BY <3>1, <3>2 DEF Promise!Next, Promise!Request
  <2>3. CASE /\ mc.exists /\ mc.deleting /\ ~mc'.exists
             /\ UNCHANGED <<work, hwork, ns, late>>
    <3>1. stage = "detaching" /\ stage' = "gone"
      BY <1>1, <2>3 DEF stage
    <3>2. UNCHANGED <<ws, hs, kept>>
      BY <1>1, <2>3
    <3>3. ws' = {} /\ hs' = {}
      BY <1>1, <1>2, <2>3 DEF GoneIsClean
    <3> QED BY <3>1, <3>2, <3>3 DEF Promise!Next, Promise!Go
  <2>4. CASE mc'.exists = mc.exists /\ mc'.deleting = mc.deleting
    <3>1. stage' = stage
      BY <1>1, <2>4 DEF stage
    <3>2. CASE stage = "attached"
      <4>1. ~Going /\ ~Going'
        BY <1>1, <2>4, <3>2 DEF stage, Going
      <4>2. ns = "active" /\ ns' = "active"
        BY <1>1, <1>2, <4>1 DEF GoneIsClean
      <4> QED BY <1>1, <3>1, <3>2, <4>2 DEF Promise!Next, Promise!Attached
    <3>3. CASE stage # "attached" /\ ns = "active" /\ ns' # "active"
      <4>1. DeleteNamespace
        BY <3>3, Writers DEF NamespaceTerminates
      <4>2. UNCHANGED <<ws, hs>>
        BY <4>1 DEF DeleteNamespace
      <4>3. ws' = {}
        BY <1>1, <1>2, <3>3 DEF GoneIsClean
      <4> QED
        BY <2>1, <3>1, <3>3, <4>2, <4>3 DEF Promise!Next, Promise!EndNamespace
    <3>4. CASE stage # "attached" /\ (ns = "active" => ns' = "active")
      <4>1. UNCHANGED kept
        BY <2>1, <3>4, Writers DEF NamespaceTerminates, DeleteNamespace
      <4>2. Going
        BY <3>4 DEF stage, Going
      <4>3. ws' \subseteq ws /\ hs' \subseteq hs
        BY <1>1, <4>2, NoNewWorks, NoNewHostingWorks, LateGrows
      <4>4. CASE stage = "gone"
        <5>1. ws = {} /\ hs = {} /\ ws' = {} /\ hs' = {}
          BY <1>1, <1>2, <2>4, <4>4 DEF stage, GoneIsClean
        <5> QED BY <3>1, <4>1, <5>1 DEF Promise!vars
      <4>5. CASE stage = "detaching"
        <5>1. mc.exists
          BY <4>5 DEF stage
        <5>2. ASSUME NEW w \in hs \ hs'
              PROVE  [x \in HostingWorks |-> DeletedBefore(x)][w] \cap hs = {}
          <6>1. /\ w \in HostingWorks /\ w \notin late
                /\ hwork[w] # "none" /\ hwork'[w] = "none"
            <7>1. w \in HostingWorks /\ w \notin late /\ hwork[w] # "none"
              BY <1>1 DEF Present, TypeOK
            <7>2. w \notin late'
              BY <7>1, LateIsNew
            <7>3. TypeOK'
              BY DEF IInv
            <7> QED BY <7>1, <7>2, <7>3 DEF Present, TypeOK
          <6>2. \A v \in DeletedBefore(w) \ late : hwork[v] = "none"
            BY <5>1, <6>1, RemovedInOrder
          <6> QED BY <6>1, <6>2 DEF Present
        <5> QED
          BY <3>1, <4>1, <4>3, <4>5, <5>2 DEF Promise!Next, Promise!Remove
      <4> QED BY <3>4, <4>4, <4>5 DEF stage
    <3> QED BY <3>2, <3>3, <3>4
  <2> QED BY <1>1, <2>2, <2>3, <2>4, StageMoves
<1> QED BY <1>3, <1>4

(***************************************************************************)
(* The controllers, the agents and the namespace controller together       *)
(* detach a cluster as Detachment says, whatever the interleaving: hosting *)
(* works go in order, the namespace after its works, the cluster after     *)
(* all works, and no step is taken back.                                   *)
(***************************************************************************)
THEOREM ImplementsDetachment == Spec => KeepsPromise
<1>1. Init => Promise!Init
  BY NoWorksPresent DEF Init, Promise!Init, stage
<1>2. IInv /\ IInv' /\ [Next]_vars => [Promise!Next]_Promise!vars
  <2> SUFFICES ASSUME IInv, IInv', [Next]_vars PROVE [Promise!Next]_Promise!vars
    OBVIOUS
  <2>1. CASE Next
    BY <2>1, PromiseStep
  <2>2. CASE UNCHANGED vars
    BY <2>2 DEF vars, hubVars, boundVars, Promise!vars, stage, UserStrips, Present
  <2> QED BY <2>1, <2>2
<1> QED
  BY <1>1, <1>2, Invariant, PTL DEF Spec, KeepsPromise, Promise!Spec
=============================================================================
