---------------------------- MODULE ClusterDetach ----------------------------
(***************************************************************************)
(* Detaching one managed cluster: what must be gone from the hub before    *)
(* the ManagedCluster may go, and who removes it.                          *)
(*                                                                         *)
(* resourcecleanup-controller drives the deletion.  While it works, a      *)
(* reconciliation of manifestwork-controller (hosted-manifestwork-         *)
(* controller for a hosted cluster) that began before the deletion may     *)
(* still be creating works, clusternamespacedeletion-controller may delete *)
(* the cluster namespace, the registration controller deletes addons and   *)
(* works, and the agents on the managed and the hosting cluster finish     *)
(* deletions, as long as they are up.                                      *)
(*                                                                         *)
(* The ManagedCluster, the addons and the role binding are read from       *)
(* caches; works and the namespace are read from the API server.           *)
(***************************************************************************)
EXTENDS Naturals, FiniteSets

(***************************************************************************)
(* A setting says what kind of cluster is detached, and what may happen:   *)
(*   hosted     klusterlet deploy mode Hosted, hosting cluster annotated   *)
(*   crds       the import secret carries the CRDs of the klusterlet       *)
(*   initially  the state of the cluster to begin with                     *)
(*   addons     addons may be enabled for the cluster                      *)
(*   strips     the user may strip a deleting cluster of its finalizers    *)
(*   flips      bound: changes of the managed cluster's availability       *)
(*   failures   bound: cleanup reconciliations that fail on an API error   *)
(***************************************************************************)
CONSTANT Settings

ASSUME SettingsAssumption ==
    Settings \subseteq
      [hosted: BOOLEAN, crds: BOOLEAN, addons: BOOLEAN, strips: BOOLEAN,
       initially: {"pending", "accepted", "available", "unavailable"},
       flips: Nat, failures: Nat]

VARIABLES
    setting,            \* one of Settings
    mc, cache,          \* the ManagedCluster: API server, manager cache
    ns,                 \* the cluster namespace
    addon, addonCache,  \* the addons of the cluster: API server, cache
    rb, rbCache,        \* the work role binding: API server, cache
    work,               \* the works in the cluster namespace
    hwork,              \* its works in the hosting cluster's namespace
    worksSeen,          \* the creator's work lister returns a work
    agentUp,            \* the managed cluster is reachable by its agents
    clean,              \* resourcecleanup-controller's reconciliation
    create,             \* the creator's reconciliation
    nsdel,              \* clusternamespacedeletion-controller's
    queued,             \* a request for resourcecleanup-controller is queued
    late,               \* works created after the deletion was requested
    flips, failures

hubVars == <<ns, addon, rb, work, hwork>>
cacheVars == <<cache, addonCache, rbCache, worksSeen>>
boundVars == <<setting, flips, failures>>
vars == <<mc, cacheVars, hubVars, agentUp, clean, create, nsdel, queued,
          late, boundVars>>

Hosted == setting.hosted
HasCRDs == setting.crds
Addons == setting.addons
UserStrips == setting.strips
MaxFlips == setting.flips
MaxFailures == setting.failures

Import == "import"
ManifestWork == "manifestwork"
Registration == "registration"
Finalizers == {Import, ManifestWork, Registration}

Availability == {"none", "true", "lost"}    \* lost: False or Unknown
Conditions == {"other", "Detaching", "ForceDetaching"}
Cluster == [exists: BOOLEAN, deleting: BOOLEAN, fins: SUBSET Finalizers,
            accepted: BOOLEAN, avail: Availability, cond: Conditions]

Works == {"crds", "klusterlet"}
HostingWorks == {"hostedAddon", "hostedKlusterlet", "hostedKubeconfig"}
(* new: without the agent's finalizer; cleaning: its Deleting condition is true *)
WorkStates == {"none", "new", "live", "deleting", "cleaning"}
AddonStates == {"none", "live", "deleting"}

NoWorks == [w \in Works |-> "none"]
NoHostingWorks == [w \in HostingWorks |-> "none"]
Present(f) == {w \in DOMAIN f : f[w] # "none"}

(* The delete call on the works ws: the agent's finalizer keeps a work. *)
Deleted(f, ws) ==
    [w \in DOMAIN f |-> CASE w \in ws /\ f[w] = "new"  -> "none"
                          [] w \in ws /\ f[w] = "live" -> "deleting"
                          [] OTHER                      -> f[w]]
Deletable(f) == {w \in DOMAIN f : f[w] \in {"new", "live"}}

(* The work of the default mode that is deleted last, and ends the agent. *)
LastWork == IF HasCRDs THEN "crds" ELSE "klusterlet"

CleanSteps == {"idle", "condition", "forceNamespace", "forceAddons",
               "forceWorks", "forceList", "listHosting", "deleteHosting",
               "forceBinding", "cleanup", "checkWorks", "checkHosting",
               "removeFinalizers", "orphan"}
Cleaning == [step: CleanSteps, fins: SUBSET Finalizers, force: BOOLEAN,
             cond: Conditions, targets: SUBSET HostingWorks, failed: BOOLEAN]
Idle == [step |-> "idle", fins |-> {}, force |-> FALSE, cond |-> "other",
         targets |-> {}, failed |-> FALSE]

CreateSteps == {"idle", "addFinalizer", "removeFinalizer", "apply",
                "applySecond", "status"}
Creating == [step: CreateSteps, fins: SUBSET Finalizers]

(* Mutant: only clusters that are not accepted are detached by force. *)
NeedForceDeleteIgnoresAvailability(c) == ~c.accepted

clusterNeedForceDelete(c) == ~c.accepted \/ c.avail = "lost"

(* The API server: the last finalizer of a deleting object takes it along. *)
Accepted(new) == mc.exists /\ (mc.deleting => new \subseteq mc.fins)
Settled(c) ==
    IF c.deleting /\ c.fins = {}
      THEN [c EXCEPT !.exists = FALSE, !.deleting = FALSE]
      ELSE c

(* resourcecleanup-controller's predicates on the ManagedCluster. *)
CleanupWatches(old, new) ==
    \/ old.exists /\ ~new.exists
    \/ old.exists /\ new.exists /\ new.deleting

Init ==
    /\ setting \in Settings
    /\ LET i == setting.initially IN
         /\ mc = [exists |-> TRUE, deleting |-> FALSE,
                  fins |-> {Import, Registration}, accepted |-> i # "pending",
                  avail |-> CASE i = "available"   -> "true"
                              [] i = "unavailable" -> "lost"
                              [] OTHER             -> "none",
                  cond |-> "other"]
         /\ agentUp = (i = "available")
    /\ cache = mc
    /\ ns = "active"
    /\ addon = "none" /\ addonCache = "none"
    /\ rb = mc.accepted /\ rbCache = mc.accepted
    /\ work = NoWorks
    /\ hwork = NoHostingWorks
    /\ worksSeen = FALSE
    /\ clean = Idle
    /\ create = [step |-> "idle", fins |-> {}]
    /\ nsdel = "idle"
    /\ queued = FALSE
    /\ late = {}
    /\ flips = 0 /\ failures = 0

-----------------------------------------------------------------------------
(* The user, the registration controller, the agents, Kubernetes.          *)

controllerVars == <<clean, create, nsdel, queued, late>>

UserDeletes ==
    /\ mc.exists /\ ~mc.deleting
    /\ mc' = [mc EXCEPT !.deleting = TRUE]
    /\ UNCHANGED <<cacheVars, hubVars, agentUp, controllerVars, boundVars>>

(* A user loses patience and removes the finalizers of the cluster. *)
UserStripsFinalizers ==
    /\ UserStrips
    /\ mc.exists /\ mc.deleting
    /\ mc' = Settled([mc EXCEPT !.fins = {}])
    /\ UNCHANGED <<cacheVars, hubVars, agentUp, controllerVars, boundVars>>

(* An addon is enabled; a hosted addon puts its work on the hosting cluster. *)
AddonEnabled ==
    /\ Addons
    /\ mc.exists /\ ~mc.deleting /\ mc.accepted
    /\ ns = "active" /\ addon = "none"
    /\ addon' = "live"
    /\ hwork' = IF Hosted THEN [hwork EXCEPT !["hostedAddon"] = "live"]
                          ELSE hwork
    /\ UNCHANGED <<mc, cacheVars, ns, rb, work, agentUp, controllerVars,
                   boundVars>>

(* The managed cluster's agents come up, or go away, during the detach;    *)
(* how they were before it began is up to the setting.                     *)
AgentFlips ==
    /\ flips < MaxFlips
    /\ mc.exists /\ mc.deleting /\ mc.accepted
    /\ flips' = flips + 1
    /\ agentUp' = ~agentUp
    /\ UNCHANGED <<mc, cacheVars, hubVars, controllerVars, setting, failures>>

(* The availability of an accepted cluster is what its agents report, or   *)
(* Unknown when nothing renews its lease.                                  *)
AvailabilityReported ==
    /\ mc.exists /\ mc.accepted
    /\ \/ agentUp /\ mc.avail # "true" /\ mc' = [mc EXCEPT !.avail = "true"]
       \/ ~agentUp /\ mc.avail # "lost" /\ mc' = [mc EXCEPT !.avail = "lost"]
    /\ UNCHANGED <<cacheVars, hubVars, agentUp, controllerVars, boundVars>>

(* It deletes the addons, then the works, of a deleting cluster, the work  *)
(* of the highest cleanup priority last ...                                *)
RegistrationDeletes ==
    /\ mc.exists /\ mc.deleting
    /\ \/ addon = "live" /\ addon' = "deleting" /\ UNCHANGED work
       \/ /\ addon = "none" /\ UNCHANGED addon
          /\ \E w \in Deletable(work) :
               /\ w = LastWork => Present(work) = {w}
               /\ work' = Deleted(work, {w})
    /\ UNCHANGED <<mc, cacheVars, ns, rb, hwork, agentUp, controllerVars,
                   boundVars>>

(* ... and lets the role binding and the cluster go when they are gone. *)
RegistrationFinishes ==
    /\ mc.exists /\ mc.deleting
    /\ addon = "none" /\ work = NoWorks
    /\ rb \/ Registration \in mc.fins
    /\ rb' = FALSE
    /\ mc' = Settled([mc EXCEPT !.fins = @ \ {Registration}])
    /\ UNCHANGED <<cacheVars, ns, addon, work, hwork, agentUp, controllerVars,
                   boundVars>>

(***************************************************************************)
(* The agents on the managed cluster.  The work agent puts its finalizer   *)
(* on a work it applies.  Before it removes what the last work holds it    *)
(* sets the Deleting condition, and is removed with it: it never finishes  *)
(* that work.                                                              *)
(***************************************************************************)
AgentWorks ==
    /\ agentUp
    /\ \/ /\ addon = "deleting" /\ ~Hosted /\ addon' = "none"
          /\ UNCHANGED <<work, agentUp>>
       \/ \E w \in Works :
            /\ \/ work[w] = "new" /\ work' = [work EXCEPT ![w] = "live"]
               \/ /\ work[w] = "deleting"
                  /\ work' = [work EXCEPT ![w] = IF w = LastWork THEN "cleaning"
                                                                 ELSE "none"]
            /\ UNCHANGED <<addon, agentUp>>
       \/ /\ work[LastWork] = "cleaning" /\ agentUp' = FALSE
          /\ UNCHANGED <<addon, work>>
    /\ UNCHANGED <<mc, cacheVars, ns, rb, hwork, controllerVars, boundVars>>

(* The hosting cluster is always available. *)
HostingAgentWorks ==
    /\ \/ /\ addon = "deleting" /\ Hosted
          /\ addon' = "none"
          /\ hwork' = [hwork EXCEPT !["hostedAddon"] = "none"]
       \/ \E w \in HostingWorks :
            /\ \/ hwork[w] = "new" /\ hwork' = [hwork EXCEPT ![w] = "live"]
               \/ hwork[w] = "deleting" /\ hwork' = [hwork EXCEPT ![w] = "none"]
            /\ UNCHANGED addon
    /\ UNCHANGED <<mc, cacheVars, ns, rb, work, agentUp, controllerVars,
                   boundVars>>

(* The namespace controller empties a terminating namespace, then ends it. *)
NamespaceTerminates ==
    /\ ns = "terminating"
    /\ \/ /\ addon = "live" \/ Deletable(work) # {}
          /\ addon' = IF addon = "live" THEN "deleting" ELSE addon
          /\ work' = Deleted(work, Works)
          /\ UNCHANGED <<ns, rb>>
       \/ /\ addon = "none" /\ work = NoWorks
          /\ ns' = "gone" /\ rb' = FALSE
          /\ UNCHANGED <<addon, work>>
    /\ UNCHANGED <<mc, cacheVars, hwork, agentUp, controllerVars, boundVars>>

(* The works the creators made are owned by the ManagedCluster. *)
GarbageCollects ==
    /\ ~mc.exists
    /\ Deletable(work) # {} \/ Deletable(hwork) \ {"hostedAddon"} # {}
    /\ work' = Deleted(work, Works)
    /\ hwork' = Deleted(hwork, HostingWorks \ {"hostedAddon"})
    /\ UNCHANGED <<mc, cacheVars, ns, addon, rb, agentUp, controllerVars,
                   boundVars>>

(* The informers catch up, each on its own. *)
ClusterSync ==
    /\ cache # mc /\ cache' = mc
    /\ queued' = (queued \/ CleanupWatches(cache, mc))
    /\ UNCHANGED <<mc, addonCache, rbCache, worksSeen, hubVars, agentUp, clean,
                   create, nsdel, late, boundVars>>
(* The periodic resync delivers a cached object as an update of itself. *)
ClusterResync ==
    /\ CleanupWatches(cache, cache) /\ ~queued
    /\ queued' = TRUE
    /\ UNCHANGED <<mc, cacheVars, hubVars, agentUp, clean, create, nsdel, late,
                   boundVars>>
AddonSync ==
    /\ addonCache # addon /\ addonCache' = addon
    /\ UNCHANGED <<mc, cache, rbCache, worksSeen, hubVars, agentUp,
                   controllerVars, boundVars>>
BindingSync ==
    /\ rbCache # rb /\ rbCache' = rb
    /\ UNCHANGED <<mc, cache, addonCache, worksSeen, hubVars, agentUp,
                   controllerVars, boundVars>>

CreatorWorks ==
    IF Hosted THEN Present(hwork) ELSE Present(work)
WorksSync ==
    /\ worksSeen # (CreatorWorks # {})
    /\ worksSeen' = (CreatorWorks # {})
    /\ UNCHANGED <<mc, cache, addonCache, rbCache, hubVars, agentUp,
                   controllerVars, boundVars>>

-----------------------------------------------------------------------------
(* The creator: manifestwork-controller, or hosted-manifestwork-controller *)

CreateReconcile ==
    /\ create.step = "idle"
    /\ cache.exists /\ ~cache.deleting
    /\ create' = CASE ~worksSeen /\ ManifestWork \in cache.fins
                        -> [step |-> "removeFinalizer", fins |-> cache.fins]
                   [] worksSeen /\ ManifestWork \notin cache.fins
                        -> [step |-> "addFinalizer", fins |-> cache.fins]
                   [] OTHER
                        -> [step |-> "apply", fins |-> {}]
    /\ UNCHANGED <<mc, cacheVars, hubVars, agentUp, clean, nsdel, queued, late,
                   boundVars>>

(* The finalizers that were read are needed for the patch only. *)
CreateGoto(s) == create' = [step |-> s, fins |-> {}]

AssertManifestWorkFinalizer ==
    /\ create.step \in {"addFinalizer", "removeFinalizer"}
    /\ LET new == IF create.step = "addFinalizer"
                    THEN create.fins \cup {ManifestWork}
                    ELSE create.fins \ {ManifestWork}
       IN \/ /\ Accepted(new)
             /\ mc' = Settled([mc EXCEPT !.fins = new])
             /\ CreateGoto("apply")
          \/ /\ ~Accepted(new)
             /\ UNCHANGED mc
             /\ CreateGoto(IF Hosted THEN "status" ELSE "idle")
    /\ UNCHANGED <<cacheVars, hubVars, agentUp, clean, nsdel, queued, late,
                   boundVars>>

Late(w) == late' = IF mc.exists /\ ~mc.deleting THEN late ELSE late \cup {w}

(* ApplyResources goes through the works of the cluster namespace, the CRD *)
(* work first, and creates what is missing; it cannot create in a          *)
(* namespace that is going away.  There may be no import secret yet.       *)
ApplyManifestWorks ==
    /\ create.step \in {"apply", "applySecond"} /\ ~Hosted
    /\ LET w == IF create.step = "apply" /\ HasCRDs THEN "crds" ELSE "klusterlet"
       IN \/ /\ ns = "active" /\ work[w] = "none"
             /\ work' = [work EXCEPT ![w] = "new"]
             /\ Late(w)
          \/ UNCHANGED <<work, late>>
    /\ CreateGoto(IF create.step = "apply" /\ HasCRDs THEN "applySecond" ELSE "idle")
    /\ UNCHANGED <<mc, cacheVars, ns, addon, rb, hwork, agentUp, clean, nsdel,
                   queued, boundVars>>

(* The klusterlet work, then, once that is available on the hosting        *)
(* cluster and while there is an auto-import secret, the kubeconfig work.  *)
ApplyHostingWorks ==
    /\ create.step \in {"apply", "applySecond"} /\ Hosted
    /\ LET w == IF create.step = "apply" THEN "hostedKlusterlet"
                                         ELSE "hostedKubeconfig"
       IN \/ /\ hwork[w] = "none"
             /\ hwork' = [hwork EXCEPT ![w] = "new"]
             /\ Late(w)
          \/ UNCHANGED <<hwork, late>>
    /\ \/ /\ create.step = "apply" /\ hwork["hostedKlusterlet"] \in {"live", "deleting"}
          /\ CreateGoto("applySecond")
       \/ CreateGoto("status")
    /\ UNCHANGED <<mc, cacheVars, ns, addon, rb, work, agentUp, clean, nsdel,
                   queued, boundVars>>

(* The hosted controller ends by reporting how the import goes, on the     *)
(* object the cache holds now: it may overwrite a detaching condition.     *)
UpdateImportCondition ==
    /\ create.step = "status"
    /\ mc' = IF cache = mc /\ mc.exists THEN [mc EXCEPT !.cond = "other"] ELSE mc
    /\ CreateGoto("idle")
    /\ UNCHANGED <<cacheVars, hubVars, agentUp, clean, nsdel, queued, late,
                   boundVars>>

-----------------------------------------------------------------------------
(* clusternamespacedeletion-controller *)

(* Mutant: the finalizers of a deleting cluster are not looked at. *)
NamespaceReconcileIgnoresFinalizers ==
    /\ nsdel = "idle"
    /\ ns = "active"
    /\ ~cache.exists \/ cache.deleting
    /\ addonCache = "none"
    /\ nsdel' = "delete"
    /\ UNCHANGED <<mc, cacheVars, hubVars, agentUp, clean, create, queued, late,
                   boundVars>>

NamespaceReconcile ==
    /\ nsdel = "idle"
    /\ ns = "active"
    /\ \/ ~cache.exists
       \/ cache.deleting /\ cache.fins \subseteq {Import}
    /\ addonCache = "none"
    /\ nsdel' = "delete"
    /\ UNCHANGED <<mc, cacheVars, hubVars, agentUp, clean, create, queued, late,
                   boundVars>>

DeleteNamespace ==
    /\ nsdel = "delete"
    /\ nsdel' = "idle"
    /\ ns' = IF ns = "active" THEN "terminating" ELSE ns
    /\ UNCHANGED <<mc, cacheVars, addon, rb, work, hwork, agentUp, clean,
                   create, queued, late, boundVars>>

-----------------------------------------------------------------------------
(* resourcecleanup-controller *)

(* Go on at step s; what no later step looks at is forgotten. *)
CheckSteps == {"checkWorks", "checkHosting", "removeFinalizers"}
Goto(s) ==
    /\ clean' = [clean EXCEPT !.step = s, !.cond = "other", !.targets = {},
                              !.force = @ /\ s \notin CheckSteps]
    /\ UNCHANGED queued
Requeue == clean' = Idle /\ queued' = TRUE
Done == clean' = Idle /\ UNCHANGED queued

(* forceCleanup collects its errors and reports them when it is through. *)
ForceCleanupDone == IF clean.failed THEN Requeue ELSE Goto("checkWorks")

CleanReconcile ==
    /\ clean.step = "idle" /\ queued
    /\ queued' = FALSE
    /\ \/ ~cache.exists /\ clean' = [Idle EXCEPT !.step = "orphan"]
       \/ cache.exists /\ ~cache.deleting /\ clean' = Idle
       \/ /\ cache.exists /\ cache.deleting
          /\ clean' = [Idle EXCEPT !.step = "condition", !.fins = cache.fins,
                                   !.force = clusterNeedForceDelete(cache),
                                   !.cond = cache.cond]
    /\ UNCHANGED <<mc, cacheVars, hubVars, agentUp, create, nsdel, late,
                   boundVars>>

(* Mutant: the condition gets a reason nobody knows. *)
UpdateDetachingConditionMisspelled ==
    /\ clean.step = "condition"
    /\ cache = mc /\ mc.exists
    /\ mc' = [mc EXCEPT !.cond = "Detached"]
    /\ Goto(IF clean.force THEN "forceNamespace" ELSE "cleanup")
    /\ UNCHANGED <<cacheVars, hubVars, agentUp, create, nsdel, late, boundVars>>

(* The condition is set on the object the cache holds now; the update      *)
(* carries its resourceVersion and fails when that is not the latest.      *)
updateDetachingCondition ==
    /\ clean.step = "condition"
    /\ LET cond == IF clean.force THEN "ForceDetaching" ELSE "Detaching"
           set == clean.cond = cond \/ (cache.exists /\ cache.cond = cond)
           next == IF clean.force THEN "forceNamespace" ELSE "cleanup"
       IN \/ set /\ UNCHANGED mc /\ Goto(next)
          \/ /\ ~set /\ cache = mc /\ mc.exists
             /\ mc' = [mc EXCEPT !.cond = cond]
             /\ Goto(next)
          \/ /\ ~set /\ (cache # mc \/ ~mc.exists)
             /\ UNCHANGED mc
             /\ Requeue
    /\ UNCHANGED <<cacheVars, hubVars, agentUp, create, nsdel, late, boundVars>>

forceCleanup ==
    /\ clean.step = "forceNamespace"
    /\ Goto(IF ns = "gone" THEN "checkWorks" ELSE "forceAddons")
    /\ UNCHANGED <<mc, cacheVars, hubVars, agentUp, create, nsdel, late,
                   boundVars>>

(* The finalizers of hosted addons stay: their owner finishes the addon. *)
ForceDeletedAddon ==
    IF addonCache = "none" \/ addon = "none" THEN addon
    ELSE IF Hosted THEN "deleting" ELSE "none"

ForceDeleteAllManagedClusterAddons ==
    /\ clean.step = "forceAddons"
    /\ addon' = ForceDeletedAddon
    /\ Goto("forceWorks")
    /\ UNCHANGED <<mc, cacheVars, ns, rb, work, hwork, agentUp, create, nsdel,
                   late, boundVars>>

forceDeleteManifestWorks ==
    /\ clean.step = "forceWorks"
    /\ work' = NoWorks
    /\ Goto(IF Hosted THEN "forceList" ELSE "forceBinding")
    /\ UNCHANGED <<mc, cacheVars, ns, addon, rb, hwork, agentUp, create, nsdel,
                   late, boundVars>>

forceListAddons ==
    /\ clean.step = "forceList"
    /\ IF addonCache = "none" THEN Goto("listHosting") ELSE ForceCleanupDone
    /\ UNCHANGED <<mc, cacheVars, hubVars, agentUp, create, nsdel, late,
                   boundVars>>

(* Mutant: all works at once. *)
HostingTargetsUnordered == Present(hwork)

(* Addon works first, then the klusterlet work, then the kubeconfig work.  *)
HostingTargets ==
    LET others == Present(hwork) \ {"hostedKlusterlet", "hostedKubeconfig"}
    IN IF others # {} THEN others
       ELSE IF "hostedKlusterlet" \in Present(hwork) THEN {"hostedKlusterlet"}
       ELSE Present(hwork)

listHostingManifestWorks ==
    /\ clean.step = "listHosting"
    /\ clean' = [clean EXCEPT !.step = "deleteHosting",
                              !.targets = HostingTargets]
    /\ UNCHANGED <<mc, cacheVars, hubVars, agentUp, create, nsdel, queued, late,
                   boundVars>>

(* Deleting the klusterlet or the kubeconfig work that is gone already is  *)
(* an error; deleting another work is not.                                 *)
deleteHostingManifestWorks ==
    /\ clean.step = "deleteHosting"
    /\ hwork' = Deleted(hwork, clean.targets)
    /\ LET gone == \E w \in clean.targets \ {"hostedAddon"} : hwork[w] = "none"
       IN CASE clean.force  -> /\ clean' = [clean EXCEPT !.step = "forceBinding",
                                               !.failed = @ \/ gone,
                                               !.targets = {}]
                               /\ UNCHANGED queued
            [] ~clean.force /\ gone  -> Requeue
            [] ~clean.force /\ ~gone -> Goto("checkWorks")
    /\ UNCHANGED <<mc, cacheVars, ns, addon, rb, work, agentUp, create, nsdel,
                   late, boundVars>>

ForceDeleteWorkRoleBinding ==
    /\ clean.step = "forceBinding"
    /\ rb' = FALSE
    /\ ForceCleanupDone
    /\ UNCHANGED <<mc, cacheVars, ns, addon, work, hwork, agentUp, create,
                   nsdel, late, boundVars>>

(***************************************************************************)
(* The graceful path.  The registration controller deletes addons and      *)
(* works; the CRD work is taken away by force once the agent has begun to  *)
(* delete the CRDs; hosting works go when the cluster namespace has none.  *)
(***************************************************************************)
Cleanup ==
    /\ clean.step = "cleanup"
    /\ LET left == Present(work)
           orphaned == left = {"crds"} /\ work["crds"] = "cleaning"
       IN IF addonCache # "none" THEN UNCHANGED work /\ Goto("checkWorks")
          ELSE /\ work' = IF orphaned THEN NoWorks ELSE work
               /\ Goto(IF Hosted /\ left = {} THEN "listHosting" ELSE "checkWorks")
    /\ UNCHANGED <<mc, cacheVars, ns, addon, rb, hwork, agentUp, create, nsdel,
                   late, boundVars>>

(* Mutant: the works in the hosting cluster's namespace are not checked. *)
CleanupCompletedIgnoresHosting ==
    /\ clean.step = "checkWorks"
    /\ IF work = NoWorks /\ addonCache = "none" /\ ~rbCache
         THEN Goto("removeFinalizers") ELSE Requeue
    /\ UNCHANGED <<mc, cacheVars, hubVars, agentUp, create, nsdel, late,
                   boundVars>>

cleanupCompleted ==
    /\ \/ /\ clean.step = "checkWorks"
          /\ IF work = NoWorks /\ addonCache = "none" /\ ~rbCache
               THEN Goto(IF Hosted THEN "checkHosting" ELSE "removeFinalizers")
               ELSE Requeue
       \/ /\ clean.step = "checkHosting"
          /\ IF hwork = NoHostingWorks THEN Goto("removeFinalizers") ELSE Requeue
    /\ UNCHANGED <<mc, cacheVars, hubVars, agentUp, create, nsdel, late,
                   boundVars>>

removeClusterFinalizers ==
    /\ clean.step = "removeFinalizers"
    /\ LET new == clean.fins \ {Import, ManifestWork}
       IN \/ /\ new = clean.fins \/ ~mc.exists
             /\ UNCHANGED mc
             /\ Done
          \/ /\ new # clean.fins /\ mc.exists
             /\ IF Accepted(new)
                  THEN mc' = Settled([mc EXCEPT !.fins = new]) /\ Done
                  ELSE UNCHANGED mc /\ Requeue
    /\ UNCHANGED <<cacheVars, hubVars, agentUp, create, nsdel, late, boundVars>>

(* Mutant: nothing is done for a cluster that is gone. *)
OrphanCleanupDoesNothing ==
    /\ clean.step = "orphan"
    /\ Done
    /\ UNCHANGED <<mc, cacheVars, hubVars, agentUp, create, nsdel, late,
                   boundVars>>

(* The cluster is gone: clear what is left in its namespace. *)
orphanCleanup ==
    /\ clean.step = "orphan"
    /\ IF ns = "gone" THEN UNCHANGED <<addon, work, rb>>
       ELSE /\ addon' = ForceDeletedAddon
            /\ work' = NoWorks
            /\ rb' = FALSE
    /\ Done
    /\ UNCHANGED <<mc, cacheVars, ns, hwork, agentUp, create, nsdel, late,
                   boundVars>>

(***************************************************************************)
(* A call to the API server fails.  The reconciliation ends with an error  *)
(* and is retried; forceCleanup first does what remains to be done, and    *)
(* drops an error of its listing of the addons.                            *)
(***************************************************************************)
AfterFailure ==
    CASE clean.step = "forceAddons"   -> "forceWorks"
      [] clean.step = "forceWorks"    -> IF Hosted THEN "forceList"
                                                   ELSE "forceBinding"
      [] clean.step \in {"listHosting", "deleteHosting"} /\ clean.force
                                      -> "forceBinding"
      [] OTHER                        -> "idle"

CleanFails ==
    /\ clean.step # "idle" /\ failures < MaxFailures
    /\ failures' = failures + 1
    /\ CASE clean.step = "forceList" -> ForceCleanupDone
         [] AfterFailure # "idle" ->
              /\ clean' = [clean EXCEPT !.step = AfterFailure, !.failed = TRUE,
                                        !.targets = {}]
              /\ UNCHANGED queued
         [] OTHER -> Requeue
    /\ UNCHANGED <<mc, cacheVars, hubVars, agentUp, create, nsdel, late, setting,
                   flips>>

CleanStep ==
    \/ CleanReconcile
    \/ updateDetachingCondition
    \/ forceCleanup
    \/ ForceDeleteAllManagedClusterAddons
    \/ forceDeleteManifestWorks
    \/ forceListAddons
    \/ listHostingManifestWorks
    \/ deleteHostingManifestWorks
    \/ ForceDeleteWorkRoleBinding
    \/ Cleanup
    \/ cleanupCompleted
    \/ removeClusterFinalizers
    \/ orphanCleanup

CreateStep ==
    \/ AssertManifestWorkFinalizer
    \/ ApplyManifestWorks
    \/ ApplyHostingWorks
    \/ UpdateImportCondition

Next ==
    \/ UserDeletes
    \/ UserStripsFinalizers
    \/ AddonEnabled
    \/ AgentFlips
    \/ AvailabilityReported
    \/ RegistrationDeletes
    \/ RegistrationFinishes
    \/ AgentWorks
    \/ HostingAgentWorks
    \/ NamespaceTerminates
    \/ GarbageCollects
    \/ ClusterSync
    \/ ClusterResync
    \/ AddonSync
    \/ BindingSync
    \/ WorksSync
    \/ CreateReconcile
    \/ CreateStep
    \/ NamespaceReconcile
    \/ DeleteNamespace
    \/ CleanStep
    \/ CleanFails

Spec == Init /\ [][Next]_vars

(***************************************************************************)
(* Fairness.  Queued requests are served and a reconciliation goes on,     *)
(* informers catch up, and the other components do their part (one         *)
(* assumption for all that is around the controllers).  Nothing makes the  *)
(* user act, an agent come up, or the cluster namespace go: a cluster      *)
(* deployment, an infra env or a pod may hold it for ever.                 *)
(***************************************************************************)
Fairness ==
    /\ WF_vars(\/ AvailabilityReported
               \/ RegistrationDeletes \/ RegistrationFinishes
               \/ AgentWorks \/ HostingAgentWorks
               \/ NamespaceTerminates \/ GarbageCollects
               \/ AddonSync \/ BindingSync)
    /\ WF_vars(ClusterSync)
    /\ WF_vars(ClusterResync)
    /\ WF_vars(CreateStep)
    /\ WF_vars(CleanStep)

FairSpec == Spec /\ Fairness

-----------------------------------------------------------------------------
(* The state of the hub, of the caches and of the three reconciliations    *)
(* stays within its type; a reconciliation never reaches an unknown step.  *)
TypeOK ==
    /\ setting \in Settings
    /\ mc \in Cluster /\ cache \in Cluster
    /\ ns \in {"active", "terminating", "gone"}
    /\ addon \in AddonStates /\ addonCache \in AddonStates
    /\ rb \in BOOLEAN /\ rbCache \in BOOLEAN
    /\ work \in [Works -> WorkStates]
    /\ hwork \in [HostingWorks -> WorkStates]
    /\ worksSeen \in BOOLEAN /\ agentUp \in BOOLEAN
    /\ clean \in Cleaning /\ create \in Creating
    /\ nsdel \in {"idle", "delete"}
    /\ queued \in BOOLEAN
    /\ late \subseteq Works \cup HostingWorks
    /\ flips \in 0 .. MaxFlips /\ failures \in 0 .. MaxFailures

(***************************************************************************)
(* Safety.  When the ManagedCluster is gone, the only works that are left  *)
(* are ones a reconciliation under way created after the deletion was      *)
(* requested: cleanupCompleted holds the finalizers until it has seen none *)
(* in the cluster namespace and none in the hosting cluster's, and nobody  *)
(* but the controllers takes finalizers away.                              *)
(***************************************************************************)
DetachedIsClean ==
    ~mc.exists /\ ~UserStrips => Present(work) \cup Present(hwork) \subseteq late

(***************************************************************************)
(* deleteHostingManifestWorks: "the work deletion order for hosted         *)
(* cluster" is addon works, klusterlet work, kubeconfig work.  Each is     *)
(* deleted only when the earlier ones are gone, although the list is read  *)
(* before the delete and the works change in between.                      *)
(***************************************************************************)
Undeleted == {"new", "live"}
DeletedBefore(w) ==
    CASE w = "hostedAddon"      -> {}
      [] w = "hostedKlusterlet" -> {"hostedAddon"}
      [] w = "hostedKubeconfig" -> {"hostedAddon", "hostedKlusterlet"}
HostingWorkOrder ==
    [][\A w \in HostingWorks :
         (mc.exists /\ hwork[w] \in Undeleted /\ hwork'[w] \notin Undeleted)
            => \A v \in DeletedBefore(w) \ late : hwork[v] = "none"]_vars

(***************************************************************************)
(* The cluster namespace is never taken away from works the agent still    *)
(* has to clean up: clusternamespacedeletion-controller deletes it when    *)
(* the finalizers in its cached cluster say that the others are through,   *)
(* and nobody but the controllers takes finalizers away.                   *)
(***************************************************************************)
NamespaceKeptForWorks ==
    ns # "active" /\ ~UserStrips => Present(work) \subseteq late

(***************************************************************************)
(* Detaching keeps the promise of Detachment, step by step: hosting works  *)
(* go in order, the namespace is deleted after its works, the cluster goes *)
(* after all of them, and nothing is taken back.  Works that a             *)
(* reconciliation under way created late are not part of the promise, nor  *)
(* are clusters that a user may strip of their finalizers.                 *)
(***************************************************************************)
stage ==
    IF UserStrips \/ (mc.exists /\ ~mc.deleting) THEN "attached"
    ELSE IF mc.exists THEN "detaching" ELSE "gone"
Promise == INSTANCE Detachment WITH
             Before <- [w \in HostingWorks |-> DeletedBefore(w)],
             works <- Present(work) \ late, hosting <- Present(hwork) \ late,
             kept <- UserStrips \/ ns = "active"
KeepsPromise == Promise!Spec

(* A cluster whose deletion was requested goes, whether its agents are     *)
(* there or not: resourcecleanup-controller retries, and switches to       *)
(* forceCleanup when the cluster is not accepted or not available.         *)
DetachCompletes == mc.deleting ~> ~mc.exists

(***************************************************************************)
(* A cluster whose deletion was requested goes, and nothing stays behind   *)
(* for good, even when the finalizers were taken from the cluster while    *)
(* its resources were still there: orphanCleanup clears the namespace of a *)
(* cluster that is not found, hosting works are garbage collected with it. *)
(* A deletion that was requested is not taken back.                        *)
(***************************************************************************)
NothingLeft ==
    <>[](mc.deleting \/ ~mc.exists =>
            /\ ~mc.exists
            /\ Present(work) \cup Present(hwork) \subseteq late
            /\ addon = "none" /\ ~rb)
=============================================================================
