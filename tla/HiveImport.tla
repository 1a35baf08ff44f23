----------------------------- MODULE HiveImport -----------------------------
(***************************************************************************)
(* Importing a cluster without an auto-import secret: a cluster that hive  *)
(* provisioned, by clusterdeployment-controller with hive's admin          *)
(* kubeconfig, or the hub itself, by selfmanagedcluster-controller with    *)
(* the hub's own client.  import-status-controller watches the klusterlet  *)
(* works; it and the importing controller write the same condition.        *)
(*                                                                         *)
(* There is one cluster, in default mode.  The hub's own cluster has the   *)
(* self-managed label throughout.                                          *)
(***************************************************************************)
EXTENDS Naturals, FiniteSets

CONSTANTS
    Settings,           \* kinds of clusters, each with an autoImportStrategy
    MaxVersions,        \* bound: versions of the import secret
    MaxDisturbances     \* bound: what users do, and calls that fail

ASSUME HiveImportAssumption ==
    /\ Settings \subseteq {"hive", "self"} \X {"ImportOnly", "ImportAndSync"}
    /\ MaxVersions \in Nat \ {0}
    /\ MaxDisturbances \in Nat

VARIABLES
    by, strategy,                   \* one of Settings
    mc, cache, undelivered,         \* the ManagedCluster: API server, cache,
                                    \* requests the events in transit will queue
    cd, cdCache,                    \* the ClusterDeployment
    autoSecret, autoSecretCache,    \* there is an auto-import secret
    importSecret, importSecretCache,
    works, worksCache,              \* the klusterlet works
    applied,                        \* the version on the managed cluster
    queue, step,                    \* the requests, and where each one is
    copy, statusCopy,               \* what the two reconciliations read
    outcome,                        \* what Import returned
    overlooked,                     \* the deletion of an auto-import secret that
                                    \* no reconciliation has seen yet
    disturbances

settingVars == <<by, strategy>>
clusterVars == <<mc, cache, undelivered>>
deploymentVars == <<cd, cdCache>>
secretVars == <<autoSecret, autoSecretCache, importSecret, importSecretCache>>
workVars == <<works, worksCache, applied>>
requestVars == <<queue, step, copy, statusCopy, outcome>>
vars == <<settingVars, clusterVars, deploymentVars, secretVars, workVars,
          requestVars, overlooked, disturbances>>

Conditions == {"none", "wait", "importing", "applied", "failed", "imported"}
(* exists: and is not being deleted; via: it has a created-via annotation, *)
(* of this controller or of discovery, which is kept.                      *)
Cluster == [exists: BOOLEAN, cond: Conditions, disabled: BOOLEAN,
            immediate: {"no", "requested", "completed"},
            via: BOOLEAN]

(* What hive has yet to do before the deployment can be imported. *)
Milestones == {"installed", "claimed", "metadata"}
Deployment == [exists: BOOLEAN, deleting: BOOLEAN, missing: SUBSET Milestones,
               fins: SUBSET {"hive", "import"}]
NoDeployment == [exists |-> FALSE, deleting |-> FALSE, missing |-> {},
                 fins |-> {}]

Versions == 0 .. MaxVersions      \* 0: there is none
Works == [manifests: Versions, available: BOOLEAN]
Requests == {"import", "status"}
ImportSteps == {"idle", "finalizer", "annotate", "createdVia", "import",
                "condition"}
StatusSteps == {"idle", "wait", "check", "complete", "imported"}
NoCopy == [cond |-> "none", via |-> FALSE]
NoOutcome == [cond |-> "none", modified |-> FALSE, again |-> FALSE]

-----------------------------------------------------------------------------
(* The watch predicates on the ManagedCluster. *)
ImportWatches(old, new) ==
    \/ new.immediate = "requested"
    \/ old.disabled /\ ~new.disabled
    \/ by = "hive" /\ old.via # new.via

(* A write the API server accepted: every one has an event. *)
Write(new) ==
    /\ mc' = new
    /\ undelivered' = undelivered \cup {"status"}
         \cup (IF new.exists /\ ImportWatches(mc, new) THEN {"import"} ELSE {})
    /\ UNCHANGED cache

CacheCurrent == undelivered = {}

(* The process starts: what exists is delivered as created.  The cluster   *)
(* may have been detached, and its namespace kept by the deployment.       *)
Init ==
    /\ \E s \in Settings : by = s[1] /\ strategy = s[2]
    /\ mc \in [exists: BOOLEAN, cond: {"none"}, disabled: BOOLEAN,
               immediate: {"no"}, via: {FALSE}]
    /\ by = "self" \/ mc.disabled => mc.exists
    /\ cache = mc /\ undelivered = {}
    /\ cd \in IF by = "self" THEN {NoDeployment}
              ELSE [exists: {TRUE}, deleting: {FALSE}, fins: {{"hive", "import"}},
                    missing: {{m} : m \in Milestones}]
    /\ cdCache = cd
    /\ autoSecret \in BOOLEAN /\ (mc.disabled \/ ~mc.exists => ~autoSecret)
    /\ autoSecretCache = autoSecret
    /\ importSecret = 0 /\ importSecretCache = 0
    /\ works = [manifests |-> 0, available |-> FALSE] /\ worksCache = works
    /\ applied = 0
    /\ queue = {"status"} \cup (IF by = "hive" THEN {"import"} ELSE {})
    /\ step = [r \in Requests |-> "idle"]
    /\ copy = NoCopy /\ statusCopy = "no"
    /\ outcome = NoOutcome
    /\ overlooked = FALSE
    /\ disturbances = 0

-----------------------------------------------------------------------------
(* Users, hive, the other controllers, the agent. *)

Disturb ==
    /\ disturbances < MaxDisturbances
    /\ disturbances' = disturbances + 1

UserEdits(new) ==
    /\ mc.exists /\ Disturb
    /\ Write(new)
    /\ UNCHANGED <<settingVars, deploymentVars, secretVars, workVars,
                   requestVars, overlooked>>

UserRequestsImmediateImport ==
    mc.immediate # "requested" /\ UserEdits([mc EXCEPT !.immediate = "requested"])
UserTogglesAutoImport == UserEdits([mc EXCEPT !.disabled = ~@])
UserDeletesCluster == UserEdits([mc EXCEPT !.exists = FALSE])

UserTogglesAutoImportSecret ==
    /\ Disturb
    /\ autoSecret' = ~autoSecret
    /\ UNCHANGED <<settingVars, clusterVars, deploymentVars, autoSecretCache,
                   importSecret, importSecretCache, workVars, requestVars,
                   overlooked>>

UserDeletesDeployment ==
    /\ cd.exists /\ ~cd.deleting /\ Disturb
    /\ cd' = [cd EXCEPT !.deleting = TRUE]
    /\ UNCHANGED <<settingVars, clusterVars, cdCache, secretVars, workVars,
                   requestVars, overlooked>>

(* An object that is deleted goes with its last finalizer. *)
Settled(d) == IF d.deleting /\ d.fins = {} THEN NoDeployment ELSE d

HiveProvisions ==
    /\ cd.exists /\ cd.missing # {} /\ ~cd.deleting
    /\ cd' = [cd EXCEPT !.missing = {}]
    /\ UNCHANGED <<settingVars, clusterVars, cdCache, secretVars, workVars,
                   requestVars, overlooked, disturbances>>

HiveDeprovisions ==
    /\ cd.deleting /\ "hive" \in cd.fins
    /\ cd' = Settled([cd EXCEPT !.fins = @ \ {"hive"}])
    /\ UNCHANGED <<settingVars, clusterVars, cdCache, secretVars, workVars,
                   requestVars, overlooked, disturbances>>

(* importconfig-controller creates the import secret, and renders it anew. *)
ImportSecretRendered ==
    /\ importSecret < MaxVersions
    /\ IF importSecret = 0 THEN UNCHANGED disturbances ELSE Disturb
    /\ importSecret' = importSecret + 1
    /\ UNCHANGED <<settingVars, clusterVars, deploymentVars, autoSecret,
                   autoSecretCache, importSecretCache, workVars, requestVars,
                   overlooked>>

(* manifestwork-controller *)
WorksApplied ==
    /\ importSecret # 0 /\ works.manifests # importSecret
    /\ works' = [works EXCEPT !.manifests = importSecret]
    /\ UNCHANGED <<settingVars, clusterVars, deploymentVars, secretVars,
                   worksCache, applied, requestVars, overlooked, disturbances>>

(* The agent on the managed cluster applies the works and reports. *)
AgentReports ==
    /\ applied # 0 /\ works.manifests # 0
    /\ applied # works.manifests \/ ~works.available
    /\ applied' = works.manifests
    /\ works' = [works EXCEPT !.available = TRUE]
    /\ UNCHANGED <<settingVars, clusterVars, deploymentVars, secretVars,
                   worksCache, requestVars, overlooked, disturbances>>

(* The klusterlet of an imported cluster is removed from the managed       *)
(* cluster: nobody is left to report, so the works keep their status.  A   *)
(* user who asks for an immediate import does so after that.               *)
AgentRemoved ==
    /\ applied # 0 /\ works.available /\ mc.immediate # "requested"
    /\ Disturb
    /\ applied' = 0
    /\ UNCHANGED <<settingVars, clusterVars, deploymentVars, secretVars, works,
                   worksCache, requestVars, overlooked>>

-----------------------------------------------------------------------------
(* The informers, with the predicates of the controllers.  The resync of   *)
(* the ManagedCluster is left out: nothing here relies on it.              *)

Queued(rs) == queue' = queue \cup rs /\ UNCHANGED <<step, copy, statusCopy, outcome>>

ClusterSync ==
    /\ ~CacheCurrent
    /\ cache' = mc /\ undelivered' = {}
    /\ Queued(undelivered)
    /\ UNCHANGED <<settingVars, mc, deploymentVars, secretVars, workVars,
                   overlooked, disturbances>>

(* Every event of the deployment is taken, the periodic resync included. *)
DeploymentSync ==
    /\ cdCache # cd \/ (cd.exists /\ "import" \notin queue)
    /\ cdCache' = cd
    /\ Queued({"import"})
    /\ UNCHANGED <<settingVars, clusterVars, cd, secretVars, workVars,
                   overlooked, disturbances>>

(* Nobody here watches the auto-import secret. *)
AutoImportSecretSync ==
    /\ autoSecretCache # autoSecret
    /\ autoSecretCache' = autoSecret
    /\ overlooked' = ~autoSecret
    /\ UNCHANGED <<settingVars, clusterVars, deploymentVars, autoSecret,
                   importSecret, importSecretCache, workVars, requestVars,
                   disturbances>>

ImportSecretSync ==
    /\ importSecretCache # importSecret
    /\ importSecretCache' = importSecret
    /\ Queued({"import"})
    /\ UNCHANGED <<settingVars, clusterVars, deploymentVars, autoSecret,
                   autoSecretCache, importSecret, workVars, overlooked,
                   disturbances>>

(* Created works and changed manifests import, all changes are a status.   *)
WorksSync ==
    /\ worksCache # works
    /\ worksCache' = works
    /\ Queued({"status"} \cup (IF worksCache.manifests # works.manifests
                                 THEN {"import"} ELSE {}))
    /\ UNCHANGED <<settingVars, clusterVars, deploymentVars, secretVars, works,
                   applied, overlooked, disturbances>>

-----------------------------------------------------------------------------
(* A reconciliation goes on at step s, or ends and is retried. *)
Continue(r, s) == step' = [step EXCEPT ![r] = s] /\ UNCHANGED queue
End(r, again) ==
    /\ step' = [step EXCEPT ![r] = "idle"]
    /\ queue' = IF again THEN queue \cup {r} ELSE queue

(***************************************************************************)
(* UpdateManagedClusterImportCondition: gets the cluster from the cache,   *)
(* does nothing when it has the condition, and fails when it is not there  *)
(* or the cache is not up to date.                                         *)
(***************************************************************************)
UpdateImportCondition(r, cond, again) ==
    \/ /\ cache.cond = cond /\ cache.exists
       /\ UNCHANGED clusterVars /\ End(r, again)
    \/ /\ cache.cond # cond /\ cache.exists /\ CacheCurrent
       /\ Write([mc EXCEPT !.cond = cond]) /\ End(r, again)
    \/ /\ ~cache.exists \/ (cache.cond # cond /\ ~CacheCurrent)
       /\ UNCHANGED clusterVars /\ End(r, TRUE)

(* Mutant: an imported cluster is never imported again. *)
MayImportOnce(c) ==
    c.exists /\ ~c.disabled /\ (c.immediate = "requested" \/ c.cond # "imported")

(* The strategy, immediate-import and disable-auto-import. *)
MayImport(c) ==
    /\ c.exists /\ ~c.disabled
    /\ \/ c.immediate = "requested"
       \/ strategy = "ImportAndSync" \/ c.cond # "imported"

(***************************************************************************)
(* clusterdeployment-controller and selfmanagedcluster-controller.         *)
(***************************************************************************)

(* Mutant: a deployment is looked at only as long as its cluster exists. *)
DeploymentStepNeedsCluster ==
    IF ~cdCache.exists \/ ~cache.exists THEN "idle"
    ELSE IF cdCache.deleting
      THEN IF cdCache.fins = {"import"} THEN "finalizer" ELSE "idle"
    ELSE IF ~MayImport(cache) \/ cdCache.missing \cap {"installed", "claimed"} # {}
      THEN "idle"
    ELSE IF "metadata" \in cdCache.missing THEN "annotate" ELSE "createdVia"

(* Mutant: the controller does not wait for hive. *)
DeploymentStepDoesNotWait ==
    IF ~cdCache.exists THEN "idle"
    ELSE IF cdCache.deleting
      THEN IF "import" \in cdCache.fins THEN "finalizer" ELSE "idle"
    ELSE IF ~MayImport(cache) \/ cdCache.missing \cap {"installed", "claimed"} # {}
      THEN "idle"
    ELSE IF "metadata" \in cdCache.missing THEN "annotate" ELSE "createdVia"

(* A deployment that is deleted is looked at before its cluster is, which  *)
(* may be gone; hive removes its finalizers first.                         *)
DeploymentStep ==
    IF ~cdCache.exists THEN "idle"
    ELSE IF cdCache.deleting
      THEN IF cdCache.fins = {"import"} THEN "finalizer" ELSE "idle"
    ELSE IF ~MayImport(cache) \/ cdCache.missing \cap {"installed", "claimed"} # {}
      THEN "idle"
    ELSE IF "metadata" \in cdCache.missing THEN "annotate" ELSE "createdVia"

SelfManagedStep ==
    IF MayImport(cache) /\ ~autoSecretCache THEN "import" ELSE "idle"

ImportReconcile ==
    /\ "import" \in queue /\ step["import"] = "idle"
    /\ queue' = queue \ {"import"}
    /\ step' = [step EXCEPT !["import"] =
                   IF by = "hive" THEN DeploymentStep ELSE SelfManagedStep]
    /\ copy' = IF step'["import"] = "idle" THEN NoCopy
                 ELSE [cond |-> cache.cond, via |-> cache.via]
    /\ overlooked' = (overlooked /\ ~(by = "self" /\ ~autoSecretCache))
    /\ UNCHANGED <<settingVars, clusterVars, deploymentVars, secretVars,
                   workVars, statusCopy, outcome, disturbances>>

(* The patch has no precondition; the deployment goes with its finalizers. *)
removeImportFinalizer ==
    /\ step["import"] = "finalizer"
    /\ cd' = IF cd.exists THEN Settled([cd EXCEPT !.fins = {}]) ELSE cd
    /\ copy' = NoCopy
    /\ End("import", ~cd.exists)
    /\ UNCHANGED <<settingVars, clusterVars, cdCache, secretVars, workVars,
                   statusCopy, outcome, overlooked, disturbances>>

(* A patch too, whose answer replaces the copy; one that changes nothing   *)
(* has no event.  An auto-import secret or missing metadata end the        *)
(* reconciliation.                                                         *)
setCreatedViaAnnotation ==
    /\ step["import"] \in {"annotate", "createdVia"}
    /\ LET ends == autoSecretCache \/ step["import"] = "annotate"
           Proceed(c) ==
             /\ copy' = IF ends THEN NoCopy ELSE [copy EXCEPT !.cond = c]
             /\ Continue("import", IF ends THEN "idle" ELSE "import")
       IN \/ copy.via /\ UNCHANGED clusterVars /\ Proceed(copy.cond)
          \/ /\ ~copy.via /\ mc.exists
             /\ IF mc.via THEN UNCHANGED clusterVars
                          ELSE Write([mc EXCEPT !.via = TRUE])
             /\ Proceed(mc.cond)
          \/ /\ ~copy.via /\ ~mc.exists
             /\ UNCHANGED clusterVars /\ copy' = NoCopy /\ End("import", TRUE)
    /\ overlooked' = (overlooked /\ autoSecretCache)
    /\ UNCHANGED <<settingVars, deploymentVars, secretVars, workVars, statusCopy,
                   outcome, disturbances>>

(* hive's secret with the admin kubeconfig cannot be read. *)
HiveSecretUnread ==
    /\ step["import"] = "import" /\ by = "hive" /\ Disturb
    /\ copy' = NoCopy /\ End("import", TRUE)
    /\ UNCHANGED <<settingVars, clusterVars, deploymentVars, secretVars,
                   workVars, statusCopy, outcome, overlooked>>

(* Import returns a condition, whether it modified anything (which counts  *)
(* only after a success) and whether the reconciliation is to be repeated. *)
Returns(cond, modified, again) ==
    /\ outcome' = [cond |-> cond, modified |-> modified, again |-> again]
    /\ Continue("import", "condition")

Import ==
    /\ step["import"] = "import"
    /\ \/ /\ copy.cond \in {"none", "wait"}
          /\ Returns("importing", FALSE, TRUE)
          /\ UNCHANGED <<applied, disturbances>>
       \/ /\ copy.cond \notin {"none", "wait"} /\ worksCache.manifests = 0
          /\ Returns("importing", FALSE, TRUE)
          /\ UNCHANGED <<applied, disturbances>>
       \/ /\ copy.cond \notin {"none", "wait"} /\ worksCache.manifests # 0
          /\ \/ /\ importSecretCache = 0
                /\ Returns("importing", FALSE, FALSE)
                /\ UNCHANGED <<applied, disturbances>>
             \/ /\ importSecretCache # 0
                /\ Returns("applied", applied # importSecretCache, FALSE)
                /\ applied' = importSecretCache
                /\ UNCHANGED disturbances
             \/ /\ Disturb
                /\ \E cond \in {"failed", "importing"} :
                     Returns(cond, FALSE, TRUE)
                /\ UNCHANGED applied
    /\ UNCHANGED <<settingVars, clusterVars, deploymentVars, secretVars, works,
                   worksCache, copy, statusCopy, overlooked>>

(* Mutant: the condition is updated after every import. *)
ReportsAlways(o) == TRUE

Reports(o) == o.cond # "applied" \/ o.modified

UpdateOutcome ==
    /\ step["import"] = "condition"
    /\ IF Reports(outcome)
         THEN UpdateImportCondition("import", outcome.cond, outcome.again)
         ELSE UNCHANGED clusterVars /\ End("import", outcome.again)
    /\ outcome' = NoOutcome /\ copy' = NoCopy
    /\ UNCHANGED <<settingVars, deploymentVars, secretVars, workVars, statusCopy,
                   overlooked, disturbances>>

-----------------------------------------------------------------------------
(* import-status-controller *)

otherVars == <<settingVars, deploymentVars, secretVars, workVars, copy, outcome,
               overlooked, disturbances>>

StatusReconcile ==
    /\ "status" \in queue /\ step["status"] = "idle"
    /\ queue' = queue \ {"status"}
    /\ step' = [step EXCEPT !["status"] =
                  IF ~cache.exists THEN "idle"
                  ELSE IF cache.cond = "none" THEN "wait" ELSE "check"]
    /\ statusCopy' = cache.immediate
    /\ UNCHANGED <<clusterVars, otherVars>>

(* Mutant: a reason that nobody knows. *)
AddConditionMisspelled ==
    /\ step["status"] = "wait"
    /\ UpdateImportCondition("status", "waiting", TRUE)
    /\ UNCHANGED <<statusCopy, otherVars>>

AddCondition ==
    /\ step["status"] = "wait"
    /\ UpdateImportCondition("status", "wait", TRUE)
    /\ UNCHANGED <<statusCopy, otherVars>>

IsManifestWorksAvailable ==
    /\ step["status"] = "check"
    /\ Continue("status", IF ~works.available THEN "idle"
                          ELSE IF statusCopy = "requested" THEN "complete"
                          ELSE "imported")
    /\ statusCopy' = "no"
    /\ UNCHANGED <<clusterVars, otherVars>>

SetImmediateImportCompleted ==
    /\ step["status"] = "complete"
    /\ \/ /\ cache.exists /\ cache.immediate # "requested"
          /\ UNCHANGED clusterVars /\ Continue("status", "imported")
       \/ /\ cache.exists /\ cache.immediate = "requested" /\ CacheCurrent
          /\ Write([mc EXCEPT !.immediate = "completed"])
          /\ Continue("status", "imported")
       \/ /\ ~cache.exists \/ (cache.immediate = "requested" /\ ~CacheCurrent)
          /\ UNCHANGED clusterVars /\ End("status", TRUE)
    /\ UNCHANGED <<statusCopy, otherVars>>

ReportImported ==
    /\ step["status"] = "imported"
    /\ UpdateImportCondition("status", "imported", FALSE)
    /\ UNCHANGED <<statusCopy, otherVars>>

-----------------------------------------------------------------------------
ImportStep ==
    \/ ImportReconcile
    \/ removeImportFinalizer
    \/ setCreatedViaAnnotation
    \/ HiveSecretUnread
    \/ Import
    \/ UpdateOutcome

StatusStep ==
    \/ StatusReconcile
    \/ AddCondition
    \/ IsManifestWorksAvailable
    \/ SetImmediateImportCompleted
    \/ ReportImported

Next ==
    \/ UserRequestsImmediateImport
    \/ UserTogglesAutoImport
    \/ UserDeletesCluster
    \/ UserTogglesAutoImportSecret
    \/ UserDeletesDeployment
    \/ HiveProvisions
    \/ HiveDeprovisions
    \/ ImportSecretRendered
    \/ WorksApplied
    \/ AgentReports
    \/ AgentRemoved
    \/ ClusterSync
    \/ DeploymentSync
    \/ AutoImportSecretSync
    \/ ImportSecretSync
    \/ WorksSync
    \/ ImportStep
    \/ StatusStep

Spec == Init /\ [][Next]_vars

(***************************************************************************)
(* Fairness.  Requests are served, informers catch up and resync, the      *)
(* first import secret is rendered, hive and the agent do their part.      *)
(* Nothing makes a user act.                                               *)
(***************************************************************************)
Fairness ==
    /\ WF_vars(HiveProvisions)
    /\ WF_vars(HiveDeprovisions)
    /\ WF_vars(importSecret = 0 /\ ImportSecretRendered)
    /\ WF_vars(WorksApplied)
    /\ WF_vars(AgentReports)
    /\ WF_vars(ClusterSync)
    /\ WF_vars(DeploymentSync)
    /\ WF_vars(AutoImportSecretSync)
    /\ WF_vars(ImportSecretSync)
    /\ WF_vars(WorksSync)
    /\ WF_vars(ImportStep)
    /\ WF_vars(StatusStep)

FairSpec == Spec /\ Fairness

-----------------------------------------------------------------------------
(* The cluster, the deployment and the two reconciliations stay within     *)
(* their types.                                                            *)
TypeOK ==
    /\ <<by, strategy>> \in Settings
    /\ mc \in Cluster /\ cache \in Cluster /\ undelivered \subseteq Requests
    /\ cd \in Deployment /\ cdCache \in Deployment
    /\ autoSecret \in BOOLEAN /\ autoSecretCache \in BOOLEAN
    /\ importSecret \in Versions /\ importSecretCache \in Versions
    /\ works \in Works /\ worksCache \in Works /\ applied \in Versions
    /\ queue \subseteq Requests
    /\ step \in [Requests -> ImportSteps \cup StatusSteps]
    /\ step["import"] \in ImportSteps /\ step["status"] \in StatusSteps
    /\ copy \in [cond: Conditions, via: BOOLEAN]
    /\ statusCopy \in {"no", "requested", "completed"}
    /\ outcome \in [cond: Conditions, modified: BOOLEAN, again: BOOLEAN]
    /\ overlooked \in BOOLEAN
    /\ disturbances \in 0 .. MaxDisturbances

(***************************************************************************)
(* The importing controller is to import the cluster.  It does not watch   *)
(* the deletion of an auto-import secret: a deployment's resync makes up   *)
(* for that, nothing does for a self-managed cluster.                      *)
(***************************************************************************)
Eligible ==
    /\ mc.exists /\ ~mc.disabled /\ ~autoSecret
    /\ by = "self" => ~overlooked
    /\ by = "hive" => cd.exists /\ ~cd.deleting /\ cd.missing = {}

(***************************************************************************)
(* A provisioned deployment and the hub itself are imported, however the   *)
(* events about the deployment, the import secret and the works are        *)
(* ordered, unless somebody withdraws them.  Under ImportAndSync a         *)
(* deployment whose klusterlet was removed from the managed cluster gets   *)
(* it back, although the works still look available and the cluster        *)
(* imported.                                                               *)
(***************************************************************************)
KeptInSync == by = "hive" /\ strategy = "ImportAndSync"
ImportCompletes ==
    Eligible ~> \/ mc.cond = "imported" /\ (KeptInSync => applied # 0)
                \/ ~Eligible

(***************************************************************************)
(* "This check is to prevent the current controller and import status      *)
(* controller from modifying the ManagedClusterImportSucceeded condition   *)
(* of the managed cluster in a loop": the condition settles.               *)
(***************************************************************************)
ConditionSettles ==
    <>[](mc.cond = "imported") \/ <>[](mc.cond # "imported")

(***************************************************************************)
(* "wait hive to remove the finalizers from the clusterdeployment": the    *)
(* patch that empties the list of finalizers, decided on a cached          *)
(* deployment and sent without a precondition, never takes hive's.  (One   *)
(* incarnation of the deployment.)                                         *)
(***************************************************************************)
HiveFinalizerKept ==
    [][step' # step /\ "hive" \in cd.fins => "hive" \in cd'.fins]_vars

(***************************************************************************)
(* A deployment with the import finalizer of an earlier release goes when  *)
(* it is deleted, also when its cluster was detached before.               *)
(***************************************************************************)
DeploymentGoes == cd.deleting ~> ~cd.exists

(***************************************************************************)
(* "Adding this annotation (with an empty value) to a ManagedCluster       *)
(* resource triggers an immediate import process, regardless of the        *)
(* configured auto-import strategy": a klusterlet that was removed comes   *)
(* back.                                                                   *)
(***************************************************************************)
ImmediateImportHappens ==
    mc.immediate = "requested" /\ Eligible ~> applied # 0 \/ ~Eligible
=============================================================================
