-------------------------- MODULE HiveImportProofs --------------------------
(***************************************************************************)
(* The deployment is left to hive until hive is through with it, although  *)
(* the controller decides on a cached deployment: finalizers only go, so   *)
(* the cache shows at least those that are there.                          *)
(***************************************************************************)
EXTENDS HiveImport, TLAPS

(* An up-to-date cache holds the cluster: the writes that the API server   *)
(* accepts only when the cache is current start from what was read.        *)
CacheOK == CacheCurrent => cache = mc

(* Finalizers only go, so the cache shows at least those that are there,   *)
(* and a deployment that the patch was decided on has lost hive's.         *)
FinalizersOK ==
    /\ cd.fins \subseteq cdCache.fins
    /\ step["import"] = "finalizer" => "hive" \notin cd.fins

IInv == TypeOK /\ CacheOK /\ FinalizersOK

-----------------------------------------------------------------------------
(* Types. *)

LEMMA VersionsType == Versions \subseteq Nat /\ 0 \in Versions
BY HiveImportAssumption DEF Versions

LEMMA NothingType ==
    /\ NoDeployment \in Deployment
    /\ NoCopy \in [cond: Conditions, via: BOOLEAN]
    /\ NoOutcome \in [cond: Conditions, modified: BOOLEAN, again: BOOLEAN]
BY DEF NoDeployment, Deployment, NoCopy, NoOutcome, Conditions

LEMMA DisturbType ==
    ASSUME disturbances \in 0 .. MaxDisturbances, Disturb
    PROVE  disturbances' \in 0 .. MaxDisturbances
BY HiveImportAssumption DEF Disturb

LEMMA SettledType == \A d \in Deployment : Settled(d) \in Deployment
BY NothingType DEF Settled

LEMMA SettledFins == \A d \in Deployment : Settled(d).fins \subseteq d.fins
BY DEF Settled, NoDeployment, Deployment

(* The cluster after a write, or left alone. *)
ClusterOK == mc \in Cluster /\ cache \in Cluster /\ undelivered \subseteq Requests
LEMMA WriteFacts ==
    ASSUME ClusterOK, NEW new \in Cluster, Write(new)
    PROVE  ClusterOK' /\ CacheOK'
<1>1. /\ mc' = new /\ cache' = cache
      /\ undelivered' \subseteq Requests /\ "status" \in undelivered'
  BY DEF Write, ClusterOK, Requests
<1> QED BY <1>1 DEF ClusterOK, CacheOK, CacheCurrent

LEMMA ClusterFrame ==
    ASSUME ClusterOK, CacheOK, UNCHANGED clusterVars PROVE ClusterOK' /\ CacheOK'
BY DEF ClusterOK, CacheOK, CacheCurrent, clusterVars

(* The queue and the steps. *)
StepsOK ==
    /\ queue \subseteq Requests
    /\ step \in [Requests -> ImportSteps \cup StatusSteps]
    /\ step["import"] \in ImportSteps /\ step["status"] \in StatusSteps

LEMMA QueuedFacts ==
    ASSUME StepsOK, NEW rs \in SUBSET Requests, Queued(rs) PROVE StepsOK'
BY DEF StepsOK, Queued

LEMMA ImportGoes ==
    ASSUME StepsOK, NEW s \in ImportSteps, queue' \subseteq Requests,
           step' = [step EXCEPT !["import"] = s]
    PROVE  StepsOK' /\ step'["import"] = s
BY DEF StepsOK, Requests

LEMMA StatusGoes ==
    ASSUME StepsOK, NEW s \in StatusSteps, queue' \subseteq Requests,
           step' = [step EXCEPT !["status"] = s]
    PROVE  StepsOK' /\ step'["import"] = step["import"]
BY DEF StepsOK, Requests

LEMMA EndFacts ==
    ASSUME StepsOK, NEW r \in Requests, NEW again, End(r, again)
    PROVE  /\ step' = [step EXCEPT ![r] = "idle"] /\ queue' \subseteq Requests
           /\ StepsOK' /\ step'["import"] \in {"idle", step["import"]}
BY DEF End, StepsOK, Requests, ImportSteps, StatusSteps

LEMMA ConditionFacts ==
    ASSUME ClusterOK, CacheOK, StepsOK, NEW r \in Requests, NEW cond \in Conditions,
           NEW again, UpdateImportCondition(r, cond, again)
    PROVE  /\ ClusterOK' /\ CacheOK' /\ StepsOK'
           /\ step'["import"] \in {"idle", step["import"]}
<1>1. StepsOK' /\ step'["import"] \in {"idle", step["import"]}
  BY EndFacts DEF UpdateImportCondition
<1>2. [mc EXCEPT !.cond = cond] \in Cluster
  BY DEF ClusterOK, Cluster
<1>3. UNCHANGED clusterVars \/ Write([mc EXCEPT !.cond = cond])
  BY Zenon DEF UpdateImportCondition
<1> QED BY <1>1, <1>2, <1>3, WriteFacts, ClusterFrame

(* The rest. *)
HubOK ==
    /\ <<by, strategy>> \in Settings
    /\ autoSecret \in BOOLEAN /\ autoSecretCache \in BOOLEAN
    /\ importSecret \in Versions /\ importSecretCache \in Versions
    /\ works \in Works /\ worksCache \in Works /\ applied \in Versions
CopiesOK ==
    /\ copy \in [cond: Conditions, via: BOOLEAN]
    /\ statusCopy \in {"no", "requested", "completed"}
    /\ outcome \in [cond: Conditions, modified: BOOLEAN, again: BOOLEAN]
DeploymentOK == cd \in Deployment /\ cdCache \in Deployment
RestOK == overlooked \in BOOLEAN /\ disturbances \in 0 .. MaxDisturbances

LEMMA TypeParts ==
    TypeOK <=> /\ ClusterOK /\ StepsOK /\ HubOK /\ CopiesOK /\ DeploymentOK
               /\ RestOK
BY Zenon DEF TypeOK, ClusterOK, StepsOK, HubOK, CopiesOK, DeploymentOK, RestOK

(* Frames. *)
LEMMA HubFrame ==
    ASSUME HubOK, UNCHANGED <<settingVars, secretVars, workVars>> PROVE HubOK'
BY DEF HubOK, settingVars, secretVars, workVars

LEMMA StepsFrame == ASSUME StepsOK, UNCHANGED <<queue, step>> PROVE StepsOK'
BY DEF StepsOK

LEMMA CopiesFrame ==
    ASSUME CopiesOK, UNCHANGED <<copy, statusCopy, outcome>> PROVE CopiesOK'
BY DEF CopiesOK

LEMMA RestFrame ==
    ASSUME RestOK, UNCHANGED overlooked, UNCHANGED disturbances \/ Disturb PROVE RestOK'
BY DisturbType DEF RestOK

LEMMA DeploymentFrame ==
    ASSUME DeploymentOK, FinalizersOK, UNCHANGED deploymentVars,
           step'["import"] \in {"idle", step["import"]} \/ step'["import"] # "finalizer"
    PROVE  DeploymentOK' /\ FinalizersOK'
BY DEF DeploymentOK, FinalizersOK, deploymentVars

LEMMA PartsStep ==
    ASSUME ClusterOK', CacheOK', StepsOK', HubOK', CopiesOK', DeploymentOK',
           FinalizersOK', RestOK'
    PROVE  IInv'
BY Zenon DEF IInv, TypeOK, ClusterOK, StepsOK, HubOK, CopiesOK, DeploymentOK, RestOK

-----------------------------------------------------------------------------
(* The inductive invariant holds at the start and is kept by every step. *)
LEMMA InitIInv == Init => IInv
<1> SUFFICES ASSUME Init PROVE IInv
  OBVIOUS
<1>1. ClusterOK /\ CacheOK
  <2>1. mc \in [exists: BOOLEAN, cond: {"none"}, disabled: BOOLEAN,
                immediate: {"no"}, via: {FALSE}]
    BY Zenon DEF Init
  <2>2. mc \in Cluster
    BY <2>1 DEF Cluster, Conditions
  <2>3. cache = mc /\ undelivered = {}
    BY Zenon DEF Init
  <2> QED BY <2>2, <2>3 DEF ClusterOK, CacheOK
<1>2. DeploymentOK /\ cdCache = cd
  <2>1. cd \in IF by = "self" THEN {NoDeployment}
              ELSE [exists: {TRUE}, deleting: {FALSE}, fins: {{"hive", "import"}},
                    missing: {{m} : m \in Milestones}]
    BY Zenon DEF Init
  <2>2. cd \in Deployment
    <3>1. CASE by = "self"
      BY <2>1, <3>1, NothingType
    <3>2. CASE by # "self"
      <4>1. PICK m \in Milestones :
              cd \in [exists: {TRUE}, deleting: {FALSE}, missing: {{m}},
                      fins: {{"hive", "import"}}]
        BY <2>1, <3>2
      <4> QED BY <4>1 DEF Deployment
    <3> QED BY <3>1, <3>2
  <2>3. cdCache = cd
    BY Zenon DEF Init
  <2> QED BY <2>2, <2>3 DEF DeploymentOK
<1>3. StepsOK /\ step["import"] = "idle"
  <2>1. step = [r \in Requests |-> "idle"]
    BY Zenon DEF Init
  <2>2. queue \subseteq Requests
    <3>1. queue = {"status"} \cup (IF by = "hive" THEN {"import"} ELSE {})
      BY Zenon DEF Init
    <3> QED BY <3>1 DEF Requests
  <2> QED BY <2>1, <2>2 DEF StepsOK, Requests, ImportSteps, StatusSteps
<1>4. HubOK
  <2>1. PICK s \in Settings : by = s[1] /\ strategy = s[2]
    BY Zenon DEF Init
  <2>2. <<by, strategy>> \in Settings
    BY <2>1, HiveImportAssumption
  <2>3. autoSecret \in BOOLEAN /\ autoSecretCache \in BOOLEAN
    BY Zenon DEF Init
  <2>4. /\ importSecret = 0 /\ importSecretCache = 0 /\ applied = 0
        /\ works = [manifests |-> 0, available |-> FALSE] /\ worksCache = works
    BY Zenon DEF Init
  <2>5. works \in Works /\ worksCache \in Works
    BY <2>4, VersionsType DEF Works
  <2> QED BY <2>2, <2>3, <2>4, <2>5, VersionsType DEF HubOK
<1>5. CopiesOK
  <2>1. copy = NoCopy /\ statusCopy = "no" /\ outcome = NoOutcome
    BY Zenon DEF Init
  <2> QED BY <2>1, NothingType DEF CopiesOK
<1>6. RestOK
  <2>1. overlooked \in BOOLEAN /\ disturbances = 0
    BY Zenon DEF Init
  <2> QED BY <2>1, HiveImportAssumption DEF RestOK
<1>7. FinalizersOK
  BY <1>2, <1>3 DEF FinalizersOK
<1> QED BY <1>1, <1>2, <1>3, <1>4, <1>5, <1>6, <1>7, TypeParts DEF IInv

(* The deployment is only changed by removing finalizers and milestones. *)
LEMMA DeploymentWritten ==
    ASSUME DeploymentOK, FinalizersOK, NEW d \in Deployment, d.fins \subseteq cd.fins,
           cd' = Settled(d) \/ cd' = d, UNCHANGED cdCache,
           step'["import"] \in {"idle", step["import"]}
    PROVE  DeploymentOK' /\ FinalizersOK'
<1>1. cd' \in Deployment /\ cd'.fins \subseteq cd.fins
  BY SettledType, SettledFins
<1> QED BY <1>1 DEF DeploymentOK, FinalizersOK

(* Users, hive, the other controllers, the agent. *)
LEMMA EnvironmentStep ==
    ASSUME IInv,
           \/ UserRequestsImmediateImport \/ UserTogglesAutoImport
           \/ UserDeletesCluster \/ UserTogglesAutoImportSecret
           \/ UserDeletesDeployment \/ HiveProvisions \/ HiveDeprovisions
           \/ ImportSecretRendered \/ WorksApplied \/ AgentReports \/ AgentRemoved
    PROVE  IInv'
<1> USE TypeParts DEF IInv
<1>1. UNCHANGED <<settingVars, requestVars, overlooked>>
  BY DEF UserRequestsImmediateImport, UserTogglesAutoImport, UserDeletesCluster,
         UserEdits, UserTogglesAutoImportSecret, UserDeletesDeployment,
         HiveProvisions, HiveDeprovisions, ImportSecretRendered, WorksApplied,
         AgentReports, AgentRemoved
<1>2. StepsOK' /\ CopiesOK' /\ step' = step
  BY <1>1, StepsFrame, CopiesFrame DEF requestVars
<1>3. RestOK'
  <2>1. UNCHANGED disturbances \/ Disturb
    BY DEF UserRequestsImmediateImport, UserTogglesAutoImport, UserDeletesCluster,
           UserEdits, UserTogglesAutoImportSecret, UserDeletesDeployment,
           HiveProvisions, HiveDeprovisions, ImportSecretRendered, WorksApplied,
           AgentReports, AgentRemoved
  <2> QED BY <1>1, <2>1, RestFrame
<1>4. ClusterOK' /\ CacheOK'
  <2>1. CASE UserRequestsImmediateImport
    <3>1. [mc EXCEPT !.immediate = "requested"] \in Cluster
      BY DEF ClusterOK, Cluster
    <3> QED BY <2>1, <3>1, WriteFacts DEF UserRequestsImmediateImport, UserEdits
  <2>2. CASE UserTogglesAutoImport
    <3>1. [mc EXCEPT !.disabled = ~@] \in Cluster
      BY DEF ClusterOK, Cluster
    <3> QED BY <2>2, <3>1, WriteFacts DEF UserTogglesAutoImport, UserEdits
  <2>3. CASE UserDeletesCluster
    <3>1. [mc EXCEPT !.exists = FALSE] \in Cluster
      BY DEF ClusterOK, Cluster
    <3> QED BY <2>3, <3>1, WriteFacts DEF UserDeletesCluster, UserEdits
  <2>4. CASE UNCHANGED clusterVars
    BY <2>4, ClusterFrame
  <2> QED
    BY <2>1, <2>2, <2>3, <2>4
    DEF UserTogglesAutoImportSecret, UserDeletesDeployment, HiveProvisions,
        HiveDeprovisions, ImportSecretRendered, WorksApplied, AgentReports,
        AgentRemoved
<1>5. DeploymentOK' /\ FinalizersOK'
  <2>1. CASE UserDeletesDeployment
    <3>1. /\ [cd EXCEPT !.deleting = TRUE] \in Deployment
          /\ [cd EXCEPT !.deleting = TRUE].fins = cd.fins
      BY DEF DeploymentOK, Deployment
    <3> QED BY <1>2, <2>1, <3>1, DeploymentWritten DEF UserDeletesDeployment
  <2>2. CASE HiveProvisions
    <3>1. /\ [cd EXCEPT !.missing = {}] \in Deployment
          /\ [cd EXCEPT !.missing = {}].fins = cd.fins
      BY DEF DeploymentOK, Deployment
    <3> QED BY <1>2, <2>2, <3>1, DeploymentWritten DEF HiveProvisions
  <2>3. CASE HiveDeprovisions
    <3> DEFINE d == [cd EXCEPT !.fins = @ \ {"hive"}]
    <3>1. d \in Deployment /\ d.fins \subseteq cd.fins
      BY DEF DeploymentOK, Deployment
    <3>2. cd' = Settled(d) /\ UNCHANGED cdCache
      BY <2>3 DEF HiveDeprovisions
    <3> HIDE DEF d
    <3> QED BY <1>2, <3>1, <3>2, DeploymentWritten
  <2>4. CASE UNCHANGED deploymentVars
    BY <1>2, <2>4, DeploymentFrame
  <2> QED
    BY <2>1, <2>2, <2>3, <2>4
    DEF UserRequestsImmediateImport, UserTogglesAutoImport, UserDeletesCluster,
        UserEdits, UserTogglesAutoImportSecret, ImportSecretRendered,
        WorksApplied, AgentReports, AgentRemoved
<1>6. HubOK'
  <2>1. CASE UserTogglesAutoImportSecret
    BY <2>1 DEF UserTogglesAutoImportSecret, HubOK, settingVars, workVars
  <2>2. CASE ImportSecretRendered
    <3>1. importSecret' \in Versions
      BY <2>2, HiveImportAssumption DEF ImportSecretRendered, HubOK, Versions
    <3> QED BY <2>2, <3>1 DEF ImportSecretRendered, HubOK, settingVars, workVars
  <2>3. CASE WorksApplied
    <3>1. works' \in Works
      BY <2>3 DEF WorksApplied, HubOK, Works
    <3> QED BY <2>3, <3>1 DEF WorksApplied, HubOK, settingVars, secretVars
  <2>4. CASE AgentReports
    <3>1. works' \in Works /\ applied' \in Versions
      BY <2>4 DEF AgentReports, HubOK, Works
    <3> QED BY <2>4, <3>1 DEF AgentReports, HubOK, settingVars, secretVars
  <2>5. CASE AgentRemoved
    BY <2>5, VersionsType DEF AgentRemoved, HubOK, settingVars, secretVars
  <2>6. CASE UNCHANGED <<settingVars, secretVars, workVars>>
    BY <2>6, HubFrame
  <2>7. CASE \/ UserRequestsImmediateImport \/ UserTogglesAutoImport
             \/ UserDeletesCluster \/ UserDeletesDeployment
             \/ HiveProvisions \/ HiveDeprovisions
    BY <2>7, <2>6
    DEF UserRequestsImmediateImport, UserTogglesAutoImport, UserDeletesCluster,
        UserEdits, UserDeletesDeployment, HiveProvisions, HiveDeprovisions
  <2> QED BY <2>1, <2>2, <2>3, <2>4, <2>5, <2>7
<1> QED BY <1>2, <1>3, <1>4, <1>5, <1>6, PartsStep

(* The informers. *)
LEMMA SyncStep ==
    ASSUME IInv,
           \/ ClusterSync \/ DeploymentSync \/ AutoImportSecretSync
           \/ ImportSecretSync \/ WorksSync
    PROVE  IInv'
<1> USE TypeParts DEF IInv
<1>1. CASE ClusterSync
  <2>1. ClusterOK' /\ CacheOK'
    BY <1>1 DEF ClusterSync, ClusterOK, CacheOK
  <2>2. StepsOK' /\ CopiesOK' /\ step' = step
    BY <1>1, QueuedFacts, CopiesFrame DEF ClusterSync, ClusterOK, Queued
  <2>3. HubOK' /\ RestOK'
    BY <1>1, HubFrame, RestFrame DEF ClusterSync
  <2>4. DeploymentOK' /\ FinalizersOK'
    BY <1>1, <2>2, DeploymentFrame DEF ClusterSync
  <2> QED BY <2>1, <2>2, <2>3, <2>4, PartsStep
<1>2. CASE DeploymentSync
  <2>1. ClusterOK' /\ CacheOK'
    BY <1>2, ClusterFrame DEF DeploymentSync
  <2>2. StepsOK' /\ CopiesOK' /\ step' = step
    BY <1>2, QueuedFacts, CopiesFrame DEF DeploymentSync, Requests, Queued
  <2>3. HubOK' /\ RestOK'
    BY <1>2, HubFrame, RestFrame DEF DeploymentSync
  <2>4. DeploymentOK' /\ FinalizersOK'
    BY <1>2, <2>2 DEF DeploymentSync, DeploymentOK, FinalizersOK
  <2> QED BY <2>1, <2>2, <2>3, <2>4, PartsStep
<1>3. CASE AutoImportSecretSync
  <2>1. ClusterOK' /\ CacheOK'
    BY <1>3, ClusterFrame DEF AutoImportSecretSync
  <2>2. StepsOK' /\ CopiesOK' /\ step' = step
    BY <1>3, StepsFrame, CopiesFrame DEF AutoImportSecretSync, requestVars
  <2>3. HubOK'
    BY <1>3 DEF AutoImportSecretSync, HubOK, settingVars, workVars
  <2>4. overlooked' \in BOOLEAN /\ disturbances' = disturbances
    BY <1>3 DEF AutoImportSecretSync
  <2>5. DeploymentOK' /\ FinalizersOK'
    BY <1>3, <2>2, DeploymentFrame DEF AutoImportSecretSync
  <2>6. RestOK'
    BY <2>4 DEF RestOK
  <2> QED BY <2>1, <2>2, <2>3, <2>5, <2>6, PartsStep
<1>4. CASE ImportSecretSync
  <2>1. ClusterOK' /\ CacheOK'
    BY <1>4, ClusterFrame DEF ImportSecretSync
  <2>2. StepsOK' /\ CopiesOK' /\ step' = step
    BY <1>4, QueuedFacts, CopiesFrame DEF ImportSecretSync, Requests, Queued
  <2>3. HubOK'
    BY <1>4 DEF ImportSecretSync, HubOK, settingVars, workVars
  <2>4. RestOK'
    BY <1>4, RestFrame DEF ImportSecretSync
  <2>5. DeploymentOK' /\ FinalizersOK'
    BY <1>4, <2>2, DeploymentFrame DEF ImportSecretSync
  <2> QED BY <2>1, <2>2, <2>3, <2>4, <2>5, PartsStep
<1>5. CASE WorksSync
  <2>1. ClusterOK' /\ CacheOK'
    BY <1>5, ClusterFrame DEF WorksSync
  <2>2. StepsOK' /\ CopiesOK' /\ step' = step
    BY <1>5, QueuedFacts, CopiesFrame DEF WorksSync, Requests, Queued
  <2>3. HubOK'
    BY <1>5 DEF WorksSync, HubOK, settingVars, secretVars
  <2>4. RestOK'
    BY <1>5, RestFrame DEF WorksSync
  <2>5. DeploymentOK' /\ FinalizersOK'
    BY <1>5, <2>2, DeploymentFrame DEF WorksSync
  <2> QED BY <2>1, <2>2, <2>3, <2>4, <2>5, PartsStep
<1> QED BY <1>1, <1>2, <1>3, <1>4, <1>5

-----------------------------------------------------------------------------
(* The importing controller.  A cached deployment with no finalizer but    *)
(* the import controller's has lost hive's on the API server too.          *)

LEMMA DeploymentStepFacts ==
    /\ DeploymentStep \in ImportSteps /\ SelfManagedStep \in ImportSteps
    /\ DeploymentStep = "finalizer" => cdCache.fins = {"import"}
    /\ SelfManagedStep # "finalizer"
BY DEF DeploymentStep, SelfManagedStep, ImportSteps

LEMMA ReconcileStep == ASSUME IInv, ImportReconcile PROVE IInv'
<1> USE TypeParts DEF IInv
<1> DEFINE s == IF by = "hive" THEN DeploymentStep ELSE SelfManagedStep
<1>1. s \in ImportSteps /\ (s = "finalizer" => cdCache.fins = {"import"})
  BY DeploymentStepFacts
<1>2. /\ queue' = queue \ {"import"} /\ step' = [step EXCEPT !["import"] = s]
      /\ UNCHANGED <<settingVars, clusterVars, deploymentVars, secretVars,
                     workVars, statusCopy, outcome, disturbances>>
  BY DEF ImportReconcile
<1> HIDE DEF s
<1>3. StepsOK' /\ step'["import"] = s
  <2>1. queue' \subseteq Requests
    BY <1>2 DEF StepsOK
  <2> QED BY <1>1, <1>2, <2>1, ImportGoes
<1>4. ClusterOK' /\ CacheOK' /\ HubOK'
  BY <1>2, ClusterFrame, HubFrame
<1>5. CopiesOK'
  <2>1. copy' \in {NoCopy, [cond |-> cache.cond, via |-> cache.via]}
    BY DEF ImportReconcile
  <2>2. copy' \in [cond: Conditions, via: BOOLEAN]
    BY <2>1, NothingType DEF ClusterOK, Cluster
  <2> QED BY <1>2, <2>2 DEF CopiesOK
<1>6. RestOK'
  <2>1. overlooked' \in BOOLEAN
    BY Zenon DEF ImportReconcile
  <2> QED BY <1>2, <2>1 DEF RestOK
<1>7. DeploymentOK' /\ FinalizersOK'
  BY <1>1, <1>2, <1>3 DEF DeploymentOK, FinalizersOK, deploymentVars
<1> QED BY <1>3, <1>4, <1>5, <1>6, <1>7, PartsStep

LEMMA FinalizerStep == ASSUME IInv, removeImportFinalizer PROVE IInv'
<1> USE TypeParts DEF IInv
<1>1. /\ copy' = NoCopy /\ End("import", ~cd.exists)
      /\ UNCHANGED <<settingVars, clusterVars, cdCache, secretVars, workVars,
                     statusCopy, outcome, overlooked, disturbances>>
  BY DEF removeImportFinalizer
<1>2. StepsOK' /\ step'["import"] \in {"idle", step["import"]}
  BY <1>1, EndFacts DEF Requests
<1>3. ClusterOK' /\ CacheOK' /\ HubOK' /\ RestOK'
  BY <1>1, ClusterFrame, HubFrame, RestFrame
<1>4. CopiesOK'
  BY <1>1, NothingType DEF CopiesOK
<1>5. DeploymentOK' /\ FinalizersOK'
  <2> DEFINE d == [cd EXCEPT !.fins = {}]
  <2>1. d \in Deployment /\ d.fins \subseteq cd.fins
    BY DEF DeploymentOK, Deployment
  <2>2. cd' = Settled(d) \/ cd' = cd
    BY DEF removeImportFinalizer
  <2> HIDE DEF d
  <2>3. CASE cd' = Settled(d)
    BY <1>1, <1>2, <2>1, <2>3, DeploymentWritten
  <2>4. CASE cd' = cd
    BY <1>1, <1>2, <2>4, DeploymentFrame DEF deploymentVars
  <2> QED BY <2>2, <2>3, <2>4
<1> QED BY <1>2, <1>3, <1>4, <1>5, PartsStep

LEMMA CreatedViaStep == ASSUME IInv, setCreatedViaAnnotation PROVE IInv'
<1> USE TypeParts DEF IInv
<1> DEFINE ends == autoSecretCache \/ step["import"] = "annotate"
           Proceed(c) ==
             /\ copy' = IF ends THEN NoCopy ELSE [copy EXCEPT !.cond = c]
             /\ Continue("import", IF ends THEN "idle" ELSE "import")
<1>1. /\ step["import"] \in {"annotate", "createdVia"}
      /\ overlooked' \in BOOLEAN
      /\ UNCHANGED <<settingVars, deploymentVars, secretVars, workVars, statusCopy,
                     outcome, disturbances>>
  BY Zenon DEF setCreatedViaAnnotation
<1>2. \/ \E c \in Conditions : Proceed(c)
      \/ copy' = NoCopy /\ End("import", TRUE)
  BY DEF setCreatedViaAnnotation, CopiesOK, ClusterOK, Cluster
<1>3. UNCHANGED clusterVars \/ Write([mc EXCEPT !.via = TRUE])
  BY Zenon DEF setCreatedViaAnnotation
<1>4. /\ StepsOK' /\ step'["import"] # "finalizer"
      /\ copy' \in [cond: Conditions, via: BOOLEAN]
  <2>1. ASSUME NEW c \in Conditions, Proceed(c)
        PROVE  /\ StepsOK' /\ step'["import"] # "finalizer"
               /\ copy' \in [cond: Conditions, via: BOOLEAN]
    <3>1. PICK s \in {"idle", "import"} :
            step' = [step EXCEPT !["import"] = s] /\ queue' = queue
      BY <2>1 DEF Continue
    <3>2. StepsOK' /\ step'["import"] # "finalizer"
      <4>1. s \in ImportSteps /\ queue' \subseteq Requests
        BY <3>1 DEF ImportSteps, StepsOK
      <4> QED BY <3>1, <4>1, ImportGoes
    <3>3. copy' \in {NoCopy, [copy EXCEPT !.cond = c]}
      BY <2>1
    <3>4. copy' \in [cond: Conditions, via: BOOLEAN]
      BY <3>3, NothingType DEF CopiesOK
    <3> QED BY <3>2, <3>4
  <2>2. CASE copy' = NoCopy /\ End("import", TRUE)
    BY <1>1, <2>2, EndFacts, NothingType DEF Requests
  <2> QED BY <1>2, <2>1, <2>2
<1>5. ClusterOK' /\ CacheOK'
  <2>1. [mc EXCEPT !.via = TRUE] \in Cluster
    BY DEF ClusterOK, Cluster
  <2> QED BY <1>3, <2>1, WriteFacts, ClusterFrame
<1>6. HubOK' /\ CopiesOK' /\ RestOK'
  BY <1>1, <1>4, HubFrame DEF CopiesOK, RestOK
<1>7. DeploymentOK' /\ FinalizersOK'
  BY <1>1, <1>4, DeploymentFrame
<1> QED BY <1>4, <1>5, <1>6, <1>7, PartsStep

LEMMA SecretUnreadStep == ASSUME IInv, HiveSecretUnread PROVE IInv'
<1> USE TypeParts DEF IInv
<1>1. /\ copy' = NoCopy /\ End("import", TRUE) /\ Disturb
      /\ UNCHANGED <<settingVars, clusterVars, deploymentVars, secretVars,
                     workVars, statusCopy, outcome, overlooked>>
  BY DEF HiveSecretUnread
<1>2. StepsOK' /\ step'["import"] \in {"idle", step["import"]}
  BY <1>1, EndFacts DEF Requests
<1>3. ClusterOK' /\ CacheOK' /\ HubOK' /\ RestOK'
  BY <1>1, ClusterFrame, HubFrame, RestFrame
<1>4. CopiesOK'
  BY <1>1, NothingType DEF CopiesOK
<1>5. DeploymentOK' /\ FinalizersOK'
  BY <1>1, <1>2, DeploymentFrame
<1> QED BY <1>2, <1>3, <1>4, <1>5, PartsStep

LEMMA ImportReturns == ASSUME IInv, Import PROVE IInv'
<1> USE TypeParts DEF IInv
<1>1. UNCHANGED <<settingVars, clusterVars, deploymentVars, secretVars, works,
                  worksCache, copy, statusCopy, overlooked>>
  BY Zenon DEF Import
<1>2. \E cond \in Conditions, modified, again \in BOOLEAN :
        Returns(cond, modified, again)
  <2>1. \/ Returns("importing", FALSE, TRUE)
        \/ Returns("importing", FALSE, FALSE)
        \/ Returns("applied", applied # importSecretCache, FALSE)
        \/ \E cond \in {"failed", "importing"} : Returns(cond, FALSE, TRUE)
    BY Zenon DEF Import
  <2>2. /\ {"importing", "applied", "failed"} \subseteq Conditions
        /\ (applied # importSecretCache) \in BOOLEAN
    BY DEF Conditions
  <2> QED BY <2>1, <2>2
<1>3. PICK cond \in Conditions, modified \in BOOLEAN, again \in BOOLEAN :
        Returns(cond, modified, again)
  BY <1>2
<1>4. StepsOK' /\ step'["import"] # "finalizer"
  <2>1. "condition" \in ImportSteps /\ queue' \subseteq Requests
    BY <1>3 DEF Returns, Continue, ImportSteps, StepsOK
  <2>2. step' = [step EXCEPT !["import"] = "condition"]
    BY <1>3 DEF Returns, Continue
  <2> QED BY <2>1, <2>2, ImportGoes
<1>5. CopiesOK'
  BY <1>1, <1>3 DEF Returns, CopiesOK
<1>6. HubOK'
  <2>1. applied' = applied \/ applied' = importSecretCache
    BY Zenon DEF Import
  <2> QED BY <1>1, <2>1 DEF HubOK, settingVars, secretVars
<1>7. RestOK'
  <2>1. UNCHANGED disturbances \/ Disturb
    BY Zenon DEF Import
  <2> QED BY <1>1, <2>1, RestFrame
<1>8. ClusterOK' /\ CacheOK'
  BY <1>1, ClusterFrame
<1>9. DeploymentOK' /\ FinalizersOK'
  BY <1>1, <1>4, DeploymentFrame
<1> QED BY <1>4, <1>5, <1>6, <1>7, <1>8, <1>9, PartsStep

LEMMA OutcomeStep == ASSUME IInv, UpdateOutcome PROVE IInv'
<1> USE TypeParts DEF IInv
<1>1. /\ outcome' = NoOutcome /\ copy' = NoCopy
      /\ UNCHANGED <<settingVars, deploymentVars, secretVars, workVars, statusCopy,
                     overlooked, disturbances>>
  BY Zenon DEF UpdateOutcome
<1>2. \/ UpdateImportCondition("import", outcome.cond, outcome.again)
      \/ UNCHANGED clusterVars /\ End("import", outcome.again)
  BY Zenon DEF UpdateOutcome
<1>3. /\ ClusterOK' /\ CacheOK' /\ StepsOK'
      /\ step'["import"] \in {"idle", step["import"]}
  <2>1. outcome.cond \in Conditions /\ "import" \in Requests
    BY DEF CopiesOK, Requests
  <2>2. CASE UpdateImportCondition("import", outcome.cond, outcome.again)
    BY <2>1, <2>2, ConditionFacts
  <2>3. CASE UNCHANGED clusterVars /\ End("import", outcome.again)
    BY <2>1, <2>3, ClusterFrame, EndFacts
  <2> QED BY <1>2, <2>2, <2>3
<1>4. HubOK' /\ RestOK'
  BY <1>1, HubFrame, RestFrame
<1>5. CopiesOK'
  BY <1>1, NothingType DEF CopiesOK
<1>6. DeploymentOK' /\ FinalizersOK'
  BY <1>1, <1>3, DeploymentFrame
<1> QED BY <1>3, <1>4, <1>5, <1>6, PartsStep

-----------------------------------------------------------------------------
(* The status controller leaves everything but the cluster, its own        *)
(* request and its copy alone.                                             *)

LEMMA StatusFrame ==
    ASSUME IInv, UNCHANGED otherVars, ClusterOK', CacheOK', StepsOK',
           step'["import"] \in {"idle", step["import"]},
           statusCopy' \in {"no", "requested", "completed"}
    PROVE  IInv'
<1> USE TypeParts DEF IInv
<1>1. UNCHANGED <<settingVars, deploymentVars, secretVars, workVars, copy, outcome,
                  overlooked, disturbances>>
  BY DEF otherVars
<1>2. HubOK' /\ RestOK' /\ CopiesOK'
  BY <1>1, HubFrame, RestFrame DEF CopiesOK
<1>3. DeploymentOK' /\ FinalizersOK'
  BY <1>1, DeploymentFrame
<1> QED BY <1>2, <1>3, PartsStep

LEMMA StatusKeeps == ASSUME IInv, StatusStep PROVE IInv'
<1> USE TypeParts DEF IInv
<1>1. CASE StatusReconcile
  <2> DEFINE s == IF ~cache.exists THEN "idle"
                  ELSE IF cache.cond = "none" THEN "wait" ELSE "check"
  <2>1. s \in StatusSteps /\ queue' \subseteq Requests
    BY <1>1 DEF StatusReconcile, StatusSteps, StepsOK
  <2>2. /\ step' = [step EXCEPT !["status"] = s] /\ statusCopy' = cache.immediate
        /\ UNCHANGED <<clusterVars, otherVars>>
    BY <1>1 DEF StatusReconcile
  <2> HIDE DEF s
  <2>3. StepsOK' /\ step'["import"] = step["import"]
    BY <2>1, <2>2, StatusGoes
  <2>4. cache.immediate \in {"no", "requested", "completed"}
    BY DEF ClusterOK, Cluster
  <2> QED BY <2>2, <2>3, <2>4, ClusterFrame, StatusFrame
<1>2. CASE AddCondition
  <2>1. UpdateImportCondition("status", "wait", TRUE) /\ UNCHANGED <<statusCopy, otherVars>>
    BY <1>2 DEF AddCondition
  <2>2. "status" \in Requests /\ "wait" \in Conditions
    BY DEF Requests, Conditions
  <2> QED BY <2>1, <2>2, ConditionFacts, StatusFrame DEF CopiesOK
<1>3. CASE IsManifestWorksAvailable
  <2>1. PICK s \in {"idle", "complete", "imported"} : Continue("status", s)
    BY <1>3 DEF IsManifestWorksAvailable
  <2>2. s \in StatusSteps /\ queue' \subseteq Requests
    BY <2>1 DEF Continue, StatusSteps, StepsOK
  <2>3. StepsOK' /\ step'["import"] = step["import"]
    BY <2>1, <2>2, StatusGoes DEF Continue
  <2>4. statusCopy' = "no" /\ UNCHANGED <<clusterVars, otherVars>>
    BY <1>3 DEF IsManifestWorksAvailable
  <2> QED BY <2>3, <2>4, ClusterFrame, StatusFrame
<1>4. CASE SetImmediateImportCompleted
  <2>1. UNCHANGED <<statusCopy, otherVars>>
    BY <1>4 DEF SetImmediateImportCompleted
  <2>2. StepsOK' /\ step'["import"] = step["import"]
    <3>1. CASE Continue("status", "imported")
      <4>1. "imported" \in StatusSteps /\ queue' \subseteq Requests
        BY <3>1 DEF Continue, StatusSteps, StepsOK
      <4> QED BY <3>1, <4>1, StatusGoes DEF Continue
    <3>2. CASE End("status", TRUE)
      BY <3>2, EndFacts DEF Requests, StepsOK
    <3> QED BY <1>4, <3>1, <3>2 DEF SetImmediateImportCompleted
  <2>3. ClusterOK' /\ CacheOK'
    <3>1. [mc EXCEPT !.immediate = "completed"] \in Cluster
      BY DEF ClusterOK, Cluster
    <3>2. UNCHANGED clusterVars \/ Write([mc EXCEPT !.immediate = "completed"])
      BY <1>4, Zenon DEF SetImmediateImportCompleted
    <3> QED BY <3>1, <3>2, WriteFacts, ClusterFrame
  <2> QED BY <2>1, <2>2, <2>3, StatusFrame DEF CopiesOK
<1>5. CASE ReportImported
  <2>1. UpdateImportCondition("status", "imported", FALSE) /\ UNCHANGED <<statusCopy, otherVars>>
    BY <1>5 DEF ReportImported
  <2>2. "status" \in Requests /\ "imported" \in Conditions
    BY DEF Requests, Conditions
  <2> QED BY <2>1, <2>2, ConditionFacts, StatusFrame DEF CopiesOK
<1> QED BY <1>1, <1>2, <1>3, <1>4, <1>5 DEF StatusStep

-----------------------------------------------------------------------------
LEMMA IInvStep == IInv /\ [Next]_vars => IInv'
<1> SUFFICES ASSUME IInv, [Next]_vars PROVE IInv'
  OBVIOUS
<1>1. CASE UNCHANGED vars
  <2>1. UNCHANGED <<clusterVars, otherVars, queue, step, statusCopy>>
    BY <1>1 DEF vars, requestVars, otherVars
  <2> QED
    BY <2>1, TypeParts, ClusterFrame, StepsFrame, StatusFrame DEF IInv, CopiesOK
<1>2. CASE Next
  BY <1>2, EnvironmentStep, SyncStep, ReconcileStep, FinalizerStep, CreatedViaStep,
     SecretUnreadStep, ImportReturns, OutcomeStep, StatusKeeps
  DEF Next, ImportStep
<1> QED BY <1>1, <1>2

LEMMA Invariant == Spec => []IInv
BY InitIInv, IInvStep, PTL DEF Spec

(***************************************************************************)
(* TypeOK: the deployment, the cluster and the two reconciliations stay    *)
(* within their types, for every kind of cluster and every bound.          *)
(***************************************************************************)
THEOREM TypeCorrect == Spec => []TypeOK
<1>1. IInv => TypeOK
  BY DEF IInv
<1> QED BY <1>1, Invariant, PTL

(***************************************************************************)
(* HiveFinalizerKept: the controller decides to empty the deployment's     *)
(* finalizers on a cached deployment, and sends the patch later and        *)
(* without a precondition; hive's finalizer was gone when it decided and   *)
(* does not come back.                                                     *)
(***************************************************************************)
THEOREM HiveFinishesFirst == Spec => HiveFinalizerKept
<1>1. ASSUME IInv, [Next]_vars
      PROVE  [step' # step /\ "hive" \in cd.fins => "hive" \in cd'.fins]_vars
  <2> SUFFICES ASSUME Next, step' # step, "hive" \in cd.fins
               PROVE  "hive" \in cd'.fins
    BY <1>1
  <2>1. ~removeImportFinalizer
    BY <1>1 DEF removeImportFinalizer, IInv, FinalizersOK
  <2>2. CASE ImportStep
    BY <2>1, <2>2 DEF ImportStep, ImportReconcile, setCreatedViaAnnotation,
                      HiveSecretUnread, Import, UpdateOutcome, deploymentVars
  <2>3. CASE StatusStep
    BY <2>3 DEF StatusStep, StatusReconcile, AddCondition, IsManifestWorksAvailable,
                SetImmediateImportCompleted, ReportImported, otherVars, deploymentVars
  <2>4. CASE ~ImportStep /\ ~StatusStep
    BY <2>4
    DEF Next, UserRequestsImmediateImport, UserTogglesAutoImport, UserDeletesCluster,
        UserEdits, UserTogglesAutoImportSecret, UserDeletesDeployment, HiveProvisions,
        HiveDeprovisions, ImportSecretRendered, WorksApplied, AgentReports,
        AgentRemoved, ClusterSync, DeploymentSync, AutoImportSecretSync,
        ImportSecretSync, WorksSync, Queued, requestVars
  <2> QED BY <2>2, <2>3, <2>4
<1> QED BY <1>1, Invariant, PTL DEF Spec, HiveFinalizerKept
=============================================================================
