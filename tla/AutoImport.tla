----------------------------- MODULE AutoImport -----------------------------
(***************************************************************************)
(* Importing clusters with auto-import secrets (default mode).             *)
(*                                                                         *)
(* autoimport-controller uses the credentials in a cluster's auto-import   *)
(* secret to apply the import secret's resources to the managed cluster;   *)
(* import-status-controller watches the klusterlet works.  Both write the  *)
(* ManagedClusterImportSucceeded condition, with the resourceVersion of    *)
(* the object the cache holds, and the reconciliations of all clusters     *)
(* share one import helper.                                                *)
(*                                                                         *)
(* A cluster has two requests at autoimport-controller, which two workers  *)
(* may serve at a time: events of the cluster are queued under <name>,     *)
(* those of secrets and works under <namespace>/<name>.  The two of        *)
(* import-status-controller are one request here.                          *)
(*                                                                         *)
(* The clusters exist throughout and are not being deleted.                *)
(***************************************************************************)
EXTENDS RosaGetter, FiniteSets

CONSTANTS
    Clusters,
    Secrets,                    \* the auto-import secrets users provide
    Strategy,                   \* autoImportStrategy
    MaxConcurrentReconciles,    \* workers of each controller
    MaxDisturbances             \* bound: user edits, failed calls, restarts, and
                                \* import secrets that are lost

(* creds: no client can be made of malformed credentials, the managed      *)
(* cluster refuses others; keep: an annotation asks to keep the secret.    *)
Kinds == {"kubeconfig", "token", "rosa", "unsupported"}
Secret == [kind: Kinds, creds: {"valid", "refused", "malformed"}, keep: BOOLEAN]
NoSecret == [kind |-> "none", creds |-> "none", keep |-> FALSE]

ASSUME AutoImportAssumption ==
    /\ Secrets \subseteq Secret
    /\ Strategy \in {"ImportOnly", "ImportAndSync"}
    /\ MaxConcurrentReconciles \in Nat \ {0}
    /\ MaxDisturbances \in Nat

VARIABLES
    mc, cache,              \* the ManagedClusters: API server, cache
    undelivered,            \* requests the cluster events in transit will queue
    overtaken,              \* requests of autoimport whose cluster has been
                            \* written since they read it
    secret, secretCache,    \* the auto-import secrets: API server, lister
    works, worksCache,      \* the klusterlet works: API server, lister
    importSecret,           \* the clusters that have an import secret
    applied,                \* the managed clusters that have its resources
    generator,              \* importHelper.generateClientHolderFunc
    getters, accounts,      \* rosaKubeConfigGetters, the import users in OCM
    queue, step,            \* the reconcile requests, and where each one is
    copy, secretCopy,       \* what a reconciliation read
    outcome,                \* what Import returned to a reconciliation
    disturbances

clusterVars == <<mc, cache, undelivered, overtaken>>
hubVars == <<secret, works, importSecret, applied>>
listerVars == <<secretCache, worksCache>>
rosaVars == <<getters, accounts>>
memoryVars == <<generator, rosaVars>>
requestVars == <<queue, step, copy, secretCopy, outcome>>
vars == <<clusterVars, hubVars, listerVars, memoryVars, requestVars,
          disturbances>>

(* The condition's reasons; Importing with its final message is "applied", *)
(* ImportFailed because of the auto-import secret is "invalid".            *)
Conditions == {"none", "wait", "importing", "applied", "failed", "invalid",
               "imported"}
Cluster == [cond: Conditions, immediate: {"no", "requested", "completed"},
            disabled: BOOLEAN, url: BOOLEAN]
NewCluster == [cond |-> "none", immediate |-> "no", disabled |-> FALSE,
               url |-> FALSE]

(* What a reconciliation uses of the cluster it read, later on.            *)
Copy == [started: BOOLEAN, url: BOOLEAN, immediate: BOOLEAN]
NoCopy == [started |-> FALSE, url |-> FALSE, immediate |-> FALSE]

WorkStates == {"none", "created", "available"}

Keys == {"cluster", "namespace"}
AutoRequest(k, c) == <<"auto", k, c>>
StatusRequest(c) == <<"status", "cluster", c>>
AutoRequests == {"auto"} \X Keys \X Clusters
StatusRequests == {StatusRequest(c) : c \in Clusters}
Requests == AutoRequests \cup StatusRequests
Steps == {"idle", "import", "apply", "condition", "cleanup", "url", "delete",
          "wait", "check", "complete", "imported"}
NoOutcome == [cond |-> "none", modified |-> FALSE, again |-> FALSE]

-----------------------------------------------------------------------------
(* The watch predicates. *)

AutoWatches(old, new) ==
    new.immediate = "requested" \/ (old.disabled /\ ~new.disabled)

Watched(c, old, new) ==
    {StatusRequest(c)}
      \cup (IF AutoWatches(old, new) THEN {AutoRequest("cluster", c)} ELSE {})

(* A write of cluster c that the API server accepted.  Every write has an  *)
(* event, so the cache has the resourceVersion of the API server when      *)
(* nothing is in transit.                                                  *)
Write(c, new) ==
    /\ mc' = [mc EXCEPT ![c] = new]
    /\ overtaken' = overtaken \cup
                      {r \in AutoRequests : r[3] = c /\ step[r] # "idle"}
    /\ undelivered' = [undelivered EXCEPT ![c] = @ \cup Watched(c, mc[c], new)]
    /\ UNCHANGED cache

CacheCurrent(c) == undelivered[c] = {}

(* The process starts: what exists is delivered as created, and            *)
(* autoimport-controller ignores the creation of clusters.                 *)
Created(secrets, imported, working) ==
    LET provided == {c \in Clusters : secrets[c] # NoSecret}
        atWork == {c \in Clusters : working[c] # "none"}
    IN StatusRequests \cup
         {AutoRequest("namespace", c) : c \in provided \cup imported \cup atWork}

Init ==
    /\ mc = [c \in Clusters |-> NewCluster]
    /\ cache = mc
    /\ undelivered = [c \in Clusters |-> {}]
    /\ overtaken = {}
    /\ secret \in [Clusters -> Secrets \cup {NoSecret}]
    /\ secretCache = secret
    /\ works = [c \in Clusters |-> "none"]
    /\ worksCache = works
    /\ importSecret = {}
    /\ applied = {}
    /\ generator = "none"
    /\ getters = [c \in Clusters |-> NoGetter]
    /\ accounts = [c \in Clusters |-> NoAccount]
    /\ queue = Created(secret, importSecret, works)
    /\ step = [r \in Requests |-> "idle"]
    /\ copy = [r \in Requests |-> NoCopy]
    /\ secretCopy = [r \in AutoRequests |-> NoSecret]
    /\ outcome = [r \in AutoRequests |-> NoOutcome]
    /\ disturbances = 0

-----------------------------------------------------------------------------
(* Users, the other controllers, the agents. *)

UserProvidesSecret(c, s) ==
    /\ disturbances < MaxDisturbances /\ secret[c] # s
    /\ disturbances' = disturbances + 1
    /\ secret' = [secret EXCEPT ![c] = s]
    /\ UNCHANGED <<clusterVars, works, importSecret, applied, listerVars,
                   memoryVars, requestVars>>

UserRequestsImmediateImport(c) ==
    /\ disturbances < MaxDisturbances /\ mc[c].immediate # "requested"
    /\ disturbances' = disturbances + 1
    /\ Write(c, [mc[c] EXCEPT !.immediate = "requested"])
    /\ UNCHANGED <<hubVars, listerVars, memoryVars, requestVars>>

UserDisablesAutoImport(c, disabled) ==
    /\ disturbances < MaxDisturbances /\ mc[c].disabled # disabled
    /\ disturbances' = disturbances + 1
    /\ Write(c, [mc[c] EXCEPT !.disabled = disabled])
    /\ UNCHANGED <<hubVars, listerVars, memoryVars, requestVars>>

(* Mutant: the creation of the import secret is not watched. *)
ImportSecretCreatedUnwatched(c) ==
    /\ c \notin importSecret
    /\ importSecret' = importSecret \cup {c}
    /\ UNCHANGED <<clusterVars, secret, works, applied, listerVars, memoryVars,
                   requestVars, disturbances>>

(* importconfig-controller creates the import secret, and again if it is   *)
(* deleted.                                                                *)
ImportSecretCreated(c) ==
    /\ c \notin importSecret
    /\ importSecret' = importSecret \cup {c}
    /\ queue' = queue \cup {AutoRequest("namespace", c)}
    /\ UNCHANGED <<clusterVars, secret, works, applied, listerVars, memoryVars,
                   step, copy, secretCopy, outcome, disturbances>>

ImportSecretLost(c) ==
    /\ c \in importSecret /\ disturbances < MaxDisturbances
    /\ disturbances' = disturbances + 1
    /\ importSecret' = importSecret \ {c}
    /\ UNCHANGED <<clusterVars, secret, works, applied, listerVars, memoryVars,
                   requestVars>>

(* manifestwork-controller *)
WorksCreated(c) ==
    /\ c \in importSecret /\ works[c] = "none"
    /\ works' = [works EXCEPT ![c] = "created"]
    /\ UNCHANGED <<clusterVars, secret, importSecret, applied, listerVars,
                   memoryVars, requestVars, disturbances>>

(* The agent on a managed cluster that has the resources reports. *)
AgentReports(c) ==
    /\ c \in applied /\ works[c] = "created"
    /\ works' = [works EXCEPT ![c] = "available"]
    /\ UNCHANGED <<clusterVars, secret, importSecret, applied, listerVars,
                   memoryVars, requestVars, disturbances>>

(* The process ends at any step, for instance because two workers write    *)
(* rosaKubeConfigGetters at the same time, and another one starts.         *)
Restart ==
    /\ disturbances < MaxDisturbances
    /\ disturbances' = disturbances + 1
    /\ cache' = mc /\ undelivered' = [c \in Clusters |-> {}] /\ overtaken' = {}
    /\ secretCache' = secret /\ worksCache' = works
    /\ generator' = "none"
    /\ getters' = [c \in Clusters |-> NoGetter]
    /\ accounts' = [c \in Clusters |-> Forget(accounts[c])]
    /\ queue' = Created(secret, importSecret, works)
    /\ step' = [r \in Requests |-> "idle"]
    /\ copy' = [r \in Requests |-> NoCopy]
    /\ secretCopy' = [r \in AutoRequests |-> NoSecret]
    /\ outcome' = [r \in AutoRequests |-> NoOutcome]
    /\ UNCHANGED <<mc, hubVars>>

(* The informers, with the predicates of the two controllers. *)
ClusterSync(c) ==
    /\ ~CacheCurrent(c)
    /\ cache' = [cache EXCEPT ![c] = mc[c]]
    /\ queue' = queue \cup undelivered[c]
    /\ undelivered' = [undelivered EXCEPT ![c] = {}]
    /\ UNCHANGED <<mc, overtaken, hubVars, listerVars, memoryVars, step, copy,
                   secretCopy, outcome, disturbances>>

SecretSync(c) ==
    /\ secretCache[c] # secret[c]
    /\ secretCache' = [secretCache EXCEPT ![c] = secret[c]]
    /\ queue' = IF secret[c] = NoSecret THEN queue
                ELSE queue \cup {AutoRequest("namespace", c)}
    /\ UNCHANGED <<clusterVars, hubVars, worksCache, memoryVars, step, copy,
                   secretCopy, outcome, disturbances>>

(* Mutant: import-status-controller watches the creation of works only. *)
WorksSyncCreationsOnly(c) ==
    /\ worksCache[c] # works[c]
    /\ worksCache' = [worksCache EXCEPT ![c] = works[c]]
    /\ queue' = IF worksCache[c] # "none" THEN queue
                ELSE queue \cup {AutoRequest("namespace", c), StatusRequest(c)}
    /\ UNCHANGED <<clusterVars, hubVars, secretCache, memoryVars, step, copy,
                   secretCopy, outcome, disturbances>>

WorksSync(c) ==
    /\ worksCache[c] # works[c]
    /\ worksCache' = [worksCache EXCEPT ![c] = works[c]]
    /\ queue' = queue \cup {StatusRequest(c)}
                  \cup (IF worksCache[c] = "none" THEN {AutoRequest("namespace", c)}
                                                 ELSE {})
    /\ UNCHANGED <<clusterVars, hubVars, secretCache, memoryVars, step, copy,
                   secretCopy, outcome, disturbances>>

-----------------------------------------------------------------------------
(* Helpers of the reconcilers. *)

WorkersFree(controller) ==
    Cardinality({r \in Requests : r[1] = controller /\ step[r] # "idle"})
        < MaxConcurrentReconciles

(* Go on at step s; a reconciliation that ends forgets what it read. *)
Goto(r, s) ==
    /\ step' = [step EXCEPT ![r] = s]
    /\ IF s # "idle" THEN UNCHANGED <<copy, secretCopy, outcome>>
       ELSE /\ copy' = [copy EXCEPT ![r] = NoCopy]
            /\ IF r[1] = "status" THEN UNCHANGED <<secretCopy, outcome>>
               ELSE /\ secretCopy' = [secretCopy EXCEPT ![r] = NoSecret]
                    /\ outcome' = [outcome EXCEPT ![r] = NoOutcome]
Continue(r, s) == Goto(r, s) /\ UNCHANGED queue
Requeue(r) == Goto(r, "idle") /\ queue' = queue \cup {r}
End(r, again) == IF again THEN Requeue(r) ELSE Continue(r, "idle")

(***************************************************************************)
(* UpdateManagedClusterImportCondition: gets the cluster from the cache,   *)
(* does nothing when it has the condition, and fails when the cache is     *)
(* not up to date.                                                         *)
(***************************************************************************)
UpdateImportCondition(c, cond, ok, failed) ==
    \/ /\ cache[c].cond = cond
       /\ UNCHANGED clusterVars
       /\ ok
    \/ /\ cache[c].cond # cond /\ CacheCurrent(c)
       /\ Write(c, [mc[c] EXCEPT !.cond = cond])
       /\ ok
    \/ /\ cache[c].cond # cond /\ ~CacheCurrent(c)
       /\ UNCHANGED clusterVars
       /\ failed

-----------------------------------------------------------------------------
(* autoimport-controller *)

Skipped(c) ==
    \/ cache[c].disabled
    \/ /\ cache[c].immediate # "requested"
       /\ Strategy = "ImportOnly" /\ cache[c].cond = "imported"
    \/ secretCache[c] = NoSecret

(* Mutant: the helper keeps the first generator it was given. *)
GeneratorKept(c) ==
    IF generator = "none" THEN secretCache[c].kind ELSE generator

GeneratorOf(c) == secretCache[c].kind

(* A worker takes the request.  An unsupported secret is reported at once; *)
(* otherwise its generator is put into the import helper, which is one     *)
(* for all workers.                                                        *)
AutoReconcile(r) ==
    LET c == r[3]
    IN /\ r \in queue /\ step[r] = "idle" /\ WorkersFree("auto")
       /\ queue' = queue \ {r}
       /\ \/ /\ Skipped(c)
             /\ UNCHANGED <<overtaken, step, copy, secretCopy, outcome, memoryVars>>
          \/ /\ ~Skipped(c)
             /\ copy' = [copy EXCEPT ![r] =
                  [NoCopy EXCEPT !.started = cache[c].cond \notin {"none", "wait"},
                                 !.url = cache[c].url]]
             /\ overtaken' = IF CacheCurrent(c) THEN overtaken \ {r}
                                               ELSE overtaken \cup {r}
             /\ secretCopy' = [secretCopy EXCEPT ![r] = secretCache[c]]
             /\ IF secretCache[c].kind = "unsupported"
                  THEN /\ step' = [step EXCEPT ![r] = "condition"]
                       /\ outcome' = [outcome EXCEPT ![r] =
                            [cond |-> "invalid", modified |-> FALSE, again |-> TRUE]]
                       /\ UNCHANGED memoryVars
                  ELSE /\ step' = [step EXCEPT ![r] = "import"]
                       /\ generator' = GeneratorOf(c)
                       /\ getters' = IF secretCache[c].kind = "rosa" /\ ~getters[c].exists
                                       THEN [getters EXCEPT ![c] = NewRosaKubeConfigGetter]
                                       ELSE getters
                       /\ UNCHANGED <<accounts, outcome>>
       /\ UNCHANGED <<mc, cache, undelivered, hubVars, listerVars, disturbances>>

(***************************************************************************)
(* Import, in the order of its checks, in two steps: up to the client, and *)
(* what is done with it.  again: the result or the error makes the request *)
(* come back.  Calls to OCM and to the managed cluster may fail.           *)
(***************************************************************************)
Returns(r, cond, modified, again) ==
    /\ outcome' = [outcome EXCEPT ![r] = [cond |-> cond, modified |-> modified,
                                          again |-> again]]
    /\ step' = [step EXCEPT ![r] = "condition"]

(* The generator in the helper finds what it needs in secret s.  (That of  *)
(* a ROSA secret is taken to hold the getter of the cluster itself.)       *)
Understands(s) == generator = s.kind /\ s.creds # "malformed"

(* What calling OCM does to getter and import user; "valid" credentials    *)
(* are those OCM accepts.                                                  *)
Rosa(c, results) ==
    \E r \in results :
        /\ disturbances' = disturbances + r.failures
        /\ disturbances' <= MaxDisturbances
        /\ getters' = [getters EXCEPT ![c] = r.getter]
        /\ accounts' = [accounts EXCEPT ![c] = r.account]

GenerateClient(r) ==
    LET c == r[3]
        s == secretCopy[r]
        client == step' = [step EXCEPT ![r] = "apply"]
                    /\ UNCHANGED outcome
        invalid == Returns(r, "invalid", FALSE, TRUE)
    IN \/ /\ ~Understands(s) \/ (s.kind = "rosa" /\ s.creds = "refused")
          /\ invalid
          /\ UNCHANGED <<rosaVars, disturbances>>
       \/ /\ Understands(s) /\ s.kind # "rosa"
          /\ client
          /\ UNCHANGED <<rosaVars, disturbances>>
       \/ /\ Understands(s) /\ s.kind = "rosa" /\ s.creds = "valid"
          /\ \E ok \in BOOLEAN :
                /\ Rosa(c, {k \in KubeConfig(getters[c], accounts[c]) : k.ok = ok})
                /\ IF ok THEN client ELSE invalid

Import(r) ==
    LET started == copy[r].started
        hasWorks == worksCache[r[3]] # "none"
    IN /\ step[r] = "import"
       /\ \/ /\ ~started \/ ~hasWorks
             /\ Returns(r, "importing", FALSE, TRUE)
             /\ UNCHANGED <<rosaVars, disturbances>>
          \/ started /\ hasWorks /\ GenerateClient(r)
       /\ UNCHANGED <<clusterVars, hubVars, listerVars, generator, queue, copy,
                      secretCopy>>

(* The managed cluster refuses a ROSA import user without its group. *)
Refused(r) ==
    \/ secretCopy[r].creds = "refused"
    \/ secretCopy[r].kind = "rosa" /\ ~accounts[r[3]].admin

applyResources(r) ==
    LET c == r[3]
    IN /\ step[r] = "apply"
       /\ \/ /\ c \notin importSecret
             /\ Returns(r, "importing", FALSE, FALSE)
             /\ UNCHANGED <<applied, disturbances>>
          \/ /\ c \in importSecret /\ Refused(r)
             /\ Returns(r, "invalid", FALSE, TRUE)
             /\ UNCHANGED <<applied, disturbances>>
          \/ /\ c \in importSecret /\ ~Refused(r)
             /\ Returns(r, "applied", c \notin applied, FALSE)
             /\ applied' = applied \cup {c}
             /\ UNCHANGED disturbances
          \/ /\ c \in importSecret /\ disturbances < MaxDisturbances
             /\ disturbances' = disturbances + 1
             /\ \E cond \in {"failed", "importing"} : Returns(r, cond, FALSE, TRUE)
             /\ UNCHANGED applied
       /\ UNCHANGED <<clusterVars, secret, works, importSecret, listerVars,
                      memoryVars, queue, copy, secretCopy>>

(* An import that changed nothing leaves the condition alone. *)
UpdateOutcome(r) ==
    LET c == r[3]
        cond == outcome[r].cond
        next == IF cond # "applied" THEN End(r, outcome[r].again)
                ELSE Continue(r, IF getters[c].exists THEN "cleanup" ELSE "url")
    IN /\ step[r] = "condition"
       /\ \/ /\ cond = "applied" /\ ~outcome[r].modified
             /\ UNCHANGED clusterVars
             /\ next
          \/ /\ cond # "applied" \/ outcome[r].modified
             /\ UpdateImportCondition(c, cond, next, Requeue(r))
       /\ UNCHANGED <<hubVars, listerVars, memoryVars, disturbances>>

(* Mutant: a failed removal is only logged. *)
CleanupRosaBestEffort(r) ==
    LET c == r[3]
    IN /\ step[r] = "cleanup"
       /\ Rosa(c, Cleanup(getters[c], accounts[c]))
       /\ Continue(r, "url")
       /\ UNCHANGED <<clusterVars, hubVars, listerVars, generator>>

(* The import user of a ROSA cluster is removed. *)
CleanupRosa(r) ==
    LET c == r[3]
    IN /\ step[r] = "cleanup"
       /\ \E ok \in BOOLEAN :
             /\ Rosa(c, {k \in Cleanup(getters[c], accounts[c]) : k.ok = ok})
             /\ IF ok THEN Continue(r, "url") ELSE Requeue(r)
       /\ UNCHANGED <<clusterVars, hubVars, listerVars, generator>>

(* Mutant: the update that fails is only logged. *)
updateClusterURLBestEffort(r) ==
    LET c == r[3]
    IN /\ step[r] = "url"
       /\ IF secretCopy[r].kind # "rosa" /\ ~copy[r].url /\ r \notin overtaken
            THEN Write(c, [mc[c] EXCEPT !.url = TRUE])
            ELSE UNCHANGED clusterVars
       /\ Continue(r, "delete")
       /\ UNCHANGED <<hubVars, listerVars, memoryVars, disturbances>>

(* The update carries the resourceVersion of the cluster that was read     *)
(* first: after a condition update of this reconciliation it fails.        *)
updateClusterURL(r) ==
    LET c == r[3]
    IN /\ step[r] = "url"
       /\ \/ /\ secretCopy[r].kind = "rosa" \/ copy[r].url
             /\ UNCHANGED clusterVars
             /\ Continue(r, "delete")
          \/ /\ secretCopy[r].kind # "rosa" /\ ~copy[r].url
             /\ IF r \notin overtaken
                  THEN /\ Write(c, [mc[c] EXCEPT !.url = TRUE])
                       /\ Continue(r, "delete")
                  ELSE UNCHANGED clusterVars /\ Requeue(r)
       /\ UNCHANGED <<hubVars, listerVars, memoryVars, disturbances>>

(* The secret is deleted by its name, unless the one that was read is to   *)
(* be kept; it is an error if there is none.                               *)
DeleteAutoImportSecret(r) ==
    LET c == r[3]
    IN /\ step[r] = "delete"
       /\ secret' = IF secretCopy[r].keep THEN secret
                                          ELSE [secret EXCEPT ![c] = NoSecret]
       /\ End(r, ~secretCopy[r].keep /\ secret[c] = NoSecret)
       /\ UNCHANGED <<clusterVars, works, importSecret, applied, listerVars,
                      memoryVars, disturbances>>

-----------------------------------------------------------------------------
(* import-status-controller *)

StatusReconcile(r) ==
    LET c == r[3]
    IN /\ r \in queue /\ step[r] = "idle" /\ WorkersFree("status")
       /\ queue' = queue \ {r}
       /\ copy' = [copy EXCEPT ![r] =
            [NoCopy EXCEPT !.immediate = cache[c].immediate = "requested"]]
       /\ step' = [step EXCEPT ![r] = IF cache[c].cond = "none" THEN "wait"
                                                               ELSE "check"]
       /\ UNCHANGED <<clusterVars, hubVars, listerVars, memoryVars, secretCopy,
                      outcome, disturbances>>

(* Mutant: a reason that nobody knows. *)
AddConditionMisspelled(r) ==
    LET c == r[3]
    IN /\ step[r] = "wait"
       /\ UpdateImportCondition(c, "waiting", Requeue(r), Requeue(r))
       /\ UNCHANGED <<hubVars, listerVars, memoryVars, disturbances>>

AddCondition(r) ==
    LET c == r[3]
    IN /\ step[r] = "wait"
       /\ UpdateImportCondition(c, "wait", Requeue(r), Requeue(r))
       /\ UNCHANGED <<hubVars, listerVars, memoryVars, disturbances>>

IsManifestWorksAvailable(r) ==
    /\ step[r] = "check"
    /\ Continue(r, IF works[r[3]] # "available" THEN "idle"
                   ELSE IF copy[r].immediate THEN "complete"
                   ELSE "imported")
    /\ UNCHANGED <<clusterVars, hubVars, listerVars, memoryVars, disturbances>>

SetImmediateImportCompleted(r) ==
    LET c == r[3]
    IN /\ step[r] = "complete"
       /\ \/ /\ cache[c].immediate # "requested"
             /\ UNCHANGED clusterVars
             /\ Continue(r, "imported")
          \/ /\ cache[c].immediate = "requested" /\ CacheCurrent(c)
             /\ Write(c, [mc[c] EXCEPT !.immediate = "completed"])
             /\ Continue(r, "imported")
          \/ /\ cache[c].immediate = "requested" /\ ~CacheCurrent(c)
             /\ UNCHANGED clusterVars
             /\ Requeue(r)
       /\ UNCHANGED <<hubVars, listerVars, memoryVars, disturbances>>

ReportImported(r) ==
    LET c == r[3]
    IN /\ step[r] = "imported"
       /\ UpdateImportCondition(c, "imported", Continue(r, "idle"), Requeue(r))
       /\ UNCHANGED <<hubVars, listerVars, memoryVars, disturbances>>

-----------------------------------------------------------------------------
UserStep(c) ==
    \/ \E s \in Secrets : UserProvidesSecret(c, s)
    \/ UserRequestsImmediateImport(c)
    \/ \E disabled \in BOOLEAN : UserDisablesAutoImport(c, disabled)

HubStep(c) ==
    \/ ImportSecretCreated(c) \/ ImportSecretLost(c)
    \/ WorksCreated(c) \/ AgentReports(c)

AutoStep(r) ==
    \/ AutoReconcile(r)
    \/ Import(r)
    \/ applyResources(r)
    \/ UpdateOutcome(r)
    \/ CleanupRosa(r)
    \/ updateClusterURL(r)
    \/ DeleteAutoImportSecret(r)

StatusStep(r) ==
    \/ StatusReconcile(r)
    \/ AddCondition(r)
    \/ IsManifestWorksAvailable(r)
    \/ SetImmediateImportCompleted(r)
    \/ ReportImported(r)

Next ==
    \/ Restart
    \/ \E c \in Clusters :
        \/ UserStep(c)
        \/ HubStep(c)
        \/ ClusterSync(c) \/ SecretSync(c) \/ WorksSync(c)
    \/ \E r \in AutoRequests : AutoStep(r)
    \/ \E r \in StatusRequests : StatusStep(r)

Spec == Init /\ [][Next]_vars

(***************************************************************************)
(* Fairness.  Requests are served, informers catch up, the other           *)
(* controllers and the agents go on as long as there is something to do    *)
(* for them (one assumption for all that is around a cluster: each of      *)
(* these steps stays possible until it is taken, and there are finitely    *)
(* many between two steps of the controllers).  Nothing makes a user act.  *)
(* A request in the queue is not overtaken for ever by the requests of     *)
(* other clusters, nor by the other one of its own for both of them: the   *)
(* workqueue is first in, first out.                                       *)
(***************************************************************************)
Fairness ==
    \A c \in Clusters :
        /\ WF_vars(ImportSecretCreated(c) \/ WorksCreated(c) \/ AgentReports(c)
                     \/ ClusterSync(c) \/ SecretSync(c) \/ WorksSync(c))
        /\ SF_vars(\E k \in Keys : AutoStep(AutoRequest(k, c)))
        /\ SF_vars(StatusStep(StatusRequest(c)))

FairSpec == Spec /\ Fairness

-----------------------------------------------------------------------------
ClustersOK ==
    /\ mc \in [Clusters -> Cluster] /\ cache \in [Clusters -> Cluster]
    /\ undelivered \in [Clusters -> SUBSET Requests]
    /\ overtaken \subseteq AutoRequests

SecretsOK ==
    /\ secret \in [Clusters -> Secret \cup {NoSecret}]
    /\ secretCache \in [Clusters -> Secret \cup {NoSecret}]
    /\ works \in [Clusters -> WorkStates] /\ worksCache \in [Clusters -> WorkStates]
    /\ importSecret \subseteq Clusters /\ applied \subseteq Clusters
    /\ generator \in Kinds \cup {"none"}
    /\ getters \in [Clusters -> Getter] /\ accounts \in [Clusters -> Account]
    /\ disturbances \in 0 .. MaxDisturbances

RequestsOK ==
    /\ queue \subseteq Requests
    /\ step \in [Requests -> Steps]
    /\ copy \in [Requests -> Copy]
    /\ secretCopy \in [AutoRequests -> Secret \cup {NoSecret}]
    /\ outcome \in [AutoRequests -> [cond: Conditions, modified: BOOLEAN,
                                     again: BOOLEAN]]

(* The clusters, the secrets and the reconciliations stay within types. *)
TypeOK == ClustersOK /\ SecretsOK /\ RequestsOK

Usable(s) == s.creds = "valid" /\ s.kind \in {"kubeconfig", "token"}

(***************************************************************************)
(* Import "uses the managedClusterKubeClientSecret to generate a managed   *)
(* cluster client": a user is never told that a secret is invalid that     *)
(* the controller was given for this cluster and that works.               *)
(***************************************************************************)
NeverFalselyInvalid ==
    \A r \in AutoRequests : outcome[r].cond = "invalid" => ~Usable(secretCopy[r])

(***************************************************************************)
(* A reconciliation gets to the deletion of the auto-import secret only    *)
(* when the secret has served its purpose, through conflicts, failed calls *)
(* and restarts, and whatever became of the objects since they were read:  *)
(* the resources are applied and the URL is in the cluster ("once the      *)
(* managed cluster is imported, the auto import secret will be deleted",   *)
(* "update the cluster URL before the auto secret is deleted").            *)
(* docs/managedcluster_auto_import.md has the secret deleted "whether it   *)
(* succeeds or fails": Reconcile does not do that.                         *)
(***************************************************************************)
SecretIsUsedUp ==
    \A r \in AutoRequests :
        step[r] = "delete" =>
            r[3] \in applied /\ (secretCopy[r].kind # "rosa" => mc[r[3]].url)

(***************************************************************************)
(* With one worker ("clean up the import user when current cluster is      *)
(* rosa"): the temporary administrator made with a ROSA secret, that       *)
(* nobody could remove without it, is gone before the secret is deleted.   *)
(* With several workers the second request of the cluster may make the     *)
(* administrator anew after the first one has removed it.                  *)
(***************************************************************************)
AdministratorIsRemoved ==
    \A r \in AutoRequests :
        step[r] = "delete" /\ secretCopy[r].kind = "rosa" =>
            accounts[r[3]] = NoAccount

(***************************************************************************)
(* Credentials that work lead to an imported cluster, whatever was tried   *)
(* before with other secrets and however the events about the cluster, the *)
(* works and the secrets are ordered, and it is reported imported again    *)
(* and again - unless the user replaces the secret or disables the import, *)
(* or a ROSA cluster does not know the import user before the retries are  *)
(* used up: then, through failing calls and restarts, the temporary        *)
(* administrator is removed (shouldRetry: "request the cluster token       *)
(* timeout, delete its id provider and remove the import user from cluster *)
(* admin group").  Nothing is asked before there is a secret; one that was *)
(* deleted has been applied (SecretIsUsedUp), so it stays obliging.        *)
(***************************************************************************)
Promising(s) == Usable(s) \/ (s.creds = "valid" /\ s.kind = "rosa")
ImportCompletes ==
    \A c \in Clusters :
        []<>(\/ mc[c].cond = "imported"
             \/ mc[c].disabled
             \/ secret[c] # NoSecret /\ ~Promising(secret[c])
             \/ getters[c].retries = TotalRetryTimes /\ ~accounts[c].admin
             \/ secret[c] = NoSecret /\ c \notin applied)

(***************************************************************************)
(* As long as the klusterlet works are available, no import attempt keeps  *)
(* the cluster from being reported imported again and again: what          *)
(* autoimport-controller reports is overwritten, conflicts are retried.    *)
(***************************************************************************)
AvailableIsReported ==
    \A c \in Clusters :
        []<>(works[c] = "available" => mc[c].cond = "imported")
=============================================================================
