-------------------------- MODULE AutoImportProofs --------------------------
(***************************************************************************)
(* With one worker no usable secret is reported invalid and no temporary   *)
(* administrator outlives its secret; with any number no secret is deleted *)
(* before it has served its purpose.                                       *)
(*                                                                         *)
(* The generator in the import helper belongs to no cluster.  The          *)
(* invariant says that it is the one of the only reconciliation under way, *)
(* which is why one worker is needed.                                      *)
(*                                                                         *)
(* The second invariant is about what one import leaves behind before it   *)
(* deletes its secret: the resources applied, the URL in the cluster.      *)
(* Neither is taken back, so any number of workers will do.                *)
(*                                                                         *)
(* The third is about the temporary administrator of a ROSA cluster.  It   *)
(* needs one worker because a cluster has two requests: with two workers   *)
(* one reconciliation could make the administrator anew that the other one *)
(* has removed.                                                            *)
(***************************************************************************)
EXTENDS AutoImport, FiniteSetTheorems, TLAPS

-----------------------------------------------------------------------------
(* Types of the parts. *)

LEMMA RequestsOfACluster ==
    ASSUME NEW c \in Clusters
    PROVE  /\ \A k \in Keys : AutoRequest(k, c) \in AutoRequests
           /\ StatusRequest(c) \in StatusRequests
BY DEF AutoRequest, StatusRequest, AutoRequests, StatusRequests

LEMMA RequestFacts ==
    /\ AutoRequests \subseteq Requests /\ StatusRequests \subseteq Requests
    /\ \A r \in AutoRequests : r[1] = "auto" /\ r[3] \in Clusters
    /\ \A r \in StatusRequests : r[1] = "status" /\ r[3] \in Clusters
    /\ \A q \in AutoRequests, r \in StatusRequests : q # r
    /\ "cluster" \in Keys /\ "namespace" \in Keys
BY DEF AutoRequests, StatusRequests, StatusRequest, Requests, Keys

(* A write of a cluster leaves clusters. *)
LEMMA WriteOK ==
    ASSUME ClustersOK, NEW c \in Clusters, NEW new \in Cluster, Write(c, new)
    PROVE  ClustersOK'
<1>1. Watched(c, mc[c], new) \subseteq Requests
  BY RequestsOfACluster, RequestFacts DEF Watched
<1>2. undelivered' \in [Clusters -> SUBSET Requests]
  BY <1>1 DEF Write, ClustersOK
<1>3. overtaken' \subseteq AutoRequests
  BY DEF Write, ClustersOK
<1> QED
  BY <1>2, <1>3 DEF Write, ClustersOK

LEMMA ConditionUpdateOK ==
    ASSUME ClustersOK, NEW c \in Clusters, NEW cond \in Conditions,
           UpdateImportCondition(c, cond, TRUE, TRUE)
    PROVE  ClustersOK'
<1>1. [mc[c] EXCEPT !.cond = cond] \in Cluster
  BY DEF ClustersOK, Cluster
<1>2. CASE Write(c, [mc[c] EXCEPT !.cond = cond])
  BY <1>1, <1>2, WriteOK
<1>3. CASE UNCHANGED clusterVars
  BY <1>3 DEF ClustersOK, clusterVars
<1> QED
  BY <1>2, <1>3 DEF UpdateImportCondition

(* A reconciliation that goes on or returns. *)
LEMMA GotoOK ==
    ASSUME RequestsOK, NEW r \in Requests, NEW s \in Steps, Goto(r, s),
           queue' \subseteq Requests
    PROVE  RequestsOK'
<1>1. NoCopy \in Copy
  BY DEF NoCopy, Copy
<1>2. NoOutcome \in [cond: Conditions, modified: BOOLEAN, again: BOOLEAN]
  BY DEF NoOutcome, Conditions
<1>3. step' \in [Requests -> Steps] /\ copy' \in [Requests -> Copy]
  BY <1>1 DEF Goto, RequestsOK
<1>4. secretCopy' \in [AutoRequests -> Secret \cup {NoSecret}]
  BY DEF Goto, RequestsOK
<1>5. outcome' \in [AutoRequests -> [cond: Conditions, modified: BOOLEAN,
                                 again: BOOLEAN]]
  BY <1>2 DEF Goto, RequestsOK
<1> QED
  BY <1>3, <1>4, <1>5 DEF RequestsOK

LEMMA EndOK ==
    ASSUME RequestsOK, NEW r \in Requests,
           \/ \E again \in BOOLEAN : End(r, again)
           \/ \E s \in Steps : Continue(r, s)
           \/ Requeue(r)
    PROVE  RequestsOK'
<1>1. "idle" \in Steps
  BY DEF Steps
<1>2. \E s \in Steps : Goto(r, s)
  BY <1>1 DEF End, Continue, Requeue
<1>3. queue' \subseteq Requests
  BY DEF End, Continue, Requeue, RequestsOK
<1> QED
  BY <1>2, <1>3, GotoOK

(* A getter and the import user it made. *)
LEMMA RosaTypes ==
    /\ NoGetter \in Getter /\ NewRosaKubeConfigGetter \in Getter
    /\ NoAccount \in Account
    /\ \A a \in Account : Forget(a) \in Account
<1>1. NoGetter \in Getter /\ NewRosaKubeConfigGetter \in Getter
  <2>1. 0 \in 0 .. TotalRetryTimes
    BY RetryAssumption
  <2> QED
    BY <2>1 DEF Getter, NoGetter, NewRosaKubeConfigGetter
<1>2. NoAccount \in Account
  BY DEF Account, NoAccount
<1>3. ASSUME NEW a \in Account PROVE Forget(a) \in Account
  BY DEF Account, Forget
<1> QED
  BY <1>1, <1>2, <1>3

LEMMA RemovalTypes ==
    ASSUME NEW a \in Account, NEW r \in Removals(a)
    PROVE  r.account \in Account /\ r.failures \in {0, 1}
<1>1. [a EXCEPT !.admin = FALSE] \in Account /\ [a EXCEPT !.user = "none"] \in Account
  BY DEF Account
<1>2. CASE r = [account |-> NoAccount, failures |-> 0]
  BY <1>2, RosaTypes
<1>3. ASSUME NEW b \in {a, [a EXCEPT !.admin = FALSE], [a EXCEPT !.user = "none"]},
             r = [account |-> b, failures |-> 1]
      PROVE  r.account \in Account /\ r.failures \in {0, 1}
  BY <1>1, <1>3
<1> QED
  BY <1>2, <1>3, Zenon DEF Removals

(* What the calls of the getter return. *)
ResultOK(r) ==
    /\ r.getter \in Getter /\ r.account \in Account
    /\ r.failures \in {0, 1}

LEMMA ResultTypes ==
    ASSUME NEW g \in Getter, NEW a \in Account, NEW n \in {0, 1}, NEW ok
    PROVE  ResultOK(Result(ok, g, a, n))
BY DEF ResultOK, Result

LEMMA RequestTokenTypes ==
    ASSUME NEW g \in Getter, NEW a \in Account, NEW r \in RequestToken(g, a)
    PROVE  ResultOK(r)
<1>1. g.retries < TotalRetryTimes => [g EXCEPT !.retries = @ + 1] \in Getter
  BY RetryAssumption DEF Getter
<1>2. ASSUME NEW q \in shouldRetry(g, a) PROVE ResultOK(q)
  BY <1>1, <1>2, RemovalTypes, ResultTypes DEF shouldRetry
<1> QED
  BY <1>2, ResultTypes DEF RequestToken

LEMMA KubeConfigTypes ==
    ASSUME NEW g \in Getter, NEW a \in Account, NEW r \in KubeConfig(g, a)
    PROVE  ResultOK(r)
<1>1. [g EXCEPT !.passwd = TRUE] \in Getter
  BY DEF Getter
<1>2. ASSUME NEW u \in createImportUserWithHTPasswdIDProvider(g, a)
      PROVE  u.account \in Account
  <2>1. [user |-> "known", admin |-> TRUE] \in Account
    BY DEF Account
  <2>2. [a EXCEPT !.user = "forgotten"] \in Account
    BY DEF Account
  <2>3. CASE u = [ok |-> TRUE, account |-> [user |-> "known", admin |-> TRUE]]
    BY <2>1, <2>3, Zenon
  <2>4. CASE u = [ok |-> FALSE, account |-> [a EXCEPT !.user = "forgotten"]]
    BY <2>2, <2>4, Zenon
  <2> QED
    BY <1>2, <2>3, <2>4, Zenon DEF createImportUserWithHTPasswdIDProvider
<1>3. \/ r = Result(FALSE, g, a, 1)
      \/ r \in RequestToken(g, a)
      \/ \E u \in createImportUserWithHTPasswdIDProvider(g, a) :
            \/ r \in RequestToken([g EXCEPT !.passwd = TRUE], u.account)
            \/ r = Result(FALSE, g, u.account, 1)
  <2> DEFINE users == createImportUserWithHTPasswdIDProvider(g, a)
             with(u) == IF u.ok THEN RequestToken([g EXCEPT !.passwd = TRUE], u.account)
                                ELSE {Result(FALSE, g, u.account, 1)}
  <2>1. \/ r = Result(FALSE, g, a, 1)
        \/ r \in RequestToken(g, a)
        \/ r \in UNION {with(u) : u \in users}
    BY Zenon DEF KubeConfig
  <2>2. ASSUME r \in UNION {with(u) : u \in users}
        PROVE  \E u \in users : r \in with(u)
    <3> HIDE DEF users, with
    <3> QED
      BY <2>2
  <2> QED
    BY <2>1, <2>2, Zenon
<1> QED
  BY <1>1, <1>2, <1>3, RequestTokenTypes, ResultTypes

LEMMA CleanupTypes ==
    ASSUME NEW g \in Getter, NEW a \in Account, NEW r \in Cleanup(g, a)
    PROVE  ResultOK(r)
BY RosaTypes, RemovalTypes, ResultTypes DEF Cleanup

LEMMA RosaOK ==
    ASSUME SecretsOK, NEW c \in Clusters, NEW results,
           \A r \in results : ResultOK(r), Rosa(c, results)
    PROVE  /\ getters' \in [Clusters -> Getter] /\ accounts' \in [Clusters -> Account]
           /\ disturbances' \in 0 .. MaxDisturbances
<1>1. PICK r \in results :
        /\ disturbances' = disturbances + r.failures
        /\ disturbances' <= MaxDisturbances
        /\ getters' = [getters EXCEPT ![c] = r.getter]
        /\ accounts' = [accounts EXCEPT ![c] = r.account]
  BY DEF Rosa
<1>2. ResultOK(r)
  OBVIOUS
<1> QED
  BY <1>1, <1>2, AutoImportAssumption DEF ResultOK, SecretsOK

LEMMA CreatedOK ==
    \A secrets, imported, working : 
        imported \subseteq Clusters => Created(secrets, imported, working) \subseteq Requests
BY RequestsOfACluster, RequestFacts DEF Created

-----------------------------------------------------------------------------
(* Type correctness: the initial states and the steps of the environment. *)

LEMMA InitTypeOK == Init => TypeOK
<1> SUFFICES ASSUME Init PROVE TypeOK
  OBVIOUS
<1>1. NewCluster \in Cluster /\ NoCopy \in Copy
  BY DEF NewCluster, Cluster, Conditions, NoCopy, Copy
<1>2. NoOutcome \in [cond: Conditions, modified: BOOLEAN, again: BOOLEAN]
  BY DEF NoOutcome, Conditions
<1>3. ClustersOK
  BY <1>1 DEF Init, ClustersOK
<1>4. SecretsOK
  BY AutoImportAssumption, RosaTypes DEF Init, SecretsOK, WorkStates, Kinds
<1>5. queue \subseteq Requests
  BY CreatedOK DEF Init
<1>6. RequestsOK
  BY <1>1, <1>2, <1>5 DEF Init, RequestsOK, Steps
<1> QED
  BY <1>3, <1>4, <1>6 DEF TypeOK

LEMMA UserTypeOK ==
    ASSUME TypeOK, NEW c \in Clusters, UserStep(c)
    PROVE  TypeOK'
<1> USE DEF TypeOK
<1>1. ASSUME NEW s \in Secrets, UserProvidesSecret(c, s)
      PROVE  TypeOK'
  <2>1. ClustersOK'
    BY <1>1 DEF UserProvidesSecret, clusterVars, ClustersOK
  <2>2. SecretsOK'
    BY <1>1, AutoImportAssumption
    DEF UserProvidesSecret, listerVars, memoryVars, rosaVars, SecretsOK
  <2>3. RequestsOK'
    BY <1>1 DEF UserProvidesSecret, requestVars, RequestsOK
  <2> QED
    BY <2>1, <2>2, <2>3
<1>2. ASSUME NEW new \in Cluster, Write(c, new),
             disturbances < MaxDisturbances, disturbances' = disturbances + 1,
             UNCHANGED <<hubVars, listerVars, memoryVars, requestVars>>
      PROVE  TypeOK'
  <2>1. ClustersOK'
    BY <1>2, WriteOK
  <2>2. SecretsOK'
    BY <1>2, AutoImportAssumption
    DEF hubVars, listerVars, memoryVars, rosaVars, SecretsOK
  <2>3. RequestsOK'
    BY <1>2 DEF requestVars, RequestsOK
  <2> QED
    BY <2>1, <2>2, <2>3
<1>3. CASE UserRequestsImmediateImport(c)
  <2>1. [mc[c] EXCEPT !.immediate = "requested"] \in Cluster
    BY DEF ClustersOK, Cluster
  <2> QED
    BY <1>2, <1>3, <2>1 DEF UserRequestsImmediateImport
<1>4. ASSUME NEW disabled \in BOOLEAN, UserDisablesAutoImport(c, disabled)
      PROVE  TypeOK'
  <2>1. [mc[c] EXCEPT !.disabled = disabled] \in Cluster
    BY DEF ClustersOK, Cluster
  <2> QED
    BY <1>2, <1>4, <2>1 DEF UserDisablesAutoImport
<1> QED
  BY <1>1, <1>3, <1>4 DEF UserStep

LEMMA HubTypeOK ==
    ASSUME TypeOK, NEW c \in Clusters, HubStep(c)
    PROVE  TypeOK'
<1> USE AutoImportAssumption, RequestsOfACluster, RequestFacts
    DEF TypeOK, clusterVars, listerVars, memoryVars, rosaVars, requestVars
<1>1. ClustersOK'
  BY DEF HubStep, ImportSecretCreated, ImportSecretLost, WorksCreated,
         AgentReports, ClustersOK
<1>2. SecretsOK'
  BY DEF HubStep, ImportSecretCreated, ImportSecretLost, WorksCreated,
         AgentReports, SecretsOK, WorkStates
<1>3. RequestsOK'
  BY DEF HubStep, ImportSecretCreated, ImportSecretLost, WorksCreated,
         AgentReports, RequestsOK
<1> QED
  BY <1>1, <1>2, <1>3

LEMMA SyncTypeOK ==
    ASSUME TypeOK, NEW c \in Clusters,
           ClusterSync(c) \/ SecretSync(c) \/ WorksSync(c)
    PROVE  TypeOK'
<1> USE RequestsOfACluster, RequestFacts
    DEF TypeOK, clusterVars, hubVars, listerVars, memoryVars, rosaVars
<1>1. ClustersOK'
  BY DEF ClusterSync, SecretSync, WorksSync, ClustersOK
<1>2. SecretsOK'
  BY DEF ClusterSync, SecretSync, WorksSync, SecretsOK
<1>3. queue' \subseteq Requests
  BY DEF ClusterSync, SecretSync, WorksSync, RequestsOK, ClustersOK
<1>4. RequestsOK'
  BY <1>3 DEF ClusterSync, SecretSync, WorksSync, RequestsOK
<1> QED
  BY <1>1, <1>2, <1>4

LEMMA RestartTypeOK ==
    ASSUME TypeOK, Restart
    PROVE  TypeOK'
<1>1. NewCluster \in Cluster /\ NoCopy \in Copy
  BY DEF NewCluster, Cluster, Conditions, NoCopy, Copy
<1>2. NoOutcome \in [cond: Conditions, modified: BOOLEAN, again: BOOLEAN]
  BY DEF NoOutcome, Conditions
<1>3. ClustersOK'
  BY DEF Restart, TypeOK, ClustersOK
<1>4. SecretsOK'
  <2>1. getters' \in [Clusters -> Getter] /\ accounts' \in [Clusters -> Account]
    BY RosaTypes DEF Restart, TypeOK, SecretsOK
  <2> QED
    BY <2>1, AutoImportAssumption DEF Restart, TypeOK, SecretsOK, hubVars
<1>5. queue' \subseteq Requests
  BY CreatedOK DEF Restart, TypeOK, SecretsOK
<1>6. RequestsOK'
  BY <1>1, <1>2, <1>5 DEF Restart, RequestsOK, Steps
<1> QED
  BY <1>3, <1>4, <1>6 DEF TypeOK

-----------------------------------------------------------------------------
(* Type correctness: the steps of the two controllers. *)

LEMMA AutoReconcileTypeOK ==
    ASSUME TypeOK, NEW r \in AutoRequests, AutoReconcile(r)
    PROVE  TypeOK'
<1> DEFINE c == r[3]
<1> USE RequestFacts
    DEF TypeOK, AutoReconcile, hubVars, listerVars, memoryVars, rosaVars
<1>1. ClustersOK'
  BY DEF ClustersOK
<1>2. secretCache[c].kind \in Kinds \/ secretCache[c] = NoSecret
  BY DEF SecretsOK, Secret
<1>3. SecretsOK'
  <2>1. generator' \in Kinds \cup {"none"}
    BY <1>2 DEF SecretsOK, GeneratorOf, NoSecret
  <2>2. getters' \in [Clusters -> Getter] /\ accounts' = accounts
    BY RosaTypes DEF SecretsOK
  <2> QED
    BY <2>1, <2>2 DEF SecretsOK
<1>4. RequestsOK'
  <2>1. step' \in [Requests -> Steps]
    BY DEF RequestsOK, Steps
  <2>2. copy' \in [Requests -> Copy]
    <3> DEFINE read == [NoCopy EXCEPT !.started = cache[c].cond \notin {"none", "wait"},
                                     !.url = cache[c].url]
    <3>1. cache[c].url \in BOOLEAN
      BY DEF ClustersOK, Cluster
    <3>2. read \in Copy
      BY <3>1 DEF Copy, NoCopy
    <3>3. copy' = copy \/ copy' = [copy EXCEPT ![r] = read]
      BY Zenon
    <3> HIDE DEF read
    <3> QED
      BY <3>2, <3>3 DEF RequestsOK
  <2>3. secretCopy' \in [AutoRequests -> Secret \cup {NoSecret}]
    <3>1. secretCopy' = secretCopy \/ secretCopy' = [secretCopy EXCEPT ![r] = secretCache[c]]
      BY Zenon
    <3>2. secretCache[c] \in Secret \cup {NoSecret}
      BY DEF SecretsOK
    <3> QED
      BY <3>1, <3>2 DEF RequestsOK
  <2>4. outcome' \in [AutoRequests -> [cond: Conditions, modified: BOOLEAN,
                                  again: BOOLEAN]]
    <3> DEFINE invalid == [cond |-> "invalid", modified |-> FALSE, again |-> TRUE]
    <3>1. invalid \in [cond: Conditions, modified: BOOLEAN, again: BOOLEAN]
      BY DEF Conditions
    <3>2. outcome' = outcome \/ outcome' = [outcome EXCEPT ![r] = invalid]
      BY Zenon DEF requestVars
    <3> HIDE DEF invalid
    <3> QED
      BY <3>1, <3>2 DEF RequestsOK
  <2> QED
    BY <2>1, <2>2, <2>3, <2>4 DEF RequestsOK
<1> QED
  BY <1>1, <1>3, <1>4

(* Import returns, or has made a client. *)
HasReturned(r, conds) ==
    \E cond \in conds, modified, again \in BOOLEAN :
        Returns(r, cond, modified, again)
HasClient(r) ==
    step' = [step EXCEPT ![r] = "apply"] /\ UNCHANGED outcome

LEMMA HasReturnedOK ==
    ASSUME RequestsOK, NEW r \in AutoRequests, UNCHANGED <<queue, copy, secretCopy>>,
           HasClient(r) \/ HasReturned(r, {"importing", "invalid", "applied", "failed"})
    PROVE  RequestsOK'
<1> USE RequestFacts
<1>1. CASE HasClient(r)
  BY <1>1 DEF HasClient, RequestsOK, Steps
<1>2. ASSUME NEW cond \in {"importing", "invalid", "applied", "failed"},
             NEW modified \in BOOLEAN, NEW again \in BOOLEAN,
             Returns(r, cond, modified, again)
      PROVE  RequestsOK'
  <2>1. [cond |-> cond, modified |-> modified, again |-> again]
          \in [cond: Conditions, modified: BOOLEAN, again: BOOLEAN]
    BY DEF Conditions
  <2> QED
    BY <1>2, <2>1 DEF Returns, RequestsOK, Steps
<1> QED
  BY <1>1, <1>2 DEF HasReturned

LEMMA GenerateClientResults ==
    ASSUME SecretsOK, NEW r \in AutoRequests, GenerateClient(r)
    PROVE  /\ HasClient(r) \/ HasReturned(r, {"invalid"})
           /\ getters' \in [Clusters -> Getter] /\ accounts' \in [Clusters -> Account]
           /\ disturbances' \in 0 .. MaxDisturbances
<1> DEFINE c == r[3]
           results(ok) == {k \in KubeConfig(getters[c], accounts[c]) : k.ok = ok}
<1> USE RequestFacts
<1>1. Returns(r, "invalid", FALSE, TRUE) => HasReturned(r, {"invalid"})
  BY DEF HasReturned
<1>2. \/ UNCHANGED <<rosaVars, disturbances>>
      \/ \E ok \in BOOLEAN : Rosa(c, results(ok))
  BY Zenon DEF GenerateClient
<1>3. ASSUME NEW ok \in BOOLEAN PROVE \A k \in results(ok) : ResultOK(k)
  BY KubeConfigTypes DEF SecretsOK
<1>4. HasClient(r) \/ Returns(r, "invalid", FALSE, TRUE)
  BY Zenon DEF GenerateClient, HasClient
<1> HIDE DEF results
<1>5. CASE \E ok \in BOOLEAN : Rosa(c, results(ok))
  BY <1>1, <1>3, <1>4, <1>5, RosaOK
<1>6. CASE UNCHANGED <<rosaVars, disturbances>>
  BY <1>1, <1>4, <1>6 DEF SecretsOK, rosaVars
<1> QED
  BY <1>2, <1>5, <1>6

LEMMA ImportTypeOK ==
    ASSUME TypeOK, NEW r \in AutoRequests, Import(r)
    PROVE  TypeOK'
<1> USE DEF TypeOK
<1>1. UNCHANGED <<clusterVars, hubVars, listerVars, generator, queue, copy,
                  secretCopy>>
  BY Zenon DEF Import
<1>2. ClustersOK'
  BY <1>1 DEF ClustersOK, clusterVars
<1>3. CASE GenerateClient(r)
  <2>1. SecretsOK'
    BY <1>1, <1>3, GenerateClientResults DEF SecretsOK, hubVars, listerVars
  <2>2. RequestsOK'
    BY <1>1, <1>3, GenerateClientResults, HasReturnedOK DEF HasReturned
  <2> QED
    BY <1>2, <2>1, <2>2
<1>4. CASE Returns(r, "importing", FALSE, TRUE) /\ UNCHANGED <<rosaVars, disturbances>>
  <2>1. SecretsOK'
    BY <1>1, <1>4 DEF SecretsOK, hubVars, listerVars, rosaVars
  <2>2. RequestsOK'
    BY <1>1, <1>4, HasReturnedOK DEF HasReturned
  <2> QED
    BY <1>2, <2>1, <2>2
<1> QED
  BY <1>3, <1>4, Zenon DEF Import

(* applyResources calls a secret invalid that the managed cluster refuses. *)
LEMMA ApplyReturns ==
    ASSUME NEW r \in AutoRequests, applyResources(r)
    PROVE  /\ \/ HasReturned(r, {"importing", "applied", "failed"})
              \/ Refused(r) /\ HasReturned(r, {"invalid"})
           /\ applied' = applied \/ applied' = applied \cup {r[3]}
           /\ \/ disturbances' = disturbances
              \/ /\ disturbances < MaxDisturbances
                 /\ disturbances' = disturbances + 1
<1> DEFINE c == r[3]
           conds == {"importing", "applied", "failed"}
<1>1. /\ {"failed", "importing"} \subseteq conds /\ "applied" \in conds
      /\ "importing" \in conds /\ (c \notin applied) \in BOOLEAN
      /\ TRUE \in BOOLEAN /\ FALSE \in BOOLEAN /\ "invalid" \in {"invalid"}
  OBVIOUS
<1> HIDE DEF conds
<1> SUFFICES /\ HasReturned(r, conds) \/ (Refused(r) /\ HasReturned(r, {"invalid"}))
             /\ applied' = applied \/ applied' = applied \cup {c}
             /\ \/ disturbances' = disturbances
                \/ /\ disturbances < MaxDisturbances
                   /\ disturbances' = disturbances + 1
  BY DEF conds
<1> QED
  BY <1>1, Zenon DEF applyResources, HasReturned

LEMMA ApplyTypeOK ==
    ASSUME TypeOK, NEW r \in AutoRequests, applyResources(r)
    PROVE  TypeOK'
<1> USE DEF TypeOK
<1>1. UNCHANGED <<clusterVars, secret, works, importSecret, listerVars,
                  memoryVars, queue, copy, secretCopy>>
  BY Zenon DEF applyResources
<1>2. ClustersOK'
  BY <1>1 DEF ClustersOK, clusterVars
<1>3. SecretsOK'
  BY <1>1, ApplyReturns, AutoImportAssumption, RequestFacts
  DEF SecretsOK, listerVars, memoryVars, rosaVars
<1>4. HasReturned(r, {"importing", "invalid", "applied", "failed"})
  BY ApplyReturns DEF HasReturned
<1>5. RequestsOK'
  BY <1>1, <1>4, HasReturnedOK
<1> QED
  BY <1>2, <1>3, <1>5

(* A step of a reconciliation that goes on or returns, and at most updates *)
(* the condition on the way.                                               *)
LEMMA ConditionUpdates ==
    ASSUME NEW c, NEW r, NEW s, NEW cond,
           UpdateImportCondition(c, cond, Continue(r, s), Requeue(r))
    PROVE  /\ UpdateImportCondition(c, cond, TRUE, TRUE)
           /\ Continue(r, s) \/ Requeue(r)
BY Zenon DEF UpdateImportCondition

LEMMA UpdateOutcomeMoves ==
    ASSUME TypeOK, NEW r \in AutoRequests, UpdateOutcome(r)
    PROVE  /\ \/ \E again \in BOOLEAN : End(r, again)
              \/ \E s \in {"cleanup", "url"} : Continue(r, s)
              \/ Requeue(r)
           /\ \/ UNCHANGED clusterVars
              \/ UpdateImportCondition(r[3], outcome[r].cond, TRUE, TRUE)
<1> DEFINE c == r[3]
           cond == outcome[r].cond
           next == IF cond # "applied" THEN End(r, outcome[r].again)
                   ELSE Continue(r, IF getters[c].exists THEN "cleanup" ELSE "url")
           moves == \/ \E again \in BOOLEAN : End(r, again)
                    \/ \E s \in {"cleanup", "url"} : Continue(r, s)
                    \/ Requeue(r)
<1>1. outcome[r].again \in BOOLEAN
  BY DEF TypeOK, RequestsOK
<1>2. ASSUME next PROVE moves
  <2>1. CASE cond # "applied"
    BY <1>1, <1>2, <2>1
  <2>2. CASE cond = "applied" /\ getters[c].exists
    BY <1>2, <2>2
  <2>3. CASE cond = "applied" /\ ~getters[c].exists
    BY <1>2, <2>3
  <2> QED
    BY <2>1, <2>2, <2>3
<1>3. CASE UNCHANGED clusterVars /\ next
  BY <1>2, <1>3
<1>4. CASE UpdateImportCondition(c, cond, next, Requeue(r))
  <2>1. UpdateImportCondition(c, cond, TRUE, TRUE) /\ (next \/ Requeue(r))
    BY <1>4, Zenon DEF UpdateImportCondition
  <2> QED
    BY <1>2, <2>1
<1> QED
  BY <1>3, <1>4, Zenon DEF UpdateOutcome

(* The parts that such steps change. *)
LEMMA MovesTypeOK ==
    ASSUME TypeOK, ClustersOK', SecretsOK', NEW r \in Requests,
           \/ \E again \in BOOLEAN : End(r, again)
           \/ \E s \in Steps : Continue(r, s)
           \/ Requeue(r)
    PROVE  TypeOK'
BY EndOK DEF TypeOK

LEMMA UpdateOutcomeTypeOK ==
    ASSUME TypeOK, NEW r \in AutoRequests, UpdateOutcome(r)
    PROVE  TypeOK'
<1> DEFINE c == r[3]
<1> USE RequestFacts
<1>1. ClustersOK'
  <2>1. outcome[r].cond \in Conditions
    BY DEF TypeOK, RequestsOK
  <2>2. CASE UNCHANGED clusterVars
    BY <2>2 DEF TypeOK, ClustersOK, clusterVars
  <2>3. CASE UpdateImportCondition(c, outcome[r].cond, TRUE, TRUE)
    BY <2>1, <2>3, ConditionUpdateOK DEF TypeOK
  <2> QED
    BY <2>2, <2>3, UpdateOutcomeMoves
<1>2. UNCHANGED <<hubVars, listerVars, memoryVars, disturbances>>
  BY Zenon DEF UpdateOutcome
<1>3. SecretsOK'
  BY <1>2 DEF TypeOK, SecretsOK, hubVars, listerVars, memoryVars, rosaVars
<1>4. {"cleanup", "url"} \subseteq Steps
  BY DEF Steps
<1> QED
  BY <1>1, <1>3, <1>4, UpdateOutcomeMoves, MovesTypeOK, RequestFacts

LEMMA FinishTypeOK ==
    ASSUME TypeOK, NEW r \in AutoRequests,
           CleanupRosa(r) \/ updateClusterURL(r) \/ DeleteAutoImportSecret(r)
    PROVE  TypeOK'
<1> DEFINE c == r[3]
<1> USE RequestFacts
<1>0. {"url", "delete"} \subseteq Steps
  BY DEF Steps
<1>1. CASE CleanupRosa(r)
  <2>1. ClustersOK'
    BY <1>1 DEF CleanupRosa, clusterVars, TypeOK, ClustersOK
  <2>2. SecretsOK'
    <3> DEFINE results(ok) == {k \in Cleanup(getters[c], accounts[c]) : k.ok = ok}
    <3>1. \E ok \in BOOLEAN : Rosa(c, results(ok))
      BY <1>1, Zenon DEF CleanupRosa
    <3>2. ASSUME NEW ok \in BOOLEAN PROVE \A k \in results(ok) : ResultOK(k)
      BY CleanupTypes DEF TypeOK, SecretsOK
    <3> HIDE DEF results
    <3>3. /\ getters' \in [Clusters -> Getter] /\ accounts' \in [Clusters -> Account]
          /\ disturbances' \in 0 .. MaxDisturbances
      BY <3>1, <3>2, RosaOK DEF TypeOK
    <3>4. UNCHANGED <<hubVars, listerVars, generator>>
      BY <1>1, Zenon DEF CleanupRosa
    <3> QED
      BY <3>3, <3>4 DEF hubVars, listerVars, TypeOK, SecretsOK
  <2>3. Continue(r, "url") \/ Requeue(r)
    BY <1>1, Zenon DEF CleanupRosa
  <2> QED
    BY <1>0, <2>1, <2>2, <2>3, MovesTypeOK
<1>2. CASE updateClusterURL(r)
  <2>1. [mc[c] EXCEPT !.url = TRUE] \in Cluster
    <3>1. \A m \in Cluster, url \in BOOLEAN : [m EXCEPT !.url = url] \in Cluster
      BY DEF Cluster
    <3>2. mc[c] \in Cluster
      BY DEF TypeOK, ClustersOK
    <3> QED
      BY <3>1, <3>2
  <2>2. /\ UNCHANGED clusterVars \/ Write(c, [mc[c] EXCEPT !.url = TRUE])
        /\ Continue(r, "delete") \/ Requeue(r)
        /\ UNCHANGED <<hubVars, listerVars, memoryVars, disturbances>>
    BY <1>2, Zenon DEF updateClusterURL
  <2>3. ClustersOK'
    BY <2>1, <2>2, WriteOK DEF clusterVars, TypeOK, ClustersOK
  <2>4. SecretsOK'
    BY <2>2 DEF hubVars, listerVars, memoryVars, rosaVars, TypeOK, SecretsOK
  <2> QED
    BY <1>0, <2>2, <2>3, <2>4, MovesTypeOK
<1>3. CASE DeleteAutoImportSecret(r)
  <2>1. ClustersOK'
    BY <1>3 DEF DeleteAutoImportSecret, clusterVars, TypeOK, ClustersOK
  <2>2. SecretsOK'
    BY <1>3 DEF DeleteAutoImportSecret, listerVars, memoryVars, rosaVars, TypeOK, SecretsOK
  <2>3. \E again \in BOOLEAN : End(r, again)
    <3>1. CASE ~secretCopy[r].keep /\ secret[c] = NoSecret
      BY <1>3, <3>1 DEF DeleteAutoImportSecret, End
    <3>2. CASE ~(~secretCopy[r].keep /\ secret[c] = NoSecret)
      BY <1>3, <3>2 DEF DeleteAutoImportSecret, End
    <3> QED
      BY <3>1, <3>2
  <2> QED
    BY <2>1, <2>2, <2>3, MovesTypeOK
<1> QED
  BY <1>1, <1>2, <1>3

LEMMA StatusTypeOK ==
    ASSUME TypeOK, NEW r \in StatusRequests, StatusStep(r)
    PROVE  TypeOK'
<1> DEFINE c == r[3]
<1> USE RequestFacts
<1>0. {"idle", "check", "complete", "wait", "imported"} \subseteq Steps
  BY DEF Steps
<1>1. CASE StatusReconcile(r)
  <2>1. ClustersOK' /\ SecretsOK'
    BY <1>1 DEF StatusReconcile, clusterVars, hubVars, listerVars, memoryVars, rosaVars,
                TypeOK, ClustersOK, SecretsOK
  <2>2. step' \in [Requests -> Steps] /\ copy' \in [Requests -> Copy]
    BY <1>0, <1>1 DEF StatusReconcile, TypeOK, RequestsOK, Copy, NoCopy
  <2>3. RequestsOK'
    BY <1>1, <2>2 DEF StatusReconcile, TypeOK, RequestsOK
  <2> QED
    BY <2>1, <2>3 DEF TypeOK
<1>2. ASSUME UNCHANGED <<hubVars, listerVars, memoryVars, disturbances>>
      PROVE  SecretsOK'
  BY <1>2 DEF hubVars, listerVars, memoryVars, rosaVars, TypeOK, SecretsOK
<1>3. CASE AddCondition(r)
  <2>1. /\ UpdateImportCondition(c, "wait", TRUE, TRUE)
        /\ Requeue(r)
        /\ UNCHANGED <<hubVars, listerVars, memoryVars, disturbances>>
    BY <1>3, Zenon DEF AddCondition, UpdateImportCondition
  <2>2. "wait" \in Conditions
    BY DEF Conditions
  <2>3. ClustersOK'
    BY <2>1, <2>2, ConditionUpdateOK DEF TypeOK
  <2> QED
    BY <1>2, <2>1, <2>3, MovesTypeOK
<1>4. CASE IsManifestWorksAvailable(r)
  <2>1. ClustersOK'
    BY <1>4 DEF IsManifestWorksAvailable, clusterVars, TypeOK, ClustersOK
  <2>2. SecretsOK'
    BY <1>2, <1>4 DEF IsManifestWorksAvailable
  <2>3. \E s \in {"idle", "complete", "imported"} : Continue(r, s)
    BY <1>4 DEF IsManifestWorksAvailable
  <2> QED
    BY <1>0, <2>1, <2>2, <2>3, MovesTypeOK
<1>5. CASE SetImmediateImportCompleted(r)
  <2>1. [mc[c] EXCEPT !.immediate = "completed"] \in Cluster
    BY DEF TypeOK, ClustersOK, Cluster
  <2>2. /\ \/ UNCHANGED clusterVars
           \/ Write(c, [mc[c] EXCEPT !.immediate = "completed"])
        /\ Continue(r, "imported") \/ Requeue(r)
        /\ UNCHANGED <<hubVars, listerVars, memoryVars, disturbances>>
    BY <1>5, Zenon DEF SetImmediateImportCompleted
  <2>3. ClustersOK'
    BY <2>1, <2>2, WriteOK DEF clusterVars, TypeOK, ClustersOK
  <2> QED
    BY <1>0, <1>2, <2>2, <2>3, MovesTypeOK
<1>6. CASE ReportImported(r)
  <2>1. /\ UpdateImportCondition(c, "imported", TRUE, TRUE)
        /\ Continue(r, "idle") \/ Requeue(r)
        /\ UNCHANGED <<hubVars, listerVars, memoryVars, disturbances>>
    BY <1>6, Zenon DEF ReportImported, UpdateImportCondition
  <2>2. "imported" \in Conditions
    BY DEF Conditions
  <2>3. ClustersOK'
    BY <2>1, <2>2, ConditionUpdateOK DEF TypeOK
  <2> QED
    BY <1>0, <1>2, <2>1, <2>3, MovesTypeOK
<1> QED
  BY <1>1, <1>3, <1>4, <1>5, <1>6 DEF StatusStep

LEMMA NextTypeOK == TypeOK /\ [Next]_vars => TypeOK'
<1> SUFFICES ASSUME TypeOK, [Next]_vars PROVE TypeOK'
  OBVIOUS
<1>1. CASE Restart
  BY <1>1, RestartTypeOK
<1>2. ASSUME NEW c \in Clusters,
             \/ UserStep(c) \/ HubStep(c)
             \/ ClusterSync(c) \/ SecretSync(c) \/ WorksSync(c)
      PROVE  TypeOK'
  BY <1>2, UserTypeOK, HubTypeOK, SyncTypeOK
<1>3. ASSUME NEW r \in AutoRequests, AutoStep(r) PROVE TypeOK'
  BY <1>3, AutoReconcileTypeOK, ImportTypeOK, ApplyTypeOK, UpdateOutcomeTypeOK,
     FinishTypeOK
  DEF AutoStep
<1>4. ASSUME NEW r \in StatusRequests, StatusStep(r) PROVE TypeOK'
  BY <1>4, StatusTypeOK
<1>5. CASE UNCHANGED vars
  BY <1>5 DEF vars, clusterVars, hubVars, listerVars, memoryVars, rosaVars, requestVars,
              TypeOK, ClustersOK, SecretsOK, RequestsOK
<1> QED
  BY <1>1, <1>2, <1>3, <1>4, <1>5 DEF Next

(***************************************************************************)
(* The state of the two controllers stays within its types, for every set  *)
(* of clusters and secrets and any number of workers and disturbances.     *)
(***************************************************************************)
THEOREM TypeCorrect == Spec => []TypeOK
BY InitTypeOK, NextTypeOK, PTL DEF Spec

-----------------------------------------------------------------------------
(* The invariant. *)

(* One reconciliation of autoimport-controller is under way at a time. *)
OneReconciliation ==
    \A q, r \in AutoRequests : step[q] # "idle" /\ step[r] # "idle" => q = r

(* The generator in the helper is the one of the secret that was read. *)
GeneratorFits ==
    \A r \in AutoRequests : step[r] = "import" => generator = secretCopy[r].kind

(* Before an import has returned there is no outcome. *)
NoOutcomeYet ==
    \A r \in AutoRequests : step[r] \in {"idle", "import"} => outcome[r] = NoOutcome

SafeInv ==
    /\ OneReconciliation /\ GeneratorFits /\ NoOutcomeYet
    /\ NeverFalselyInvalid
IInv == TypeOK /\ SafeInv

LEMMA InitSafeInv == Init => SafeInv
BY RequestFacts
DEF Init, SafeInv, OneReconciliation, GeneratorFits, NoOutcomeYet,
    NeverFalselyInvalid, NoOutcome

(* The reconciliation of q stays where it is, ends, or goes on past the    *)
(* import with what it read.                                               *)
Keeps(q) ==
    \/ step'[q] = "idle" /\ outcome'[q] = NoOutcome
    \/ /\ secretCopy'[q] = secretCopy[q] /\ outcome'[q] = outcome[q]
       /\ \/ step'[q] = step[q]
          \/ step[q] # "idle" /\ step'[q] \notin {"idle", "import"}

LEMMA QuietStep ==
    ASSUME SafeInv, \A q \in AutoRequests : Keeps(q),
           generator' = generator \/ (\A q \in AutoRequests : step'[q] = "idle")
    PROVE  SafeInv'
<1>1. OneReconciliation'
  BY DEF SafeInv, OneReconciliation, Keeps
<1>2. GeneratorFits'
  BY DEF SafeInv, GeneratorFits, Keeps
<1>3. NeverFalselyInvalid'
  BY DEF SafeInv, NeverFalselyInvalid, Keeps, NoOutcome, Usable
<1>4. NoOutcomeYet'
  BY DEF SafeInv, NoOutcomeYet, Keeps
<1> QED
  BY <1>1, <1>2, <1>3, <1>4 DEF SafeInv

(* Steps that no reconciliation of autoimport-controller takes. *)
LEMMA OtherStep ==
    ASSUME SafeInv, UNCHANGED <<step, secretCopy, outcome, generator>>
    PROVE  SafeInv'
BY QuietStep DEF Keeps

(* A reconciliation that is under way returns, or goes on past the import. *)
LEMMA GotoKeeps ==
    ASSUME TypeOK, SafeInv, NEW r \in Requests, step[r] # "idle",
           NEW s \in Steps \ {"import"}, Goto(r, s), generator' = generator
    PROVE  SafeInv'
<1>1. ASSUME NEW q \in AutoRequests PROVE Keeps(q)
  <2>1. CASE r = q
    BY <2>1, RequestFacts DEF Goto, Keeps, TypeOK, RequestsOK
  <2>2. CASE r # q
    <3>1. step'[q] = step[q]
      BY <2>2, RequestFacts DEF Goto, TypeOK, RequestsOK
    <3>2. secretCopy'[q] = secretCopy[q] /\ outcome'[q] = outcome[q]
      BY <2>2, RequestFacts DEF Goto, TypeOK, RequestsOK
    <3> QED
      BY <3>1, <3>2 DEF Keeps
  <2> QED
    BY <2>1, <2>2
<1> QED
  BY <1>1, QuietStep

LEMMA MovesKeep ==
    ASSUME TypeOK, SafeInv, NEW r \in Requests, step[r] # "idle",
           \/ \E again \in BOOLEAN : End(r, again)
           \/ \E s \in Steps \ {"import"} : Continue(r, s)
           \/ Requeue(r),
           generator' = generator
    PROVE  SafeInv'
<1>1. "idle" \in Steps \ {"import"}
  BY DEF Steps
<1>2. \E s \in Steps \ {"import"} : Goto(r, s)
  BY <1>1 DEF End, Continue, Requeue
<1> QED
  BY <1>2, GotoKeeps

-----------------------------------------------------------------------------
(* The steps that start and end an import. *)

LEMMA FiniteRequests ==
    ASSUME IsFiniteSet(Clusters)
    PROVE  IsFiniteSet(AutoRequests)
<1> DEFINE Of(k) == {AutoRequest(k, c) : c \in Clusters}
<1>1. ASSUME NEW k PROVE IsFiniteSet(Of(k))
  <2>1. [c \in Clusters |-> AutoRequest(k, c)] \in Surjection(Clusters, Of(k))
    BY DEF Surjection
  <2> QED
    BY <2>1, FS_Surjection
<1>2. AutoRequests = Of("cluster") \cup Of("namespace")
  BY DEF AutoRequests, AutoRequest, Keys
<1> HIDE DEF Of
<1> QED
  BY <1>1, <1>2, FS_Union

LEMMA NobodyUnderWay ==
    ASSUME MaxConcurrentReconciles = 1, IsFiniteSet(Clusters), WorkersFree("auto")
    PROVE  \A r \in AutoRequests : step[r] = "idle"
<1> DEFINE busy == {r \in Requests : r[1] = "auto" /\ step[r] # "idle"}
<1>1. IsFiniteSet(busy)
  <2>1. busy \subseteq AutoRequests
    BY RequestFacts DEF Requests
  <2> QED
    BY <2>1, FiniteRequests, FS_Subset
<1>2. Cardinality(busy) < 1 /\ Cardinality(busy) \in Nat
  BY <1>1, FS_CardinalityType DEF WorkersFree
<1>3. Cardinality(busy) = 0
  BY <1>2
<1>4. busy = {}
  BY <1>1, <1>3, FS_EmptySet
<1> QED
  BY <1>4, RequestFacts

LEMMA AutoReconcileSafe ==
    ASSUME TypeOK, SafeInv, NEW r \in AutoRequests, AutoReconcile(r),
           MaxConcurrentReconciles = 1, IsFiniteSet(Clusters)
    PROVE  SafeInv'
<1> DEFINE c == r[3]
<1> USE RequestFacts
<1>1. \A q \in AutoRequests : step[q] = "idle"
  BY NobodyUnderWay DEF AutoReconcile
<1>2. CASE Skipped(c)
  BY <1>2, OtherStep DEF AutoReconcile, memoryVars, rosaVars
<1>3. CASE ~Skipped(c)
  <2>1. /\ secretCopy' = [secretCopy EXCEPT ![r] = secretCache[c]]
        /\ \E s \in {"condition", "import"} :
              step' = [step EXCEPT ![r] = s]
    BY <1>3 DEF AutoReconcile
  <2>2. \A q \in AutoRequests \ {r} : step'[q] = "idle"
    BY <1>1, <2>1 DEF TypeOK, RequestsOK
  <2>3. OneReconciliation'
    BY <2>2 DEF OneReconciliation
  <2>4. secretCopy'[r] = secretCache[c]
    BY <2>1 DEF TypeOK, RequestsOK
  <2>5. GeneratorFits'
    BY <1>3, <2>2, <2>4
    DEF AutoReconcile, GeneratorFits, GeneratorOf, TypeOK, RequestsOK
  <2>6. NeverFalselyInvalid'
    <3>1. CASE secretCache[c].kind = "unsupported"
      BY <1>3, <2>1, <2>4, <3>1
      DEF AutoReconcile, SafeInv, NeverFalselyInvalid, Usable, TypeOK, RequestsOK
    <3>2. CASE secretCache[c].kind # "unsupported"
      <4>1. outcome' = outcome
        BY <1>3, <3>2, Zenon DEF AutoReconcile
      <4> QED
        BY <1>1, <4>1 DEF SafeInv, NoOutcomeYet, NeverFalselyInvalid, NoOutcome
    <3> QED
      BY <3>1, <3>2
  <2>7. NoOutcomeYet'
    BY <1>1, <1>3, <2>2
    DEF AutoReconcile, SafeInv, NoOutcomeYet, TypeOK, RequestsOK
  <2> QED
    BY <2>3, <2>5, <2>6, <2>7 DEF SafeInv
<1> QED
  BY <1>2, <1>3

(* An import returns. *)
LEMMA ReturnSafe ==
    ASSUME TypeOK, SafeInv, NEW r \in AutoRequests,
           step[r] \in {"import", "apply"},
           UNCHANGED <<generator, secretCopy>>,
           NEW cond, NEW modified, NEW again, Returns(r, cond, modified, again),
           cond = "invalid" => ~Usable(secretCopy[r])
    PROVE  SafeInv'
<1> USE RequestFacts
<1>1. \A q \in AutoRequests \ {r} : /\ outcome'[q] = outcome[q]
                                   /\ step'[q] = step[q]
  BY DEF Returns, TypeOK, RequestsOK
<1>2. step'[r] = "condition" /\ outcome'[r].cond = cond
  BY DEF Returns, TypeOK, RequestsOK
<1>3. OneReconciliation'
  BY <1>1, <1>2 DEF SafeInv, OneReconciliation
<1>4. GeneratorFits'
  BY <1>1, <1>2 DEF SafeInv, GeneratorFits
<1>5. NeverFalselyInvalid'
  BY <1>1, <1>2 DEF SafeInv, NeverFalselyInvalid, Usable
<1>6. NoOutcomeYet'
  BY <1>1, <1>2 DEF SafeInv, NoOutcomeYet
<1> QED
  BY <1>3, <1>4, <1>5, <1>6 DEF SafeInv

(* Import calls a usable secret invalid only with a generator of another   *)
(* kind.                                                                   *)
LEMMA ImportSafe ==
    ASSUME TypeOK, SafeInv, NEW r \in AutoRequests, Import(r)
    PROVE  SafeInv'
<1> DEFINE s == secretCopy[r]
<1> USE RequestFacts
<1>1. /\ step[r] = "import"
      /\ UNCHANGED <<generator, secretCopy>>
  BY Zenon DEF Import
<1>2. generator = s.kind
  BY <1>1 DEF SafeInv, GeneratorFits
<1>3. Usable(s) => Understands(s) /\ s.kind # "rosa"
  BY <1>2 DEF Usable, Understands
<1>4. CASE Returns(r, "importing", FALSE, TRUE)
  BY <1>1, <1>4, ReturnSafe
<1>5. CASE HasClient(r)
  <2>1. ASSUME NEW q \in AutoRequests PROVE Keeps(q)
    BY <1>1, <1>5 DEF HasClient, Keeps, TypeOK, RequestsOK
  <2> QED
    BY <1>1, <2>1, QuietStep
<1>6. CASE Returns(r, "invalid", FALSE, TRUE) /\ ~HasClient(r) /\ GenerateClient(r)
  <2>1. ~(Understands(s) /\ s.kind # "rosa")
    BY <1>6, Zenon DEF GenerateClient, HasClient
  <2> QED
    BY <1>1, <1>3, <1>6, <2>1, ReturnSafe
<1>7. GenerateClient(r) => HasClient(r) \/ Returns(r, "invalid", FALSE, TRUE)
  BY Zenon DEF GenerateClient, HasClient
<1> QED
  BY <1>4, <1>5, <1>6, <1>7, Zenon DEF Import

LEMMA ApplySafe ==
    ASSUME TypeOK, SafeInv, NEW r \in AutoRequests, applyResources(r)
    PROVE  SafeInv'
<1>1. /\ step[r] = "apply"
      /\ UNCHANGED <<generator, secretCopy>>
  BY Zenon DEF applyResources, memoryVars
<1>2. Refused(r) => ~Usable(secretCopy[r])
  BY DEF Refused, Usable
<1>3. CASE HasReturned(r, {"importing", "applied", "failed"})
  BY <1>1, <1>3, ReturnSafe DEF HasReturned
<1>4. CASE Refused(r) /\ HasReturned(r, {"invalid"})
  BY <1>1, <1>2, <1>4, ReturnSafe DEF HasReturned
<1> QED
  BY <1>3, <1>4, ApplyReturns

-----------------------------------------------------------------------------
(* The other steps. *)

LEMMA EnvironmentSafe ==
    ASSUME TypeOK, SafeInv, NEW c \in Clusters,
           \/ UserStep(c) \/ HubStep(c)
           \/ ClusterSync(c) \/ SecretSync(c) \/ WorksSync(c)
    PROVE  SafeInv'
<1>1. UNCHANGED <<step, secretCopy, outcome, generator>>
  BY DEF UserStep, UserProvidesSecret, UserRequestsImmediateImport,
         UserDisablesAutoImport, HubStep, ImportSecretCreated, ImportSecretLost,
         WorksCreated, AgentReports, ClusterSync, SecretSync, WorksSync,
         memoryVars, rosaVars, requestVars
<1> QED
  BY <1>1, OtherStep

LEMMA FinishSafe ==
    ASSUME TypeOK, SafeInv, NEW r \in AutoRequests,
           \/ UpdateOutcome(r) \/ CleanupRosa(r) \/ updateClusterURL(r)
           \/ DeleteAutoImportSecret(r)
    PROVE  SafeInv'
<1> DEFINE c == r[3]
<1> USE RequestFacts
<1>0. {"cleanup", "url", "delete"} \subseteq Steps \ {"import"}
  BY DEF Steps
<1>1. step[r] # "idle" /\ generator' = generator
  BY DEF UpdateOutcome, CleanupRosa, updateClusterURL, DeleteAutoImportSecret,
         memoryVars, rosaVars
<1>2. \/ \E again \in BOOLEAN : End(r, again)
      \/ \E s \in Steps \ {"import"} : Continue(r, s)
      \/ Requeue(r)
  <2>1. CASE UpdateOutcome(r)
    BY <1>0, <2>1, UpdateOutcomeMoves
  <2>2. CASE CleanupRosa(r)
    <3>1. Continue(r, "url") \/ Requeue(r)
      BY <2>2, Zenon DEF CleanupRosa
    <3> QED
      BY <1>0, <3>1
  <2>3. CASE updateClusterURL(r)
    <3>1. Continue(r, "delete") \/ Requeue(r)
      BY <2>3, Zenon DEF updateClusterURL
    <3> QED
      BY <1>0, <3>1
  <2>4. CASE DeleteAutoImportSecret(r)
    <3>1. CASE ~secretCopy[r].keep /\ secret[c] = NoSecret
      BY <2>4, <3>1 DEF DeleteAutoImportSecret, End
    <3>2. CASE ~(~secretCopy[r].keep /\ secret[c] = NoSecret)
      BY <2>4, <3>2 DEF DeleteAutoImportSecret, End
    <3> QED
      BY <3>1, <3>2
  <2> QED
    BY <2>1, <2>2, <2>3, <2>4
<1> QED
  BY <1>1, <1>2, MovesKeep

LEMMA StatusSafe ==
    ASSUME TypeOK, SafeInv, NEW r \in StatusRequests, StatusStep(r)
    PROVE  SafeInv'
<1> USE RequestFacts
<1>0. {"idle", "complete", "imported"} \subseteq Steps \ {"import"}
  BY DEF Steps
<1>1. CASE StatusReconcile(r)
  <2>1. UNCHANGED <<secretCopy, outcome, generator>>
    BY <1>1 DEF StatusReconcile, memoryVars, rosaVars
  <2>2. ASSUME NEW q \in AutoRequests
        PROVE  step'[q] = step[q]
    BY <1>1, RequestFacts DEF StatusReconcile, TypeOK, RequestsOK
  <2> QED
    BY <2>1, <2>2, QuietStep DEF Keeps
<1>2. CASE ~StatusReconcile(r)
  <2>1. step[r] # "idle" /\ generator' = generator
    BY <1>2 DEF StatusStep, AddCondition, IsManifestWorksAvailable,
                SetImmediateImportCompleted, ReportImported, memoryVars, rosaVars
  <2>2. \/ \E s \in {"idle", "complete", "imported"} : Continue(r, s)
        \/ Requeue(r)
    <3>1. CASE AddCondition(r)
      BY <3>1, Zenon DEF AddCondition, UpdateImportCondition
    <3>2. CASE IsManifestWorksAvailable(r)
      BY <3>2 DEF IsManifestWorksAvailable
    <3>3. CASE SetImmediateImportCompleted(r)
      <4>1. Continue(r, "imported") \/ Requeue(r)
        BY <3>3, Zenon DEF SetImmediateImportCompleted
      <4> QED
        BY <4>1
    <3>4. CASE ReportImported(r)
      <4>1. Continue(r, "idle") \/ Requeue(r)
        BY <3>4, Zenon DEF ReportImported, UpdateImportCondition
      <4> QED
        BY <4>1
    <3> QED
      BY <1>2, <3>1, <3>2, <3>3, <3>4 DEF StatusStep
  <2> QED
    BY <1>0, <2>1, <2>2, MovesKeep
<1> QED
  BY <1>1, <1>2

LEMMA NextSafeInv ==
    ASSUME MaxConcurrentReconciles = 1, IsFiniteSet(Clusters)
    PROVE  TypeOK /\ SafeInv /\ [Next]_vars => SafeInv'
<1> SUFFICES ASSUME TypeOK, SafeInv, [Next]_vars PROVE SafeInv'
  OBVIOUS
<1>1. CASE Restart
  <2>1. \A q \in AutoRequests : step'[q] = "idle" /\ outcome'[q] = NoOutcome
    BY <1>1, RequestFacts DEF Restart
  <2> QED
    BY <2>1, QuietStep DEF Keeps
<1>2. ASSUME NEW c \in Clusters,
             \/ UserStep(c) \/ HubStep(c)
             \/ ClusterSync(c) \/ SecretSync(c) \/ WorksSync(c)
      PROVE  SafeInv'
  BY <1>2, EnvironmentSafe
<1>3. ASSUME NEW r \in AutoRequests, AutoStep(r) PROVE SafeInv'
  BY <1>3, AutoReconcileSafe, ImportSafe, ApplySafe, FinishSafe DEF AutoStep
<1>4. ASSUME NEW r \in StatusRequests, StatusStep(r) PROVE SafeInv'
  BY <1>4, StatusSafe
<1>5. CASE UNCHANGED vars
  BY <1>5, OtherStep DEF vars, memoryVars, rosaVars, requestVars
<1> QED
  BY <1>1, <1>2, <1>3, <1>4, <1>5 DEF Next

(***************************************************************************)
(* With one worker no usable secret is reported invalid, whatever the      *)
(* number of clusters and of secrets of different kinds, although the      *)
(* reconciliations share one import helper.                                *)
(***************************************************************************)
THEOREM OneWorkerNeverFalselyInvalid ==
    ASSUME MaxConcurrentReconciles = 1, IsFiniteSet(Clusters)
    PROVE  Spec => []NeverFalselyInvalid
<1>1. Init => IInv
  BY InitTypeOK, InitSafeInv DEF IInv
<1>2. IInv /\ [Next]_vars => IInv'
  BY NextTypeOK, NextSafeInv DEF IInv
<1>3. IInv => NeverFalselyInvalid
  BY DEF IInv, SafeInv
<1> QED
  BY <1>1, <1>2, <1>3, PTL DEF Spec

-----------------------------------------------------------------------------
(* What a secret has been used for, when it is deleted.                    *)

(* The import has applied the resources. *)
HasApplied(r) ==
    \/ step[r] = "condition" /\ outcome[r].cond = "applied"
    \/ step[r] \in {"cleanup", "url", "delete"}

(* A URL that the cache or a reconciliation has seen in the cluster stays  *)
(* there; what was applied stays applied.                                  *)
SeenOK(r) ==
    /\ cache[r[3]].url => mc[r[3]].url
    /\ copy[r].url => mc[r[3]].url
    /\ HasApplied(r) => r[3] \in applied

UrlOK(r) ==
    secretCopy[r].kind # "rosa" /\ step[r] = "delete" => mc[r[3]].url

UsedInv == \A r \in AutoRequests : SeenOK(r) /\ UrlOK(r)

LEMMA InitUsedInv == Init => UsedInv
BY RequestFacts
DEF Init, UsedInv, SeenOK, HasApplied, UrlOK, NewCluster, NoCopy

(* The hub as an import of d sees it: nothing is taken back. *)
HubGrows(d) ==
    /\ mc[d].url => mc'[d].url
    /\ cache'[d] \in {cache[d], mc[d]}
    /\ d \in applied => d \in applied'

(* The reconciliation of q stays where it is. *)
Stays(q) ==
    /\ step'[q] = step[q] /\ copy'[q] = copy[q]
    /\ secretCopy'[q] = secretCopy[q] /\ outcome'[q] = outcome[q]
OthersStay(r) == \A q \in AutoRequests \ {r} : Stays(q)

(* It stays, or ends. *)
Rests(q) == Stays(q) \/ (step'[q] = "idle" /\ copy'[q] \in {copy[q], NoCopy})

LEMMA RestKeepsUsed ==
    ASSUME NEW q \in AutoRequests, SeenOK(q), UrlOK(q), HubGrows(q[3]), Rests(q)
    PROVE  (SeenOK(q) /\ UrlOK(q))'
<1>1. SeenOK(q)'
  BY DEF SeenOK, HasApplied, HubGrows, Rests, Stays, NoCopy
<1>2. UrlOK(q)'
  BY DEF UrlOK, HubGrows, Rests, Stays
<1> QED BY <1>1, <1>2

(* A write of a cluster removes no URL. *)
LEMMA WriteGrows ==
    ASSUME ClustersOK, NEW c \in Clusters, NEW new, mc[c].url => new.url,
           Write(c, new), applied \subseteq applied'
    PROVE  \A d \in Clusters : HubGrows(d)
<1>1. mc' = [mc EXCEPT ![c] = new] /\ cache' = cache
  BY DEF Write
<1>2. ASSUME NEW d \in Clusters PROVE HubGrows(d)
  <2>1. CASE d = c
    BY <1>1, <2>1 DEF ClustersOK, HubGrows
  <2>2. CASE d # c
    BY <1>1, <2>2 DEF ClustersOK, HubGrows
  <2> QED BY <2>1, <2>2
<1> QED BY <1>2

LEMMA StillGrows ==
    ASSUME UNCHANGED clusterVars, applied \subseteq applied'
    PROVE  \A d \in Clusters : HubGrows(d)
BY DEF HubGrows, clusterVars

LEMMA ConditionGrows ==
    ASSUME ClustersOK, NEW c \in Clusters, NEW cond,
           UpdateImportCondition(c, cond, TRUE, TRUE), applied \subseteq applied'
    PROVE  \A d \in Clusters : HubGrows(d)
<1>1. mc[c].url => [mc[c] EXCEPT !.cond = cond].url
  BY DEF ClustersOK, Cluster
<1>2. UNCHANGED clusterVars \/ Write(c, [mc[c] EXCEPT !.cond = cond])
  BY Zenon DEF UpdateImportCondition
<1> QED BY <1>1, <1>2, WriteGrows, StillGrows

(* A reconciliation that goes on, or returns. *)
LEMMA GotoFacts ==
    ASSUME RequestsOK, NEW r \in AutoRequests, NEW s, Goto(r, s)
    PROVE  /\ step'[r] = s
           /\ s = "idle" => copy'[r] = NoCopy
           /\ s # "idle" => /\ copy'[r] = copy[r]
                            /\ secretCopy'[r] = secretCopy[r]
                            /\ outcome'[r] = outcome[r]
           /\ OthersStay(r)
<1> USE RequestFacts DEF OthersStay, Stays
<1>1. CASE s = "idle"
  BY <1>1 DEF Goto, RequestsOK
<1>2. CASE s # "idle"
  BY <1>2 DEF Goto, RequestsOK
<1> QED BY <1>1, <1>2

LEMMA UsedFrom ==
    ASSUME UsedInv, NEW r \in AutoRequests, \A d \in Clusters : HubGrows(d), OthersStay(r),
           Rests(r) \/ (SeenOK(r) /\ UrlOK(r))'
    PROVE  UsedInv'
<1>1. ASSUME NEW q \in AutoRequests, Rests(q) PROVE (SeenOK(q) /\ UrlOK(q))'
  BY <1>1, RestKeepsUsed, RequestFacts DEF UsedInv
<1>2. ASSUME NEW q \in AutoRequests PROVE (SeenOK(q) /\ UrlOK(q))'
  BY <1>1 DEF OthersStay, Rests
<1> QED BY <1>2 DEF UsedInv

LEMMA EndUsed ==
    ASSUME RequestsOK, UsedInv, NEW r \in AutoRequests, \A d \in Clusters : HubGrows(d),
           Goto(r, "idle")
    PROVE  UsedInv'
BY GotoFacts, UsedFrom DEF Rests

-----------------------------------------------------------------------------
(* What the steps of an import do to it. *)

LEMMA AutoReconcileMoves ==
    ASSUME TypeOK, NEW r \in AutoRequests, AutoReconcile(r), ~Skipped(r[3])
    PROVE  /\ OthersStay(r)
           /\ copy'[r].url = cache[r[3]].url /\ secretCopy'[r] = secretCache[r[3]]
           /\ \/ step'[r] = "condition" /\ outcome'[r].cond = "invalid"
              \/ /\ step'[r] = "import"
                 /\ secretCopy'[r].kind = "rosa" => getters'[r[3]].exists
<1> DEFINE c == r[3]
           read == [NoCopy EXCEPT !.started = cache[c].cond \notin {"none", "wait"},
                                  !.url = cache[c].url]
<1> USE RequestFacts
<1>1. /\ secretCopy' = [secretCopy EXCEPT ![r] = secretCache[c]]
      /\ copy' = [copy EXCEPT ![r] = read]
  BY Zenon DEF AutoReconcile
<1>2. \/ /\ step' = [step EXCEPT ![r] = "condition"]
         /\ outcome' = [outcome EXCEPT ![r] =
                          [cond |-> "invalid", modified |-> FALSE, again |-> TRUE]]
      \/ /\ step' = [step EXCEPT ![r] = "import"]
         /\ getters' = IF secretCache[c].kind = "rosa" /\ ~getters[c].exists
                         THEN [getters EXCEPT ![c] = NewRosaKubeConfigGetter]
                         ELSE getters
         /\ outcome' = outcome
  BY Zenon DEF AutoReconcile
<1>3. read.url = cache[c].url
  BY DEF NoCopy
<1> HIDE DEF read
<1>4. OthersStay(r)
  BY <1>1, <1>2 DEF OthersStay, Stays, TypeOK, RequestsOK
<1>5. copy'[r].url = cache[c].url /\ secretCopy'[r] = secretCache[c]
  BY <1>1, <1>3 DEF TypeOK, RequestsOK
<1>6. \/ step'[r] = "condition" /\ outcome'[r].cond = "invalid"
      \/ /\ step'[r] = "import"
         /\ secretCopy'[r].kind = "rosa" => getters'[c].exists
  <2>1. ASSUME secretCache[c].kind = "rosa", step'[r] = "import" PROVE getters'[c].exists
    BY <1>2, <2>1 DEF NewRosaKubeConfigGetter, NoGetter, TypeOK, RequestsOK, SecretsOK
  <2>2. step'[r] = "import" \/ (step'[r] = "condition" /\ outcome'[r].cond = "invalid")
    BY <1>2 DEF TypeOK, RequestsOK
  <2> QED BY <1>5, <2>1, <2>2
<1> QED BY <1>4, <1>5, <1>6

(* A call of the getter concerns one cluster, and leaves it its getter. *)
HasGetter(r, g) == r.getter.exists = g.exists

LEMMA ResultGetter ==
    ASSUME NEW ok, NEW g, NEW h, NEW a, NEW n, h.exists = g.exists
    PROVE  HasGetter(Result(ok, h, a, n), g)
BY DEF HasGetter, Result

LEMMA TokenKeepsGetter ==
    ASSUME NEW g \in Getter, NEW a, NEW r \in RequestToken(g, a)
    PROVE  HasGetter(r, g)
<1>1. [g EXCEPT !.retries = @ + 1].exists = g.exists
  BY DEF Getter
<1>2. ASSUME NEW q \in shouldRetry(g, a) PROVE HasGetter(q, g)
  <2> DEFINE h == [g EXCEPT !.retries = @ + 1]
  <2>1. q = Result(FALSE, h, a, 0) \/ \E x \in Removals(a) : q = Result(FALSE, g, x.account, x.failures)
    BY <1>2, Zenon DEF shouldRetry
  <2>2. h.exists = g.exists
    BY <1>1
  <2> HIDE DEF h
  <2> QED BY <2>1, <2>2, ResultGetter
<1> QED BY <1>2, ResultGetter DEF RequestToken

LEMMA KubeConfigKeepsGetter ==
    ASSUME NEW g \in Getter, NEW a, NEW r \in KubeConfig(g, a)
    PROVE  HasGetter(r, g)
<1> DEFINE h == [g EXCEPT !.passwd = TRUE]
           users == createImportUserWithHTPasswdIDProvider(g, a)
           with(u) == IF u.ok THEN RequestToken(h, u.account)
                              ELSE {Result(FALSE, g, u.account, 1)}
<1>1. h \in Getter /\ h.exists = g.exists
  BY DEF Getter
<1>2. \/ r = Result(FALSE, g, a, 1)
      \/ r \in RequestToken(g, a)
      \/ r \in UNION {with(u) : u \in users}
  BY Zenon DEF KubeConfig
<1>3. ASSUME NEW u, r \in with(u) PROVE HasGetter(r, g)
  <2>1. CASE r \in RequestToken(h, u.account)
    <3> HIDE DEF h
    <3>1. HasGetter(r, h)
      BY <1>1, <2>1, TokenKeepsGetter
    <3> QED BY <1>1, <3>1 DEF HasGetter
  <2>2. CASE r = Result(FALSE, g, u.account, 1)
    BY <2>2, ResultGetter
  <2> QED BY <1>3, <2>1, <2>2
<1> HIDE DEF users, with, h
<1> QED BY <1>2, <1>3, TokenKeepsGetter, ResultGetter

(* A cleanup that does not fail has removed user and member. *)
LEMMA CleanupRemoves ==
    ASSUME NEW g, NEW a, NEW k \in Cleanup(g, a), k.ok = TRUE
    PROVE  k.account = NoAccount
<1>1. PICK q \in Removals(a) :
        k = Result(q.failures = 0, IF q.failures = 0 THEN NoGetter ELSE g,
                   q.account, q.failures)
  BY Zenon DEF Cleanup
<1>2. q.failures = 0 /\ k.account = q.account
  BY <1>1 DEF Result
<1>3. q = [account |-> NoAccount, failures |-> 0]
  <2>1. ASSUME NEW b, q = [account |-> b, failures |-> 1] PROVE FALSE
    BY <1>2, <2>1
  <2> QED BY <2>1, Zenon DEF Removals
<1> QED BY <1>2, <1>3

LEMMA RosaResult ==
    ASSUME SecretsOK, NEW c \in Clusters, NEW results, Rosa(c, results)
    PROVE  \E k \in results : getters'[c] = k.getter /\ accounts'[c] = k.account
BY DEF Rosa, SecretsOK

LEMMA ReturnFacts ==
    ASSUME RequestsOK, NEW r \in AutoRequests, UNCHANGED <<copy, secretCopy>>,
           NEW cond, NEW modified, NEW again, Returns(r, cond, modified, again)
    PROVE  step'[r] = "condition" /\ outcome'[r].cond = cond /\ OthersStay(r)
BY RequestFacts DEF Returns, OthersStay, Stays, RequestsOK

LEMMA ImportMoves ==
    ASSUME TypeOK, NEW r \in AutoRequests, Import(r)
    PROVE  /\ OthersStay(r) /\ UNCHANGED <<clusterVars, applied, copy, secretCopy>>
           /\ step[r] = "import" /\ getters'[r[3]].exists = getters[r[3]].exists
           /\ \/ step'[r] = "apply"
              \/ step'[r] = "condition" /\ outcome'[r].cond # "applied"
<1> DEFINE c == r[3]
<1> USE RequestFacts
<1>1. /\ step[r] = "import"
      /\ UNCHANGED <<clusterVars, hubVars, copy, secretCopy>>
  BY Zenon DEF Import
<1>2. HasClient(r) => OthersStay(r) /\ step'[r] = "apply"
  BY <1>1 DEF HasClient, OthersStay, Stays, TypeOK, RequestsOK
<1>3. ASSUME NEW cond \in {"importing", "invalid"}, Returns(r, cond, FALSE, TRUE)
      PROVE  OthersStay(r) /\ step'[r] = "condition" /\ outcome'[r].cond # "applied"
  BY <1>1, <1>3, ReturnFacts DEF TypeOK
<1>4. HasClient(r) \/ Returns(r, "importing", FALSE, TRUE) \/ Returns(r, "invalid", FALSE, TRUE)
  BY Zenon DEF Import, GenerateClient, HasClient
<1>5. getters'[c].exists = getters[c].exists
  <2> DEFINE results(ok) == {k \in KubeConfig(getters[c], accounts[c]) : k.ok = ok}
  <2>1. UNCHANGED rosaVars \/ \E ok \in BOOLEAN : Rosa(c, results(ok))
    BY Zenon DEF Import, GenerateClient
  <2>2. ASSUME NEW ok \in BOOLEAN, NEW k \in results(ok) PROVE HasGetter(k, getters[c])
    BY KubeConfigKeepsGetter DEF TypeOK, SecretsOK
  <2> HIDE DEF results
  <2> QED BY <2>1, <2>2, RosaResult DEF HasGetter, rosaVars, TypeOK
<1> QED BY <1>1, <1>2, <1>3, <1>4, <1>5 DEF hubVars

LEMMA ApplyMoves ==
    ASSUME TypeOK, NEW r \in AutoRequests, applyResources(r)
    PROVE  /\ OthersStay(r)
           /\ UNCHANGED <<clusterVars, getters, accounts, copy, secretCopy>>
           /\ step[r] = "apply" /\ step'[r] = "condition"
           /\ applied \subseteq applied'
           /\ outcome'[r].cond = "applied" => r[3] \in applied'
<1> DEFINE c == r[3]
<1> USE RequestFacts
<1>1. /\ step[r] = "apply"
      /\ UNCHANGED <<clusterVars, memoryVars, copy, secretCopy>>
  BY Zenon DEF applyResources
<1>2. applied \subseteq applied'
  BY ApplyReturns
<1>3. PICK cond, modified, again :
        /\ Returns(r, cond, modified, again)
        /\ cond = "applied" => c \in applied'
  <2>1. applied' = applied \cup {c} => c \in applied'
    OBVIOUS
  <2>2. "importing" # "applied" /\ "invalid" # "applied"
        /\ \A cond \in {"failed", "importing"} : cond # "applied"
    OBVIOUS
  <2> QED BY <2>1, <2>2, Zenon DEF applyResources
<1>4. step'[r] = "condition" /\ outcome'[r].cond = cond /\ OthersStay(r)
  BY <1>1, <1>3, ReturnFacts DEF TypeOK
<1> QED BY <1>1, <1>2, <1>3, <1>4 DEF memoryVars, rosaVars

LEMMA UpdateOutcomeGoes ==
    ASSUME TypeOK, NEW r \in AutoRequests, UpdateOutcome(r)
    PROVE  /\ step[r] = "condition" /\ UNCHANGED <<getters, accounts, applied>>
           /\ \A d \in Clusters : HubGrows(d)
           /\ \/ Goto(r, "idle")
              \/ /\ outcome[r].cond = "applied"
                 /\ IF getters[r[3]].exists THEN Goto(r, "cleanup") ELSE Goto(r, "url")
<1> DEFINE c == r[3]
           cond == outcome[r].cond
           next == IF cond # "applied" THEN End(r, outcome[r].again)
                   ELSE Continue(r, IF getters[c].exists THEN "cleanup" ELSE "url")
<1> USE RequestFacts
<1>1. /\ step[r] = "condition"
      /\ UNCHANGED <<hubVars, memoryVars>>
  BY Zenon DEF UpdateOutcome
<1>2. getters' = getters /\ accounts' = accounts /\ applied' = applied
  BY <1>1 DEF hubVars, memoryVars, rosaVars
<1>3. \A d \in Clusters : HubGrows(d)
  BY <1>2, UpdateOutcomeMoves, StillGrows, ConditionGrows DEF TypeOK
<1>4. next \/ Requeue(r)
  BY Zenon DEF UpdateOutcome, UpdateImportCondition
<1>5. CASE cond # "applied"
  <2>1. Goto(r, "idle")
    BY <1>4, <1>5 DEF End, Continue, Requeue
  <2> QED BY <1>1, <1>2, <1>3, <2>1
<1>6. CASE cond = "applied"
  <2>1. Goto(r, "idle") \/ (IF getters[c].exists THEN Goto(r, "cleanup") ELSE Goto(r, "url"))
    BY <1>4, <1>6 DEF Continue, Requeue
  <2> QED BY <1>1, <1>2, <1>3, <1>6, <2>1
<1> QED BY <1>5, <1>6

LEMMA CleanupMoves ==
    ASSUME TypeOK, NEW r \in AutoRequests, CleanupRosa(r)
    PROVE  /\ step[r] = "cleanup" /\ UNCHANGED <<clusterVars, applied>>
           /\ \/ Goto(r, "idle")
              \/ Goto(r, "url") /\ accounts'[r[3]] = NoAccount
<1> DEFINE c == r[3]
           results(ok) == {k \in Cleanup(getters[c], accounts[c]) : k.ok = ok}
<1>1. /\ step[r] = "cleanup"
      /\ UNCHANGED <<clusterVars, hubVars>>
  BY Zenon DEF CleanupRosa
<1>2. PICK ok \in BOOLEAN :
        /\ Rosa(c, results(ok))
        /\ IF ok THEN Continue(r, "url") ELSE Requeue(r)
  BY Zenon DEF CleanupRosa
<1>3. ASSUME ok = TRUE, NEW k \in results(ok) PROVE k.account = NoAccount
  BY <1>3, CleanupRemoves
<1> HIDE DEF results
<1>4. ok = FALSE => Goto(r, "idle")
  BY <1>2 DEF Requeue
<1>5. ok = TRUE => Goto(r, "url")
  BY <1>2 DEF Continue
<1>6. PICK k \in results(ok) : accounts'[c] = k.account
  <2>1. SecretsOK /\ c \in Clusters
    BY RequestFacts DEF TypeOK
  <2> HIDE DEF c
  <2> QED BY <1>2, <2>1, RosaResult
<1> QED BY <1>1, <1>3, <1>4, <1>5, <1>6 DEF hubVars

LEMMA UpdateURLMoves ==
    ASSUME TypeOK, NEW r \in AutoRequests, updateClusterURL(r)
    PROVE  /\ step[r] = "url" /\ UNCHANGED <<getters, accounts, applied>>
           /\ \A d \in Clusters : HubGrows(d)
           /\ \/ Goto(r, "idle")
              \/ /\ Goto(r, "delete")
                 /\ secretCopy[r].kind = "rosa" \/ mc'[r[3]].url \/ (copy[r].url /\ mc' = mc)
<1> DEFINE c == r[3]
           new == [mc[c] EXCEPT !.url = TRUE]
<1> USE RequestFacts
<1>1. /\ step[r] = "url"
      /\ UNCHANGED <<hubVars, memoryVars>>
  BY Zenon DEF updateClusterURL
<1>2. getters' = getters /\ accounts' = accounts /\ applied' = applied
  BY <1>1 DEF hubVars, memoryVars, rosaVars
<1>3. mc[c] \in Cluster /\ mc \in [Clusters -> Cluster]
  BY DEF TypeOK, ClustersOK
<1>4. new.url = TRUE
  BY <1>3 DEF Cluster
<1>5. \/ UNCHANGED clusterVars /\ Requeue(r)
      \/ /\ UNCHANGED clusterVars /\ Continue(r, "delete")
         /\ secretCopy[r].kind = "rosa" \/ copy[r].url
      \/ Write(c, new) /\ Continue(r, "delete")
  BY Zenon DEF updateClusterURL
<1> HIDE DEF new
<1>6. \A d \in Clusters : HubGrows(d)
  BY <1>2, <1>4, <1>5, StillGrows, WriteGrows DEF TypeOK
<1>7. Write(c, new) => mc'[c].url
  BY <1>3, <1>4 DEF Write
<1>8. \/ Goto(r, "idle")
      \/ /\ Goto(r, "delete")
         /\ secretCopy[r].kind = "rosa" \/ mc'[c].url \/ (copy[r].url /\ mc' = mc)
  BY <1>5, <1>7 DEF Requeue, Continue, clusterVars
<1> QED BY <1>1, <1>2, <1>6, <1>8

LEMMA DeleteMoves ==
    ASSUME NEW r \in AutoRequests, DeleteAutoImportSecret(r)
    PROVE  /\ step[r] # "idle" /\ UNCHANGED <<clusterVars, applied, getters, accounts>>
           /\ Goto(r, "idle")
<1>1. step[r] # "idle" /\ UNCHANGED <<clusterVars, applied, getters, accounts>>
  BY DEF DeleteAutoImportSecret, memoryVars, rosaVars
<1>2. Goto(r, "idle")
  BY Zenon DEF DeleteAutoImportSecret, End, Continue, Requeue
<1> QED BY <1>1, <1>2

-----------------------------------------------------------------------------
(* The resources and the URL, for any number of workers. *)

LEMMA AutoReconcileUsed ==
    ASSUME TypeOK, UsedInv, NEW r \in AutoRequests, AutoReconcile(r)
    PROVE  UsedInv'
<1> DEFINE c == r[3]
<1>1. mc' = mc /\ cache' = cache /\ applied' = applied
  BY DEF AutoReconcile, hubVars
<1>2. \A d \in Clusters : HubGrows(d)
  BY <1>1 DEF HubGrows
<1>3. CASE Skipped(c)
  BY <1>2, <1>3, UsedFrom DEF AutoReconcile, OthersStay, Rests, Stays
<1>4. CASE ~Skipped(c)
  <2>1. SeenOK(r)' /\ UrlOK(r)'
    BY <1>1, <1>4, AutoReconcileMoves DEF SeenOK, HasApplied, UrlOK, UsedInv
  <2> QED BY <1>2, <1>4, <2>1, AutoReconcileMoves, UsedFrom
<1> QED BY <1>3, <1>4

LEMMA ImportUsed ==
    ASSUME TypeOK, UsedInv, NEW r \in AutoRequests, Import(r)
    PROVE  UsedInv'
<1>1. SeenOK(r)' /\ UrlOK(r)'
  BY ImportMoves DEF SeenOK, HasApplied, UrlOK, UsedInv, clusterVars
<1> QED BY <1>1, ImportMoves, StillGrows, UsedFrom

LEMMA ApplyUsed ==
    ASSUME TypeOK, UsedInv, NEW r \in AutoRequests, applyResources(r)
    PROVE  UsedInv'
<1>1. SeenOK(r)' /\ UrlOK(r)'
  BY ApplyMoves DEF SeenOK, HasApplied, UrlOK, UsedInv, clusterVars
<1> QED BY <1>1, ApplyMoves, StillGrows, UsedFrom

LEMMA UpdateOutcomeUsed ==
    ASSUME TypeOK, UsedInv, NEW r \in AutoRequests, UpdateOutcome(r)
    PROVE  UsedInv'
<1>1. CASE Goto(r, "idle")
  BY <1>1, UpdateOutcomeGoes, EndUsed DEF TypeOK
<1>2. ASSUME NEW s \in {"cleanup", "url"}, Goto(r, s), outcome[r].cond = "applied"
      PROVE  UsedInv'
  <2>1. r[3] \in Clusters
    BY RequestFacts
  <2>2. step'[r] = s /\ copy'[r] = copy[r] /\ OthersStay(r)
    BY <1>2, GotoFacts DEF TypeOK
  <2>3. SeenOK(r)' /\ UrlOK(r)'
    BY <1>2, <2>1, <2>2, UpdateOutcomeGoes DEF SeenOK, HasApplied, UrlOK, UsedInv, HubGrows
  <2> QED BY <2>2, <2>3, UpdateOutcomeGoes, UsedFrom
<1> QED BY <1>1, <1>2, UpdateOutcomeGoes

LEMMA CleanupUsed ==
    ASSUME TypeOK, UsedInv, NEW r \in AutoRequests, CleanupRosa(r)
    PROVE  UsedInv'
<1>1. \A d \in Clusters : HubGrows(d)
  BY CleanupMoves, StillGrows
<1>2. CASE Goto(r, "idle")
  BY <1>1, <1>2, EndUsed DEF TypeOK
<1>3. CASE Goto(r, "url")
  <2>1. step'[r] = "url" /\ copy'[r] = copy[r] /\ OthersStay(r)
    BY <1>3, GotoFacts DEF TypeOK
  <2>2. SeenOK(r)' /\ UrlOK(r)'
    BY <2>1, CleanupMoves DEF SeenOK, HasApplied, UrlOK, UsedInv, clusterVars
  <2> QED BY <1>1, <2>1, <2>2, UsedFrom
<1> QED BY <1>2, <1>3, CleanupMoves

LEMMA UpdateURLUsed ==
    ASSUME TypeOK, UsedInv, NEW r \in AutoRequests, updateClusterURL(r)
    PROVE  UsedInv'
<1>1. CASE Goto(r, "idle")
  BY <1>1, UpdateURLMoves, EndUsed DEF TypeOK
<1>2. CASE Goto(r, "delete") /\ (secretCopy[r].kind = "rosa" \/ mc'[r[3]].url
                                   \/ (copy[r].url /\ mc' = mc))
  <2>1. r[3] \in Clusters
    BY RequestFacts
  <2>2. /\ step'[r] = "delete" /\ copy'[r] = copy[r] /\ secretCopy'[r] = secretCopy[r]
        /\ OthersStay(r)
    BY <1>2, GotoFacts DEF TypeOK
  <2>3. SeenOK(r)'
    BY <2>1, <2>2, UpdateURLMoves DEF SeenOK, HasApplied, UsedInv, HubGrows
  <2>4. UrlOK(r)'
    BY <1>2, <2>2 DEF SeenOK, UrlOK, UsedInv
  <2> QED BY <2>2, <2>3, <2>4, UpdateURLMoves, UsedFrom
<1> QED BY <1>1, <1>2, UpdateURLMoves

LEMMA DeleteUsed ==
    ASSUME TypeOK, UsedInv, NEW r \in AutoRequests, DeleteAutoImportSecret(r)
    PROVE  UsedInv'
BY DeleteMoves, StillGrows, EndUsed DEF TypeOK

(* The steps of the others. *)
LEMMA AllRest ==
    ASSUME UsedInv, \A d \in Clusters : HubGrows(d), \A q \in AutoRequests : Rests(q)
    PROVE  UsedInv'
BY RestKeepsUsed, RequestFacts DEF UsedInv

LEMMA EnvironmentStays ==
    ASSUME NEW c \in Clusters,
           \/ UserStep(c) \/ HubStep(c)
           \/ ClusterSync(c) \/ SecretSync(c) \/ WorksSync(c)
    PROVE  /\ UNCHANGED <<getters, accounts, applied>>
           /\ \A q \in AutoRequests : Stays(q)
<1>1. UNCHANGED <<step, copy, secretCopy, outcome, getters, accounts, applied>>
  BY DEF UserStep, UserProvidesSecret, UserRequestsImmediateImport,
         UserDisablesAutoImport, HubStep, ImportSecretCreated, ImportSecretLost,
         WorksCreated, AgentReports, ClusterSync, SecretSync, WorksSync,
         hubVars, memoryVars, rosaVars, requestVars
<1> QED BY <1>1 DEF Stays

LEMMA EnvironmentUsed ==
    ASSUME TypeOK, UsedInv, NEW c \in Clusters,
           \/ UserStep(c) \/ HubStep(c)
           \/ ClusterSync(c) \/ SecretSync(c) \/ WorksSync(c)
    PROVE  UsedInv'
<1>1. applied' = applied /\ \A q \in AutoRequests : Rests(q)
  BY EnvironmentStays DEF Rests
<1>2. \/ UNCHANGED clusterVars
      \/ \E new \in {[mc[c] EXCEPT !.immediate = "requested"],
                     [mc[c] EXCEPT !.disabled = TRUE],
                     [mc[c] EXCEPT !.disabled = FALSE]} : Write(c, new)
      \/ ClusterSync(c)
  <2>1. ASSUME NEW disabled \in BOOLEAN, UserDisablesAutoImport(c, disabled)
        PROVE  \/ Write(c, [mc[c] EXCEPT !.disabled = TRUE])
               \/ Write(c, [mc[c] EXCEPT !.disabled = FALSE])
    BY <2>1 DEF UserDisablesAutoImport
  <2> QED
    BY <2>1, Zenon DEF UserStep, UserProvidesSecret, UserRequestsImmediateImport,
         HubStep, ImportSecretCreated, ImportSecretLost,
         WorksCreated, AgentReports, SecretSync, WorksSync
<1>3. \A d \in Clusters : HubGrows(d)
  <2>1. CASE ClusterSync(c)
    BY <1>1, <2>1 DEF ClusterSync, HubGrows, TypeOK, ClustersOK
  <2>2. \A new \in {[mc[c] EXCEPT !.immediate = "requested"],
                    [mc[c] EXCEPT !.disabled = TRUE],
                    [mc[c] EXCEPT !.disabled = FALSE]} : new.url = mc[c].url
    BY DEF TypeOK, ClustersOK, Cluster
  <2> QED BY <1>1, <1>2, <2>1, <2>2, StillGrows, WriteGrows DEF TypeOK
<1> QED BY <1>1, <1>3, AllRest

LEMMA StatusStays ==
    ASSUME TypeOK, NEW r \in StatusRequests, StatusStep(r)
    PROVE  /\ UNCHANGED <<getters, accounts, applied>>
           /\ \A q \in AutoRequests : Stays(q)
<1> USE RequestFacts
<1>1. UNCHANGED <<getters, accounts, applied>>
  BY DEF StatusStep, StatusReconcile, AddCondition, IsManifestWorksAvailable,
         SetImmediateImportCompleted, ReportImported, hubVars, memoryVars, rosaVars
<1>2. \/ \E s : Goto(r, s)
      \/ /\ \E new : copy' = [copy EXCEPT ![r] = new]
         /\ \E s : step' = [step EXCEPT ![r] = s]
         /\ UNCHANGED <<secretCopy, outcome>>
  BY Zenon DEF StatusStep, StatusReconcile, AddCondition, IsManifestWorksAvailable,
       SetImmediateImportCompleted, ReportImported, UpdateImportCondition,
       Continue, Requeue
<1>3. /\ \E s : step' = [step EXCEPT ![r] = s]
      /\ copy' = copy \/ \E new : copy' = [copy EXCEPT ![r] = new]
      /\ UNCHANGED <<secretCopy, outcome>>
  BY <1>2 DEF Goto
<1>4. \A q \in AutoRequests : Stays(q)
  BY <1>3 DEF Stays, TypeOK, RequestsOK
<1> QED BY <1>1, <1>4

LEMMA StatusUsed ==
    ASSUME TypeOK, UsedInv, NEW r \in StatusRequests, StatusStep(r)
    PROVE  UsedInv'
<1> DEFINE c == r[3]
<1> USE RequestFacts
<1>1. applied' = applied /\ \A q \in AutoRequests : Rests(q)
  BY StatusStays DEF Rests
<1>2. \A d \in Clusters : HubGrows(d)
  <2>1. [mc[c] EXCEPT !.immediate = "completed"].url = mc[c].url
    BY DEF TypeOK, ClustersOK, Cluster
  <2>2. \/ UNCHANGED clusterVars
        \/ UpdateImportCondition(c, "wait", TRUE, TRUE)
        \/ UpdateImportCondition(c, "imported", TRUE, TRUE)
        \/ Write(c, [mc[c] EXCEPT !.immediate = "completed"])
    BY Zenon DEF StatusStep, StatusReconcile, AddCondition, IsManifestWorksAvailable,
         SetImmediateImportCompleted, ReportImported, UpdateImportCondition
  <2> QED BY <1>1, <2>1, <2>2, StillGrows, ConditionGrows, WriteGrows DEF TypeOK
<1> QED BY <1>1, <1>2, AllRest

LEMMA NextUsedInv == TypeOK /\ UsedInv /\ [Next]_vars => UsedInv'
<1> SUFFICES ASSUME TypeOK, UsedInv, [Next]_vars PROVE UsedInv'
  OBVIOUS
<1>1. CASE Restart
  <2>1. \A d \in Clusters : HubGrows(d)
    BY <1>1 DEF Restart, HubGrows, hubVars
  <2>2. \A q \in AutoRequests : Rests(q)
    BY <1>1, RequestFacts DEF Restart, Rests
  <2> QED BY <2>1, <2>2, AllRest
<1>2. ASSUME NEW c \in Clusters,
             \/ UserStep(c) \/ HubStep(c)
             \/ ClusterSync(c) \/ SecretSync(c) \/ WorksSync(c)
      PROVE  UsedInv'
  BY <1>2, EnvironmentUsed
<1>3. ASSUME NEW r \in AutoRequests, AutoStep(r) PROVE UsedInv'
  BY <1>3, AutoReconcileUsed, ImportUsed, ApplyUsed, UpdateOutcomeUsed,
     CleanupUsed, UpdateURLUsed, DeleteUsed
  DEF AutoStep
<1>4. ASSUME NEW r \in StatusRequests, StatusStep(r) PROVE UsedInv'
  BY <1>4, StatusUsed
<1>5. CASE UNCHANGED vars
  <2>1. \A d \in Clusters : HubGrows(d)
    BY <1>5 DEF HubGrows, vars, clusterVars, hubVars
  <2>2. \A q \in AutoRequests : Rests(q)
    BY <1>5 DEF Rests, Stays, vars, requestVars
  <2> QED BY <2>1, <2>2, AllRest
<1> QED BY <1>1, <1>2, <1>3, <1>4, <1>5 DEF Next

(***************************************************************************)
(* SecretIsUsedUp: when the auto-import secret is about to be deleted, the *)
(* resources are applied and the URL of a cluster that is not a ROSA one   *)
(* is recorded, although several workers may serve the two requests of a   *)
(* cluster, for every set of clusters and secrets and any number of        *)
(* workers, retries and disturbances.                                      *)
(***************************************************************************)
THEOREM SecretsAreUsedUp == Spec => []SecretIsUsedUp
<1>1. Init => TypeOK /\ UsedInv
  BY InitTypeOK, InitUsedInv
<1>2. TypeOK /\ UsedInv /\ [Next]_vars => (TypeOK /\ UsedInv)'
  BY NextTypeOK, NextUsedInv
<1>3. UsedInv => SecretIsUsedUp
  BY DEF UsedInv, SeenOK, HasApplied, UrlOK, SecretIsUsedUp
<1> QED BY <1>1, <1>2, <1>3, PTL DEF Spec

-----------------------------------------------------------------------------
(* The administrator of a ROSA cluster, with one worker. *)

(* A ROSA import has a getter until it cleans up, and so it does clean up. *)
GetterOK(r) ==
    secretCopy[r].kind = "rosa" =>
        /\ step[r] \in {"import", "apply"} => getters[r[3]].exists
        /\ step[r] = "condition" /\ outcome[r].cond = "applied"
             => getters[r[3]].exists
        /\ step[r] \in {"url", "delete"} => accounts[r[3]] = NoAccount

GetterInv == \A r \in AutoRequests : GetterOK(r)

LEMMA InitGetterInv == Init => GetterInv
BY RequestFacts DEF Init, GetterInv, GetterOK

(* The steps that change getters and accounts are those of the only        *)
(* reconciliation that is under way.                                       *)
LEMMA OnlyOne ==
    ASSUME SafeInv, NEW r \in AutoRequests, step[r] # "idle", OthersStay(r), GetterOK(r)'
    PROVE  GetterInv'
BY DEF GetterInv, GetterOK, OthersStay, Stays, SafeInv, OneReconciliation

LEMMA Ends ==
    ASSUME TypeOK, SafeInv, NEW r \in AutoRequests, step[r] # "idle", Goto(r, "idle")
    PROVE  GetterInv'
<1>1. GetterOK(r)'
  BY GotoFacts DEF GetterOK, TypeOK
<1> QED BY <1>1, GotoFacts, OnlyOne DEF TypeOK

LEMMA GoesOn ==
    ASSUME TypeOK, SafeInv, NEW r \in AutoRequests, step[r] # "idle",
           \/ Goto(r, "cleanup")
           \/ \E s \in {"url", "delete"} :
                /\ Goto(r, s)
                /\ secretCopy[r].kind = "rosa" => accounts'[r[3]] = NoAccount
    PROVE  GetterInv'
<1>1. PICK s \in {"cleanup", "url", "delete"} :
        /\ Goto(r, s)
        /\ secretCopy[r].kind = "rosa" /\ s # "cleanup" => accounts'[r[3]] = NoAccount
  OBVIOUS
<1>2. step'[r] = s /\ secretCopy'[r] = secretCopy[r] /\ OthersStay(r)
  BY <1>1, GotoFacts DEF TypeOK
<1>3. GetterOK(r)'
  BY <1>1, <1>2 DEF GetterOK
<1> QED BY <1>2, <1>3, OnlyOne

LEMMA AutoStepGetter ==
    ASSUME TypeOK, SafeInv, GetterInv, NEW r \in AutoRequests, AutoStep(r),
           MaxConcurrentReconciles = 1, IsFiniteSet(Clusters)
    PROVE  GetterInv'
<1> DEFINE c == r[3]
<1>1. CASE AutoReconcile(r)
  <2>1. CASE Skipped(c)
    BY <1>1, <2>1 DEF AutoReconcile, memoryVars, rosaVars, GetterInv, GetterOK
  <2>2. CASE ~Skipped(c)
    <3>1. \A q \in AutoRequests : step[q] = "idle"
      BY <1>1, NobodyUnderWay DEF AutoReconcile
    <3>2. GetterOK(r)'
      BY <1>1, <2>2, AutoReconcileMoves DEF GetterOK
    <3> QED
      BY <1>1, <2>2, <3>1, <3>2, AutoReconcileMoves DEF GetterInv, GetterOK, OthersStay, Stays
  <2> QED BY <2>1, <2>2
<1>2. CASE Import(r)
  <2>1. GetterOK(r)'
    BY <1>2, ImportMoves DEF GetterInv, GetterOK
  <2> QED BY <1>2, <2>1, ImportMoves, OnlyOne
<1>3. CASE applyResources(r)
  <2>1. GetterOK(r)'
    BY <1>3, ApplyMoves DEF GetterInv, GetterOK
  <2> QED BY <1>3, <2>1, ApplyMoves, OnlyOne
<1>4. CASE UpdateOutcome(r)
  <2>1. getters[c].exists \/ secretCopy[r].kind # "rosa" \/ outcome[r].cond # "applied"
    BY <1>4, UpdateOutcomeGoes DEF GetterInv, GetterOK
  <2> QED BY <1>4, <2>1, UpdateOutcomeGoes, Ends, GoesOn
<1>5. CASE CleanupRosa(r)
  BY <1>5, CleanupMoves, Ends, GoesOn
<1>6. CASE updateClusterURL(r)
  <2>1. secretCopy[r].kind = "rosa" => accounts[c] = NoAccount
    BY <1>6, UpdateURLMoves DEF GetterInv, GetterOK
  <2> QED BY <1>6, <2>1, UpdateURLMoves, Ends, GoesOn
<1>7. CASE DeleteAutoImportSecret(r)
  BY <1>7, DeleteMoves, Ends
<1> QED BY <1>1, <1>2, <1>3, <1>4, <1>5, <1>6, <1>7 DEF AutoStep

(* The others leave getters and accounts alone. *)
LEMMA OthersGetter ==
    ASSUME GetterInv, UNCHANGED <<getters, accounts>>, \A q \in AutoRequests : Stays(q)
    PROVE  GetterInv'
BY DEF GetterInv, GetterOK, Stays

LEMMA NextGetterInv ==
    ASSUME MaxConcurrentReconciles = 1, IsFiniteSet(Clusters)
    PROVE  IInv /\ GetterInv /\ [Next]_vars => GetterInv'
<1> SUFFICES ASSUME TypeOK, SafeInv, GetterInv, [Next]_vars PROVE GetterInv'
  BY DEF IInv
<1>1. CASE Restart
  BY <1>1, RequestFacts DEF Restart, GetterInv, GetterOK
<1>2. ASSUME NEW c \in Clusters,
             \/ UserStep(c) \/ HubStep(c)
             \/ ClusterSync(c) \/ SecretSync(c) \/ WorksSync(c)
      PROVE  GetterInv'
  BY <1>2, EnvironmentStays, OthersGetter
<1>3. ASSUME NEW r \in AutoRequests, AutoStep(r) PROVE GetterInv'
  BY <1>3, AutoStepGetter
<1>4. ASSUME NEW r \in StatusRequests, StatusStep(r) PROVE GetterInv'
  BY <1>4, StatusStays, OthersGetter
<1>5. CASE UNCHANGED vars
  BY <1>5, OthersGetter DEF vars, memoryVars, rosaVars, requestVars, Stays
<1> QED BY <1>1, <1>2, <1>3, <1>4, <1>5 DEF Next

(***************************************************************************)
(* AdministratorIsRemoved: with one worker for the two requests of each    *)
(* cluster, the temporary administrator of a ROSA cluster is gone when the *)
(* auto-import secret is about to be deleted, for every set of clusters    *)
(* and secrets and any number of retries, failed calls and restarts.       *)
(***************************************************************************)
THEOREM OneWorkerRemovesAdministrators ==
    ASSUME MaxConcurrentReconciles = 1, IsFiniteSet(Clusters)
    PROVE  Spec => []AdministratorIsRemoved
<1>1. Init => IInv /\ GetterInv
  BY InitTypeOK, InitSafeInv, InitGetterInv DEF IInv
<1>2. IInv /\ GetterInv /\ [Next]_vars => (IInv /\ GetterInv)'
  BY NextTypeOK, NextSafeInv, NextGetterInv DEF IInv
<1>3. GetterInv => AdministratorIsRemoved
  BY DEF GetterInv, GetterOK, AdministratorIsRemoved
<1> QED BY <1>1, <1>2, <1>3, PTL DEF Spec
=============================================================================
