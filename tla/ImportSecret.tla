---------------------------- MODULE ImportSecret ----------------------------
(***************************************************************************)
(* importconfig-controller: the import secret of one managed cluster.      *)
(*                                                                         *)
(* The secret holds the manifests of the agent and a bootstrap kubeconfig  *)
(* with a token of the cluster's bootstrap service account.  The           *)
(* controller rebuilds both whenever one of their inputs changes, and      *)
(* replaces the token when a fifth of its life is left.  Nothing requeues  *)
(* a cluster at that time: the controller relies on the resync of the      *)
(* informer that watches the import secrets.                               *)
(*                                                                         *)
(* A cluster has two requests, which two workers may serve at a time: the  *)
(* events of import secrets are queued under <namespace>/<name>, all       *)
(* others under <name>.  The cluster exists throughout.                    *)
(***************************************************************************)
EXTENDS KlusterletManifests, Integers, FiniteSets

CONSTANTS
    Hubs, Configs, ManagedClusters, \* what users may write
    HostedGate,                 \* the feature gate of the Hosted mode
    TokenLife,                  \* ticks a requested token is valid for
    ResyncPeriod,               \* ticks between resyncs of the informer
    MaxDelay,                   \* ticks until a request that can be served is
    MaxConcurrentReconciles,    \* workers
    MaxEdits                    \* bound: edits, failures and restarts

(* A token's refresh threshold. *)
Threshold == TokenLife \div 5

ASSUME TokenAssumption ==
    /\ TokenLife \in Nat \ {0}
    /\ ResyncPeriod \in Nat \ {0} /\ MaxDelay \in Nat
    /\ ResyncPeriod + MaxDelay <= TokenLife \div 5
    /\ MaxConcurrentReconciles \in Nat \ {0} /\ MaxEdits \in Nat
    /\ \A m \in ManagedClusters : m.assigned \in BOOLEAN

(* trustedCABundles is a field of hubKubeAPIServerConfig, a map by name. *)
ASSUME ConfigsAssumption ==
    \A c \in Configs :
        /\ c.config \in BOOLEAN /\ (~c.config => c.bundles = {})
        /\ \A b, d \in c.bundles : b.name = d.name => b = d

Names == {"global", "named"}
Requests == {"cluster", "namespace"}

VARIABLES
    hub,                \* what the controller reads of the hub
    mc, indexed,        \* the cluster; the index by assigned KlusterletConfig
    specs, listed,      \* the KlusterletConfigs: API server, lister
    account,            \* the bootstrap service account exists
    legacy,             \* its legacy token secret: "none", "valid", "invalid"
    secret, values,     \* the import secret, the config secret
    queue, step, built, \* the requests, where each one is, what it built
    resyncIn,           \* ticks until the next resync
    late,               \* ticks the queue has not been empty for
    overdue,            \* a request could not be served in time
    edits

hubVars == <<hub, mc, specs>>
listerVars == <<indexed, listed>>
tokenVars == <<account, legacy>>
requestVars == <<queue, step, built>>
timeVars == <<resyncIn, late, overdue>>
vars == <<hubVars, listerVars, tokenVars, secret, values, requestVars, timeVars,
          edits>>

(* left: ticks until a requested token expires; alive: its account and, of *)
(* a legacy token, its secret are still there.                             *)
NoToken == [kind |-> "none", left |-> 0, alive |-> FALSE]
LegacyToken == [kind |-> "legacy", left |-> 0, alive |-> TRUE]
RequestedToken == [kind |-> "requested", left |-> TokenLife, alive |-> TRUE]
Token == [kind: {"none", "legacy", "requested"}, left: 0 .. TokenLife,
          alive: BOOLEAN]

NoSecret == [manifests |-> NoManifests, token |-> NoToken]
Kill(s) == [manifests |-> s.manifests, token |-> [s.token EXCEPT !.alive = FALSE]]

(* Mutant: the time left is not checked against zero. *)
AgeUnchecked(s) ==
    [manifests |-> s.manifests, token |-> [s.token EXCEPT !.left = @ - 1]]

Age(s) ==
    [manifests |-> s.manifests,
     token |-> [s.token EXCEPT !.left = IF @ > 0 THEN @ - 1 ELSE 0]]

Steps == {"idle", "rbac", "build", "apply", "values"}

Init ==
    /\ hub \in Hubs /\ mc \in ManagedClusters
    /\ specs \in [Names -> Configs]
    /\ indexed = mc.assigned /\ listed = specs
    /\ \/ account = FALSE /\ legacy = "none"
       \/ account = TRUE /\ legacy = "valid"      \* from an older hub
    /\ secret = NoSecret /\ values = NoSecret
    /\ queue = {"cluster"}
    /\ step = [r \in Requests |-> "idle"]
    /\ built = [r \in Requests |-> NoSecret]
    /\ resyncIn = ResyncPeriod /\ late = 0 /\ overdue = FALSE
    /\ edits = 0

-----------------------------------------------------------------------------
(* What users and the hub do, and whom it wakes up. *)

Edit == edits < MaxEdits /\ edits' = edits + 1
Enqueue(requests) == queue' = queue \cup requests

(* The KlusterletConfigs under which the index finds the cluster. *)
IndexManagedClusterByKlusterletconfigAnnotation ==
    {"global"} \cup IF indexed THEN {"named"} ELSE {}

UserEditsSpec(n, config) ==
    /\ Edit
    /\ config # specs[n]
    /\ specs' = [specs EXCEPT ![n] = config]
    /\ Enqueue(IF n \in IndexManagedClusterByKlusterletconfigAnnotation
                 THEN {"cluster"} ELSE {})
    /\ UNCHANGED <<hub, mc, listerVars, tokenVars, secret, values, step, built,
                   timeVars>>

(* The mode and the self-managed label stay; labels and annotations count. *)
UserEditsCluster(m) ==
    /\ Edit
    /\ m # mc /\ m.mode = mc.mode /\ m.selfManaged = mc.selfManaged
    /\ mc' = m
    /\ Enqueue({"cluster"})
    /\ UNCHANGED <<hub, specs, listerVars, tokenVars, secret, values, step,
                   built, timeVars>>

(* Every event of a kubeconfig secret wakes up the clusters that use it.   *)
BootstrapKubeConfigSecretChanged(h, n) ==
    \E s \in listed[n].others :
        \/ (s \in DOMAIN hub.secrets) # (s \in DOMAIN h.secrets)
        \/ /\ s \in DOMAIN hub.secrets /\ s \in DOMAIN h.secrets
           /\ hub.secrets[s] # h.secrets[s]

(* Of a CA ConfigMap only creation and deletion do: the watch delivers its *)
(* metadata, and the predicate for updates wants the ConfigMap itself.     *)
CustomizedCAConfigmapChanged(h, n) ==
    \E b \in listed[n].bundles :
        (b.map \in DOMAIN hub.maps) # (b.map \in DOMAIN h.maps)

(* Nothing else on the hub is watched. *)
AdminChangesHub(h) ==
    /\ Edit
    /\ h # hub
    /\ hub' = h
    /\ Enqueue(IF \E n \in IndexManagedClusterByKlusterletconfigAnnotation :
                      \/ BootstrapKubeConfigSecretChanged(h, n)
                      \/ CustomizedCAConfigmapChanged(h, n)
                 THEN {"cluster"} ELSE {})
    /\ UNCHANGED <<mc, specs, listerVars, tokenVars, secret, values, step, built,
                   timeVars>>

(* Its tokens die with the account. *)
AccountDeleted ==
    /\ Edit
    /\ account /\ account' = FALSE /\ legacy' = "none"
    /\ secret' = Kill(secret) /\ values' = Kill(values)
    /\ built' = [r \in Requests |-> Kill(built[r])]
    /\ Enqueue({"cluster"})
    /\ UNCHANGED <<hubVars, listerVars, step, timeVars>>

(* An old hub makes a legacy token; the hub may declare it invalid. *)
LegacyTokenChanges ==
    /\ Edit
    /\ account
    /\ \/ legacy = "none" /\ legacy' = "valid"
       \/ legacy = "valid" /\ legacy' = "invalid"
    /\ UNCHANGED <<hubVars, listerVars, account, secret, values, requestVars,
                   timeVars>>

SecretLost ==
    /\ Edit
    /\ \/ secret # NoSecret /\ secret' = NoSecret /\ UNCHANGED values
       \/ values # NoSecret /\ values' = NoSecret /\ UNCHANGED secret
    /\ Enqueue({"namespace"})
    /\ UNCHANGED <<hubVars, listerVars, tokenVars, step, built, timeVars>>

(* The informers start anew; a cluster's creation is an event, that of an  *)
(* import secret is not.                                                   *)
Restart ==
    /\ Edit
    /\ queue' = {"cluster"}
    /\ step' = [r \in Requests |-> "idle"]
    /\ built' = [r \in Requests |-> NoSecret]
    /\ listed' = specs /\ indexed' = mc.assigned
    /\ resyncIn' = ResyncPeriod
    /\ UNCHANGED <<hubVars, tokenVars, secret, values, late, overdue>>

-----------------------------------------------------------------------------
(* The informers. *)

ListerSync ==
    /\ listed # specs /\ listed' = specs
    /\ UNCHANGED <<hubVars, indexed, tokenVars, secret, values, requestVars,
                   timeVars, edits>>

IndexSync ==
    /\ indexed # mc.assigned /\ indexed' = mc.assigned
    /\ UNCHANGED <<hubVars, listed, tokenVars, secret, values, requestVars,
                   timeVars, edits>>

(* Mutant: the predicate drops updates that change nothing. *)
ResyncFiltered ==
    /\ resyncIn = 0 /\ resyncIn' = ResyncPeriod
    /\ UNCHANGED <<hubVars, listerVars, tokenVars, secret, values, requestVars,
                   late, overdue, edits>>

(* Every resync is an update of each import secret. *)
Resync ==
    /\ resyncIn = 0 /\ resyncIn' = ResyncPeriod
    /\ Enqueue(IF secret # NoSecret \/ values # NoSecret THEN {"namespace"}
                                                         ELSE {})
    /\ UNCHANGED <<hubVars, listerVars, tokenVars, secret, values, step, built,
                   late, overdue, edits>>

-----------------------------------------------------------------------------
(* Reconcile. *)

(* GetMergedKlusterletConfigWithGlobal *)
MergedConfig(configs) ==
    MergeKlusterletConfigs(configs["global"],
                           IF mc.assigned THEN configs["named"] ELSE NoConfig)

(* Mutant: the manifests are searched for another name. *)
extractCurrentHub ==
    IF secret = NoSecret THEN {}
      ELSE {p[2] : p \in {q \in secret.manifests.kubeconfigs : q[1] = CurrentHub}}

(* The kubeconfigs under the usual name of the bootstrap secret. *)
extractBootstrapKubeConfigDataFromImportSecret ==
    IF secret = NoSecret THEN {}
      ELSE {p[2] : p \in {q \in secret.manifests.kubeconfigs : q[1] = BootstrapSecret}}

validateLegacyServiceAccountToken(token) == token.alive /\ legacy = "valid"

(* Mutant: the token in the secret is used as long as the hub accepts it.  *)
validateTokenExpirationLate(token) == token.left > 0

validateTokenExpiration(token) == token.left > Threshold

(* Mutant: whatever has no expiration is good for ever. *)
TokenIsValidLegacy(token) ==
    \/ token.kind = "legacy"
    \/ token.kind = "requested" /\ validateTokenExpiration(token)

TokenIsValid(token) ==
    \/ token.kind = "requested" /\ validateTokenExpiration(token)
    \/ token.kind = "legacy" /\ validateLegacyServiceAccountToken(token)

(* NoToken if there is no account to request one for. *)
GetBootstrapToken ==
    IF legacy = "valid" THEN LegacyToken
      ELSE IF account THEN RequestedToken ELSE NoToken

(* What is built from the merged KlusterletConfig and the kubeconfig that  *)
(* is required; NoSecret for an error.                                     *)
buildImportSecret(kc, required) ==
    LET found == extractBootstrapKubeConfigDataFromImportSecret
        keep == found # {} /\ TokenIsValid(secret.token)
        token == IF keep THEN secret.token ELSE GetBootstrapToken
        same == {k \in found : keep /\ ValidateBootstrapKubeconfig(k, required)}
        kubeconfig == IF same = {} THEN required ELSE CHOOSE k \in same : TRUE
        manifests == Generate(hub, mc, kc, kubeconfig)
    IN IF required.ok /\ token # NoToken /\ manifests.ok
         THEN [manifests |-> manifests, token |-> token]
         ELSE NoSecret

Go(r, to) == step' = [step EXCEPT ![r] = to]
Forget(r) == built' = [built EXCEPT ![r] = NoSecret]

(* An error requeues the request. *)
Requeue(r) == Go(r, "idle") /\ Forget(r) /\ Enqueue({r})

Start(r) ==
    /\ r \in queue /\ step[r] = "idle"
    /\ Cardinality({q \in Requests : step[q] # "idle"}) < MaxConcurrentReconciles
    /\ queue' = queue \ {r}
    /\ Go(r, IF ValidateKlusterletMode(mc.mode, HostedGate) THEN "rbac" ELSE "idle")
    /\ UNCHANGED <<hubVars, listerVars, tokenVars, secret, values, built,
                   timeVars, edits>>

(* The cluster role, its binding and the service account. *)
ApplyHubRBAC(r) ==
    /\ step[r] = "rbac"
    /\ account' = TRUE
    /\ Go(r, "build")
    /\ UNCHANGED <<hubVars, listerVars, legacy, secret, values, queue, built,
                   timeVars, edits>>

buildBootstrapKubeconfigData(r) ==
    /\ step[r] = "build"
    /\ \E kc \in {MergedConfig(listed)} :
       \E required \in {GetKubeAPIServerConfig(hub, kc, mc.selfManaged)} :
       \E new \in {buildImportSecret(kc, required)} :
          \/ new = NoSecret /\ Requeue(r)
          \/ /\ new # NoSecret /\ built' = [built EXCEPT ![r] = new]
             /\ Go(r, "apply") /\ UNCHANGED queue
    /\ UNCHANGED <<hubVars, listerVars, tokenVars, secret, values, timeVars, edits>>

(* A secret that is changed, not one that is created, is an event. *)
ChangeEvent(old, new) ==
    IF old # NoSecret /\ old # new THEN {"namespace"} ELSE {}

ApplyImportSecret(r) ==
    /\ step[r] = "apply"
    /\ secret' = built[r]
    /\ Enqueue(ChangeEvent(secret, built[r]))
    /\ \/ hub.generate /\ Go(r, "values") /\ UNCHANGED built
       \/ ~hub.generate /\ Go(r, "idle") /\ Forget(r)
    /\ late' = 0 /\ overdue' = FALSE
    /\ UNCHANGED <<hubVars, listerVars, tokenVars, values, resyncIn, edits>>

ApplyConfigSecret(r) ==
    /\ step[r] = "values"
    /\ values' = built[r]
    /\ Enqueue(ChangeEvent(values, built[r]))
    /\ Go(r, "idle") /\ Forget(r)
    /\ UNCHANGED <<hubVars, listerVars, tokenVars, secret, timeVars, edits>>

CallFails(r) ==
    /\ Edit
    /\ step[r] # "idle"
    /\ Requeue(r)
    /\ UNCHANGED <<hubVars, listerVars, tokenVars, secret, values, timeVars>>

ReconcileStep(r) ==
    \/ Start(r)
    \/ ApplyHubRBAC(r)
    \/ buildBootstrapKubeconfigData(r)
    \/ ApplyImportSecret(r)
    \/ ApplyConfigSecret(r)

-----------------------------------------------------------------------------
(***************************************************************************)
(* Time.  A tick is long compared to a reconciliation, and a request that  *)
(* can be served waits for at most MaxDelay ticks.                         *)
(***************************************************************************)
Buildable ==
    \E kc \in {MergedConfig(specs)} :
    \E required \in {GetKubeAPIServerConfig(hub, kc, mc.selfManaged)} :
        /\ ValidateKlusterletMode(mc.mode, HostedGate)
        /\ required.ok /\ Generate(hub, mc, kc, required).ok

Tick ==
    /\ \A r \in Requests : step[r] = "idle"
    /\ resyncIn > 0 /\ resyncIn' = resyncIn - 1
    /\ late < MaxDelay \/ queue = {} \/ ~Buildable
    /\ late' = IF queue = {} THEN 0 ELSE IF late < MaxDelay THEN late + 1 ELSE late
    /\ overdue' = (overdue \/ (queue # {} /\ late = MaxDelay))
    /\ secret' = Age(secret) /\ values' = Age(values)
    /\ UNCHANGED <<hubVars, listerVars, tokenVars, requestVars, edits>>

HubStep ==
    \/ \E n \in Names, config \in Configs : UserEditsSpec(n, config)
    \/ \E m \in ManagedClusters : UserEditsCluster(m)
    \/ \E h \in Hubs : AdminChangesHub(h)
    \/ AccountDeleted
    \/ LegacyTokenChanges
    \/ SecretLost
    \/ Restart
    \/ \E r \in Requests : CallFails(r)

Next ==
    \/ HubStep
    \/ ListerSync \/ IndexSync \/ Resync
    \/ \E r \in Requests : ReconcileStep(r)
    \/ Tick

Spec == Init /\ [][Next]_vars

(* Informers catch up and resync, workers serve requests, time passes. *)
Fairness ==
    /\ WF_vars(ListerSync) /\ WF_vars(IndexSync) /\ WF_vars(Resync)
    /\ \A r \in Requests : SF_vars(ReconcileStep(r))
    /\ WF_vars(Tick)

FairSpec == Spec /\ Fairness

-----------------------------------------------------------------------------
ControlOK ==
    /\ mc \in ManagedClusters
    /\ indexed \in BOOLEAN /\ account \in BOOLEAN /\ overdue \in BOOLEAN
    /\ legacy \in {"none", "valid", "invalid"}
    /\ queue \subseteq Requests
    /\ step \in [Requests -> Steps]
    /\ resyncIn \in 0 .. ResyncPeriod
    /\ late \in 0 .. MaxDelay
    /\ edits \in 0 .. MaxEdits

TokensOK ==
    /\ secret.token \in Token /\ values.token \in Token
    /\ built = [r \in Requests |-> built[r]]
    /\ \A r \in Requests : built[r].token \in Token

(* The state stays within its types: no token is older than it can be, no  *)
(* request but the two of the cluster is served.                           *)
TypeOK == ControlOK /\ TokensOK

(***************************************************************************)
(* The token that an import secret offers to the agents never expires in   *)
(* it, unless the hub or the KlusterletConfigs were such that no secret    *)
(* could be built for longer than MaxDelay: nothing wakes the controller   *)
(* up when the token is due, yet a resync comes early enough - also with   *)
(* restarts, failing calls and two workers on one cluster.                 *)
(***************************************************************************)
NeverExpired ==
    secret.token.kind = "requested" /\ ~overdue => secret.token.left > 0

(***************************************************************************)
(* The import secret keeps the promise of TokenOffer: it never passes on a *)
(* token that is due, also when two reconciliations of the cluster overlap *)
(* and one of them writes a token that the other one has renewed.          *)
(***************************************************************************)
offered ==
    IF secret.token.kind = "requested" /\ ~overdue THEN secret.token.left ELSE -1
Promise == INSTANCE TokenOffer WITH Life <- TokenLife, offer <- offered
KeepsPromise == Promise!Spec

SecretIsCurrent ==
    \A kc \in {MergedConfig(specs)} :
    \A required \in {GetKubeAPIServerConfig(hub, kc, mc.selfManaged)} :
    \A wanted \in {Generate(hub, mc, kc, required)} :
        /\ secret.manifests = wanted
        /\ hub.generate => values.manifests = wanted

(***************************************************************************)
(* The import secret ends up with what the KlusterletConfigs, the cluster  *)
(* and the hub ask for, although listers lag behind the events, an older   *)
(* reconciliation may overwrite the result of a newer one and most of what *)
(* is read on the hub is not watched; and so does the config secret.       *)
(***************************************************************************)
SecretFollows == <>[](Buildable => SecretIsCurrent)

(* The kubeconfigs of this hub in the import secret. *)
OwnKubeconfigs ==
    IF secret = NoSecret THEN {}
      ELSE {p[2] : p \in {q \in secret.manifests.kubeconfigs :
                            q[1] \in {BootstrapSecret, CurrentHub}}}

(* The bundles that a cluster is to trust: those of the KlusterletConfig   *)
(* assigned to it, and the global ones under a name it does not use.       *)
TrustedCABundles(configs) ==
    LET own == IF mc.assigned THEN configs["named"].bundles ELSE {}
    IN own \cup {b \in configs["global"].bundles : \A o \in own : o.name # b.name}

(***************************************************************************)
(* A reconciliation never goes on with less than the lister shows: when it *)
(* has built the manifests, the kubeconfig of this hub trusts every        *)
(* certificate of every bundle of the assigned KlusterletConfig, and of    *)
(* every global one that the assigned one does not replace by a bundle of  *)
(* the same name - whether it was made anew or taken over from the import  *)
(* secret, unless it is used inside the hub or with the system's           *)
(* truststore.                                                             *)
(***************************************************************************)
BuiltTrustsBundles ==
    [][\A r \in Requests : step[r] = "build" /\ step'[r] = "apply" =>
         LET kc == MergedConfig(listed)
         IN \A q \in built'[r].manifests.kubeconfigs :
              \/ q[1] \in kc.others \/ q[2].internal \/ kc.strategy = System
              \/ \A b \in TrustedCABundles(listed) :
                    b.map \in DOMAIN hub.maps /\ hub.maps[b.map] \subseteq q[2].certs]_vars

TrustsBundles ==
    LET maps == {b.map : b \in TrustedCABundles(specs)}
        trusted == UNION {hub.maps[m] : m \in maps \cap DOMAIN hub.maps}
    IN \/ MergedConfig(specs).strategy = System
       \/ \A k \in OwnKubeconfigs : k.internal \/ trusted \subseteq k.certs

(***************************************************************************)
(* "trustedCABundles" are trusted: an agent that connects from outside     *)
(* gets every certificate that the ConfigMaps of the assigned              *)
(* KlusterletConfig hold, and those of the global one but for the bundles  *)
(* whose names the assigned one uses for its own, unless it uses the       *)
(* system's truststore.                                                    *)
(***************************************************************************)
BundlesAreTrusted == <>[](Buildable => TrustsBundles)

(* The hub accepts the token. *)
Accepted(token) ==
    /\ token.alive
    /\ token.kind = "requested" => token.left > 0
    /\ token.kind = "legacy" => legacy = "valid"

(***************************************************************************)
(* In the end the token is one that the hub accepts, also after its        *)
(* account was deleted or its legacy token declared invalid.  (A requested *)
(* token of a deleted account stays in the secret until it is due.)        *)
(***************************************************************************)
TokenIsAccepted ==
    <>[](Buildable => /\ Accepted(secret.token)
                      /\ hub.generate => Accepted(values.token))

(***************************************************************************)
(* "use the existing token if it is still valid": once nobody interferes,  *)
(* a valid token is not replaced.  Each replacement updates the secret,    *)
(* and the event of that update starts the next reconciliation: without    *)
(* this the controller would never come to rest.                           *)
(***************************************************************************)
TokenIsKept ==
    <>[][TokenIsValid(secret.token)
           => secret'.token.left <= secret.token.left]_secret
=============================================================================
