------------------------- MODULE AgentRegistration -------------------------
(***************************************************************************)
(* How an agent joins the hub: the manifests it gets from the agent        *)
(* registration server, the certificate that csr-controller approves, and  *)
(* flightctl, whose devices are accepted without anybody's consent.        *)
(*                                                                         *)
(* One cluster.  The agent of a flightctl device fetches its manifests     *)
(* with a token that this process keeps in a Repository of flightctl;      *)
(* other agents are installed by an import (AutoImport).  Both ask for a   *)
(* certificate.  The process runs the reconcilers of the request and of    *)
(* the cluster, the loop that applies the Repository, the server, and a    *)
(* watcher that ends the process when the hub's TLS profile changes.       *)
(***************************************************************************)
EXTENDS Integers, Sequences

CONSTANTS
    Endpoints,              \* addresses of flightctl
    Requests,               \* what an agent that was imported may ask for
    DeviceRequests,         \* what the agent of a device may ask for
    Profiles,               \* TLS profiles of the hub
    TokenDays,              \* days a token in the Repository is valid for
    MaxDisturbances         \* bound: edits, outages, failures and restarts

ASSUME EndpointsAssumption ==
    Endpoints # {} /\ "" \notin Endpoints /\ "away" \notin Endpoints
ASSUME ProfilesAssumption == Profiles # {}
ASSUME TokenDaysAssumption == TokenDays \in Nat /\ TokenDays > 1
ASSUME BoundAssumption == MaxDisturbances \in Nat

VARIABLES
    device,                 \* the cluster is a device of flightctl
    flightctl,              \* its address if it is enabled and healthy, or
                            \* "away"
    token,                  \* days left of the token in its Repository
    profile,                \* the hub's TLS profile
    cluster, seen,          \* the ManagedCluster: API server, cache
    csr,                    \* the agent's request
    manifests,              \* the agent has its manifests
    server,                 \* flightctlServer and its client; "" if not set
    loop, ran,              \* the Repository loop; how it went today
    failing,                \* history: the days since the last success that
                            \* ended with a failed attempt
    serving, watched,       \* the profile the server uses, the watcher knows
    queue, step, copy,      \* the reconcilers
    disturbances

hubVars == <<device, flightctl, token, profile, cluster, csr, manifests>>
loopVars == <<server, loop, ran, failing>>
tlsVars == <<serving, watched>>
workVars == <<queue, step, copy>>
vars == <<hubVars, seen, loopVars, tlsVars, workVars, disturbances>>

Keys == {"csr", "cluster"}

(* ver: the resourceVersion; edit: what users wrote last. *)
Clusters == [state: {"none", "there", "deleting"}, accepted: BOOLEAN,
             edit: Nat, ver: Nat]
CSRs == [state: {"none", "pending", "approved", "denied", "auto"},
         label: {"", "c", "d"}, request: Requests \cup DeviceRequests \cup {<<>>}]

NoCluster == [state |-> "none", accepted |-> FALSE, edit |-> 0, ver |-> 0]
NoCSR == [state |-> "none", label |-> "", request |-> <<>>]
None == [state |-> "none"]

Init ==
    /\ device \in BOOLEAN
    /\ flightctl \in {"away", CHOOSE e \in Endpoints : TRUE}
    /\ token = 0
    /\ profile = CHOOSE p \in Profiles : TRUE
    /\ cluster = NoCluster /\ seen = NoCluster
    /\ csr = NoCSR
    /\ manifests = FALSE
    /\ server = "" /\ loop = "poll" /\ ran = "no" /\ failing = TokenDays
    /\ serving = "down" /\ watched = "none"
    /\ queue = {}
    /\ step = [k \in Keys |-> "idle"]
    /\ copy = [k \in Keys |-> None]
    /\ disturbances = 0

Disturb == disturbances < MaxDisturbances /\ disturbances' = disturbances + 1

-----------------------------------------------------------------------------
(* Agents and users. *)

(* The server answers if the token is authenticated and authorized. *)
authMiddleware == token > 0

FetchManifests ==
    /\ device /\ ~manifests
    /\ serving # "down" /\ authMiddleware
    /\ manifests' = TRUE
    /\ UNCHANGED <<device, flightctl, token, profile, cluster, csr, seen,
                   loopVars, tlsVars, workVars, disturbances>>

(* A user's cluster is accepted from the start, and imported. *)
UserCreatesCluster ==
    /\ ~device /\ cluster.state = "none"
    /\ cluster' = [state |-> "there", accepted |-> TRUE, edit |-> 0, ver |-> 1]
    /\ manifests' = TRUE
    /\ UNCHANGED <<device, flightctl, token, profile, csr, seen, loopVars,
                   tlsVars, workVars, disturbances>>

AgentCreatesCluster ==
    /\ device /\ manifests /\ cluster.state = "none"
    /\ cluster' = [state |-> "there", accepted |-> FALSE, edit |-> 0, ver |-> 1]
    /\ UNCHANGED <<device, flightctl, token, profile, csr, manifests, seen,
                   loopVars, tlsVars, workVars, disturbances>>

(* The request of the labelled cluster; its creation is an event. *)
AgentCreatesCSR ==
    /\ manifests /\ csr.state = "none"
    /\ \E r \in IF device THEN DeviceRequests ELSE Requests :
           csr' = [state |-> "pending", label |-> "c", request |-> r]
    /\ queue' = queue \cup {"csr"}
    /\ UNCHANGED <<device, flightctl, token, profile, cluster, manifests, seen,
                   loopVars, tlsVars, step, copy, disturbances>>

(* Another approver decides, or somebody changes the label. *)
OthersTouchCSR ==
    /\ Disturb
    /\ csr.state = "pending"
    /\ \/ \E s \in {"approved", "denied"} :
             csr' = [csr EXCEPT !.state = s] /\ UNCHANGED queue
       \/ /\ csr.label = "c" /\ csr' = [csr EXCEPT !.label = "d"]
          /\ queue' = queue \cup {"csr"}
    /\ UNCHANGED <<device, flightctl, token, profile, cluster, manifests, seen,
                   loopVars, tlsVars, step, copy>>

UserEditsCluster ==
    /\ Disturb
    /\ cluster.state = "there"
    /\ \/ \E a \in BOOLEAN :
             cluster' = [cluster EXCEPT !.accepted = a, !.edit = @ + 1,
                                        !.ver = @ + 1]
       \/ cluster' = [cluster EXCEPT !.state = "deleting", !.ver = @ + 1]
    /\ UNCHANGED <<device, flightctl, token, profile, csr, manifests, seen,
                   loopVars, tlsVars, workVars>>

FlightctlChanges ==
    /\ Disturb
    /\ flightctl' \in (Endpoints \cup {"away"}) \ {flightctl}
    /\ UNCHANGED <<device, token, profile, cluster, csr, manifests, seen,
                   loopVars, tlsVars, workVars>>

ProfileChanges ==
    /\ Disturb
    /\ profile' \in Profiles \ {profile}
    /\ UNCHANGED <<device, flightctl, token, cluster, csr, manifests, seen,
                   loopVars, tlsVars, workVars>>

(* The loop runs at least once a day. *)
Day ==
    /\ ran # "no" /\ ran' = "no"
    /\ token' = IF token > 0 THEN token - 1 ELSE 0
    /\ failing' = IF ran = "failed" /\ failing < TokenDays THEN failing + 1
                                                         ELSE failing
    /\ UNCHANGED <<device, flightctl, profile, cluster, csr, manifests, seen,
                   server, loop, tlsVars, workVars, disturbances>>

-----------------------------------------------------------------------------
(* The manager's cache. *)

isValidUnapprovedBootstrapCSR == csr.state = "pending"
Unaccepted(c) == c.state # "none" /\ ~c.accepted

CacheSync ==
    /\ seen # cluster /\ seen' = cluster
    /\ queue' = queue \cup IF Unaccepted(cluster) THEN {"cluster"} ELSE {}
    /\ UNCHANGED <<hubVars, loopVars, tlsVars, step, copy, disturbances>>

(* Mutants: an update that changes nothing is dropped, of either kind. *)
ResyncClusters ==
    /\ Unaccepted(seen) /\ queue' = queue \cup {"cluster"}
    /\ UNCHANGED <<hubVars, seen, loopVars, tlsVars, step, copy, disturbances>>

ResyncRequests ==
    /\ isValidUnapprovedBootstrapCSR /\ queue' = queue \cup {"csr"}
    /\ UNCHANGED <<hubVars, seen, loopVars, tlsVars, step, copy, disturbances>>

(* Every ten hours each object is updated by itself. *)
Resync ==
    /\ queue' = queue \cup (IF isValidUnapprovedBootstrapCSR THEN {"csr"} ELSE {})
                      \cup (IF Unaccepted(seen) THEN {"cluster"} ELSE {})
    /\ queue' # queue
    /\ UNCHANGED <<hubVars, seen, loopVars, tlsVars, step, copy, disturbances>>

(* All that the process knows is lost; all there is, is created for it. *)
StartAnew ==
    /\ server' = "" /\ loop' = "poll" /\ ran' = "no"
    /\ serving' = "down" /\ watched' = "none"
    /\ seen' = cluster
    /\ queue' = (IF isValidUnapprovedBootstrapCSR THEN {"csr"} ELSE {})
                  \cup (IF Unaccepted(cluster) THEN {"cluster"} ELSE {})
    /\ step' = [k \in Keys |-> "idle"]
    /\ copy' = [k \in Keys |-> None]
    /\ UNCHANGED <<hubVars, failing>>

Restart == Disturb /\ StartAnew

-----------------------------------------------------------------------------
(* The TLS profile of the server. *)

(* If the profile cannot be read, the server falls back to TLS 1.2. *)
RunAgentRegistrationServer ==
    /\ serving = "down"
    /\ \/ serving' = profile /\ UNCHANGED disturbances
       \/ Disturb /\ serving' = "TLS 1.2"
    /\ UNCHANGED <<hubVars, seen, loopVars, watched, workVars>>

(* The watcher waits for the caches, then reads the profile itself.  If    *)
(* there is none to be found, nothing is watched until the next restart;   *)
(* any other error ends the process.                                       *)
SetupTLSProfileWatcher ==
    /\ watched = "none"
    /\ \/ /\ watched' = profile
          /\ UNCHANGED <<hubVars, seen, loopVars, serving, workVars, disturbances>>
       \/ /\ Disturb /\ watched' = "nothing"
          /\ UNCHANGED <<hubVars, seen, loopVars, serving, workVars>>
       \/ Disturb /\ StartAnew


OnProfileChange ==
    /\ watched \notin {"none", "nothing", profile}
    /\ StartAnew
    /\ UNCHANGED disturbances

-----------------------------------------------------------------------------
(* StartReconcileFlightCtlResources. *)

isFlightCtlEnabledAndHealthy == flightctl # "away"

(* The client reaches flightctl; before ensureFlightCtlServer it is nil. *)
ClientWorks == isFlightCtlEnabledAndHealthy /\ server = flightctl

(* Mutant: the resources are applied before the server is known. *)
PollWithoutServer ==
    /\ loop = "poll"
    /\ loop' = "apply"
    /\ UNCHANGED <<hubVars, seen, server, ran, failing, tlsVars, workVars,
                   disturbances>>

Poll ==
    /\ loop = "poll"
    /\ \/ /\ ~isFlightCtlEnabledAndHealthy
          /\ ran' = "failed" /\ UNCHANGED <<server, loop>>
       \/ /\ isFlightCtlEnabledAndHealthy
          /\ server' = IF server = "" THEN flightctl ELSE server
          /\ loop' = "apply" /\ UNCHANGED ran
    /\ UNCHANGED <<hubVars, seen, failing, tlsVars, workVars, disturbances>>

RepositoryApplied == ClientWorks /\ token' = TokenDays /\ failing' = 0

(* Flightctl cannot be reached, or a call fails. *)
AttemptFails ==
    /\ (~ClientWorks /\ UNCHANGED disturbances) \/ Disturb
    /\ ran' = "failed" /\ UNCHANGED <<token, failing>>

(* The client's resources, then the Repository; polling ends with success. *)
ApplyResources ==
    /\ loop = "apply"
    /\ \/ /\ RepositoryApplied
          /\ loop' = "daily" /\ ran' = "no" /\ UNCHANGED disturbances
       \/ AttemptFails /\ loop' = "poll"
    /\ UNCHANGED <<device, flightctl, profile, cluster, csr, manifests, seen,
                   server, tlsVars, workVars>>

(* Mutant: the Repository is applied once. *)
applyRepositoryOnce ==
    /\ loop = "daily" /\ ran = "no" /\ ran' = "yes"
    /\ UNCHANGED <<hubVars, seen, server, loop, failing, tlsVars, workVars,
                   disturbances>>

applyRepository ==
    /\ loop = "daily" /\ ran = "no"
    /\ \/ RepositoryApplied /\ ran' = "yes" /\ UNCHANGED disturbances
       \/ AttemptFails
    /\ UNCHANGED <<device, flightctl, profile, cluster, csr, manifests, seen,
                   server, loop, tlsVars, workVars>>

IsManagedClusterAFlightctlDevice ==
    IF ~isFlightCtlEnabledAndHealthy THEN "no"
      ELSE IF ~ClientWorks THEN "error"
      ELSE IF device THEN "yes" ELSE "no"

-----------------------------------------------------------------------------
(* The two reconcilers. *)

Go(k, to) == step' = [step EXCEPT ![k] = to]
Done(k) == Go(k, "idle") /\ copy' = [copy EXCEPT ![k] = None] /\ UNCHANGED queue
Requeue(k) == /\ Go(k, "idle") /\ copy' = [copy EXCEPT ![k] = None]
              /\ queue' = queue \cup {k}

Take(k, object) ==
    Go(k, "decide") /\ copy' = [copy EXCEPT ![k] = object]

CallFails(k) ==
    /\ Disturb
    /\ step[k] # "idle" /\ Requeue(k)
    /\ UNCHANGED <<hubVars, seen, loopVars, tlsVars>>

(* The request is read from the API server; isCSRInTerminalState. *)
GetCSR ==
    /\ "csr" \in queue /\ step["csr"] = "idle"
    /\ queue' = queue \ {"csr"}
    /\ IF csr.state = "pending" THEN Take("csr", csr) ELSE UNCHANGED <<step, copy>>
    /\ UNCHANGED <<hubVars, seen, loopVars, tlsVars, disturbances>>

(* The bootstrap service account of the cluster, or that of gRPC. *)
validUsername(r, label) == r.user \in {<<label, "bootstrap">>, <<"hub", "grpc">>}

(* The label names this cluster, which is in the cache. *)
approveExistingManagedClusterCSR(c) ==
    validUsername(c.request, c.label) /\ c.label = "c" /\ seen.state # "none"

AllowedSigners == {"kube-apiserver-client", "grpc"}
ManagedClustersGroup == "managed-clusters"

(* cn: the parts of the common name behind the prefix. *)
ValidateClusterCSRRequest(r, label) ==
    /\ r.signer \in AllowedSigners
    /\ r.pem
    /\ r.orgs \ {ManagedClustersGroup} = {label}
    /\ r.prefix /\ Len(r.cn) = 2 /\ r.cn[1] = label /\ r.cn[2] # ""

(* Nobody is a device under another label. *)
DeviceAnswer(c) ==
    IF c.label # "c" /\ IsManagedClusterAFlightctlDevice = "yes" THEN "no"
      ELSE IsManagedClusterAFlightctlDevice

DecideCSR ==
    /\ step["csr"] = "decide"
    /\ LET c == copy["csr"]
           answer == IF approveExistingManagedClusterCSR(c) THEN "yes"
                                                            ELSE DeviceAnswer(c)
       IN \/ answer = "error" /\ Requeue("csr")
          \/ /\ answer = "yes" /\ ValidateClusterCSRRequest(c.request, c.label)
             /\ Go("csr", "write") /\ UNCHANGED <<queue, copy>>
          \/ /\ answer # "error"
             /\ answer = "no" \/ ~ValidateClusterCSRRequest(c.request, c.label)
             /\ Done("csr")
    /\ UNCHANGED <<hubVars, seen, loopVars, tlsVars, disturbances>>

(* Mutant: the approval is written whatever happened to the request. *)
UpdateApprovalForced ==
    /\ step["csr"] = "write"
    /\ csr' = [csr EXCEPT !.state = IF @ = "pending" THEN "auto" ELSE @]
    /\ Done("csr")
    /\ UNCHANGED <<device, flightctl, token, profile, cluster, manifests, seen,
                   loopVars, tlsVars, disturbances>>

(* A conflict if anybody has touched the request. *)
UpdateApproval ==
    /\ step["csr"] = "write"
    /\ \/ csr = copy["csr"] /\ csr' = [csr EXCEPT !.state = "auto"] /\ Done("csr")
       \/ csr # copy["csr"] /\ Requeue("csr") /\ UNCHANGED csr
    /\ UNCHANGED <<device, flightctl, token, profile, cluster, manifests, seen,
                   loopVars, tlsVars, disturbances>>

(* A cluster that is not found is an error, and retried. *)
GetCluster ==
    /\ "cluster" \in queue /\ step["cluster"] = "idle"
    /\ \/ seen.state = "none" /\ UNCHANGED <<queue, step, copy>>
       \/ /\ seen.state = "deleting" \/ seen.accepted
          /\ queue' = queue \ {"cluster"} /\ UNCHANGED <<step, copy>>
       \/ /\ seen.state = "there" /\ ~seen.accepted
          /\ queue' = queue \ {"cluster"} /\ Take("cluster", seen)
    /\ UNCHANGED <<hubVars, seen, loopVars, tlsVars, disturbances>>

DecideCluster ==
    /\ step["cluster"] = "decide"
    /\ LET answer == IsManagedClusterAFlightctlDevice
       IN \/ answer = "error" /\ Requeue("cluster")
          \/ answer = "no" /\ Done("cluster")
          \/ answer = "yes" /\ Go("cluster", "write") /\ UNCHANGED <<queue, copy>>
    /\ UNCHANGED <<hubVars, seen, loopVars, tlsVars, disturbances>>

Accepting == [copy["cluster"] EXCEPT !.accepted = TRUE, !.ver = cluster.ver + 1]

(* Mutant: the copy is written whatever happened to the cluster. *)
AcceptClusterForced ==
    /\ step["cluster"] = "write"
    /\ cluster' = Accepting /\ Done("cluster")
    /\ UNCHANGED <<device, flightctl, token, profile, csr, manifests, seen,
                   loopVars, tlsVars, disturbances>>

(* The whole cached object is written, under its resourceVersion. *)
AcceptCluster ==
    /\ step["cluster"] = "write"
    /\ \/ /\ copy["cluster"].ver = cluster.ver
          /\ cluster' = Accepting /\ Done("cluster")
       \/ /\ copy["cluster"].ver # cluster.ver
          /\ Requeue("cluster") /\ UNCHANGED cluster
    /\ UNCHANGED <<device, flightctl, token, profile, csr, manifests, seen,
                   loopVars, tlsVars, disturbances>>

-----------------------------------------------------------------------------
AgentStep ==
    \/ FetchManifests \/ UserCreatesCluster \/ AgentCreatesCluster
    \/ AgentCreatesCSR
LoopStep == Poll \/ ApplyResources \/ applyRepository
ReconcileCSR == GetCSR \/ DecideCSR \/ UpdateApproval
ReconcileCluster == GetCluster \/ DecideCluster \/ AcceptCluster

Next ==
    \/ AgentStep
    \/ OthersTouchCSR \/ UserEditsCluster \/ FlightctlChanges \/ ProfileChanges
    \/ Day \/ CacheSync \/ Resync \/ Restart
    \/ RunAgentRegistrationServer \/ SetupTLSProfileWatcher \/ OnProfileChange
    \/ LoopStep
    \/ \E k \in Keys : CallFails(k)
    \/ ReconcileCSR \/ ReconcileCluster

Spec == Init /\ [][Next]_vars

(* Agents go on, timers fire, caches follow, workers work. *)
Fairness ==
    /\ WF_vars(FetchManifests) /\ WF_vars(UserCreatesCluster)
    /\ WF_vars(AgentCreatesCluster) /\ WF_vars(AgentCreatesCSR)
    /\ WF_vars(Day) /\ WF_vars(CacheSync) /\ WF_vars(Resync)
    /\ WF_vars(RunAgentRegistrationServer) /\ WF_vars(SetupTLSProfileWatcher)
    /\ WF_vars(OnProfileChange)
    /\ WF_vars(LoopStep) /\ WF_vars(ReconcileCSR) /\ WF_vars(ReconcileCluster)

FairSpec == Spec /\ Fairness

-----------------------------------------------------------------------------
(* The state stays within its types; no more than one copy of an object is *)
(* worked on, and only while it is.                                        *)
HubOK ==
    /\ device \in BOOLEAN /\ manifests \in BOOLEAN
    /\ flightctl \in Endpoints \cup {"away"}
    /\ token \in 0 .. TokenDays
    /\ profile \in Profiles
    /\ cluster \in Clusters /\ csr \in CSRs
ProcessOK ==
    /\ seen \in Clusters /\ seen.ver <= cluster.ver
    /\ server \in Endpoints \cup {""}
    /\ loop \in {"poll", "apply", "daily"} /\ ran \in {"no", "yes", "failed"}
    /\ loop # "poll" => server # ""
    /\ failing \in 0 .. TokenDays
    /\ serving \in Profiles \cup {"down", "TLS 1.2"}
    /\ watched \in Profiles \cup {"none", "nothing"}
ReconcilersOK ==
    /\ queue \subseteq Keys
    /\ step \in [Keys -> {"idle", "decide", "write"}]
    /\ copy \in [Keys -> Clusters \cup CSRs \cup {None}]
    /\ \A k \in Keys : (step[k] = "idle") = (copy[k] = None)
TypeOK ==
    HubOK /\ ProcessOK /\ ReconcilersOK /\ disturbances \in 0 .. MaxDisturbances

(***************************************************************************)
(* "Do not Deny - leave the CSR pending for other approvers": the          *)
(* controller never overrules a decision, and it approves no identity but  *)
(* that of the cluster the request is labelled with when it is approved,   *)
(* although flightctl is asked between reading and approving it.           *)
(***************************************************************************)
ApprovesWhatItRead ==
    [][csr'.state # csr.state /\ csr.state # "none"
         => /\ csr.state = "pending"
            /\ csr'.state = "auto"
                 => ValidateClusterCSRRequest(csr.request, csr.label)]_csr

(***************************************************************************)
(* Accepting a device, which writes a whole cached cluster, never undoes   *)
(* what a user has written since it was cached, nor revives a cluster that *)
(* is being deleted.                                                       *)
(***************************************************************************)
AcceptingKeepsEdits ==
    [][cluster.state # "none" => /\ cluster'.edit >= cluster.edit
                                 /\ cluster.state = "deleting"
                                      => cluster'.state = "deleting"]_cluster

(* Flightctl works, and has not moved since the process found it. *)
Reachable == isFlightCtlEnabledAndHealthy /\ server \in {"", flightctl}

(***************************************************************************)
(* "set hubAcceptsClient to true if the managed cluster is a flightctl     *)
(* device": every device gets its manifests, and its cluster is accepted,  *)
(* although flightctl may be away when the cluster is first reconciled     *)
(* (the reconciler then gives up without a retry) and the client may not   *)
(* have been set yet.                                                      *)
(***************************************************************************)
DeviceIsAccepted ==
    <>[](device /\ Reachable
           => cluster.state = "deleting" \/ (cluster.state = "there" /\ cluster.accepted))

(***************************************************************************)
(* "if a CSR comes from a managed cluster, and the managed cluster already *)
(* exists, approve it": no request of an existing cluster or of a device   *)
(* waits for ever, also one that came before the cluster was in the cache. *)
(***************************************************************************)
RequestIsApproved ==
    <>[](csr.state = "pending" /\ csr.label = "c"
           /\ ValidateClusterCSRRequest(csr.request, "c")
         => /\ ~(device /\ Reachable)
            /\ ~(validUsername(csr.request, "c") /\ cluster.state # "none"))

(***************************************************************************)
(* "keep agent registration token fresh": a success leaves a token for all *)
(* days but the one it is made on, and afterwards every day but one that   *)
(* ends with a failed attempt brings another success.  A token of ten days *)
(* thus expires only if the attempts fail on nine days in a row, whatever  *)
(* restarts, outages and retries come in between.  (After flightctl has    *)
(* moved every attempt fails, until the process restarts.)                 *)
(***************************************************************************)
RepositoryStaysFresh == token >= TokenDays - 1 - failing

=============================================================================
