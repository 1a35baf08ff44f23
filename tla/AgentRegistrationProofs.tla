---------------------- MODULE AgentRegistrationProofs ----------------------
(***************************************************************************)
(* What is written about a cluster that joins is what was read.  Both      *)
(* reconcilers keep a copy while they ask flightctl; the invariant says    *)
(* what is known of it when it is written.                                 *)
(***************************************************************************)
EXTENDS AgentRegistration, TLAPS

(* A copy of the cluster is older than the cluster, or is the cluster. *)
UpToDate(c) == c.ver <= cluster.ver /\ (c.ver = cluster.ver => c = cluster)

ClusterOK ==
    /\ cluster.state = "none" => cluster = NoCluster
    /\ UpToDate(seen)
    /\ step["cluster"] # "idle"
         => /\ copy["cluster"] \in Clusters /\ copy["cluster"].state = "there"
            /\ UpToDate(copy["cluster"])

(* The request that is approved was validated, and was pending. *)
RequestOK ==
    /\ step["csr"] # "idle"
         => copy["csr"] \in CSRs /\ copy["csr"].state = "pending"
    /\ step["csr"] = "write"
         => ValidateClusterCSRRequest(copy["csr"].request, copy["csr"].label)

IInv == TypeOK /\ ClusterOK /\ RequestOK

-----------------------------------------------------------------------------
(* The other reconciler. *)
OthersRest(k) ==
    \A j \in Keys \ {k} : step'[j] = step[j] /\ copy'[j] = copy[j]

LEMMA EndFacts ==
    ASSUME ReconcilersOK, NEW k \in Keys, Done(k) \/ Requeue(k)
    PROVE  ReconcilersOK' /\ step'[k] = "idle" /\ OthersRest(k)
<1>1. /\ step' = [step EXCEPT ![k] = "idle"] /\ copy' = [copy EXCEPT ![k] = None]
      /\ queue' \subseteq Keys
  BY DEF Done, Requeue, Go, ReconcilersOK
<1> QED BY <1>1 DEF ReconcilersOK, OthersRest

LEMMA TakeFacts ==
    ASSUME ReconcilersOK, NEW k \in Keys, NEW object \in Clusters \cup CSRs,
           object # None, Take(k, object), queue' \subseteq queue
    PROVE  /\ ReconcilersOK' /\ OthersRest(k)
           /\ step'[k] = "decide" /\ copy'[k] = object
BY DEF ReconcilersOK, Take, Go, OthersRest

LEMMA WriteFacts ==
    ASSUME ReconcilersOK, NEW k \in Keys, step[k] # "idle", Go(k, "write"),
           UNCHANGED <<queue, copy>>
    PROVE  /\ ReconcilersOK' /\ OthersRest(k)
           /\ step'[k] = "write" /\ copy'[k] = copy[k]
BY DEF ReconcilersOK, Go, OthersRest

LEMMA DisturbType ==
    ASSUME disturbances \in 0 .. MaxDisturbances, Disturb
    PROVE  disturbances' \in 0 .. MaxDisturbances
BY BoundAssumption DEF Disturb

LEMMA NothingThere == NoCluster \in Clusters /\ NoCSR \in CSRs
BY DEF NoCluster, NoCSR, Clusters, CSRs

(* Numbers of a cluster; what any change of it has to show. *)
LEMMA ClusterFields ==
    ASSUME NEW c \in Clusters
    PROVE  /\ c.state \in {"none", "there", "deleting"} /\ c.accepted \in BOOLEAN
           /\ c.edit \in Nat /\ c.ver \in Nat
BY DEF Clusters

(* The parts of the type invariant, when only some of it changes. *)
LEMMA HubFrame == ASSUME HubOK, UNCHANGED hubVars PROVE HubOK'
BY DEF HubOK, hubVars

LEMMA ProcessFrame ==
    ASSUME ProcessOK, UNCHANGED <<cluster, seen, loopVars, tlsVars>> PROVE ProcessOK'
BY DEF ProcessOK, loopVars, tlsVars

LEMMA ReconcilersFrame ==
    ASSUME ReconcilersOK, UNCHANGED <<step, copy>>, queue' \subseteq Keys
    PROVE  ReconcilersOK'
BY DEF ReconcilersOK

LEMMA InitIInv == Init => IInv
<1> SUFFICES ASSUME Init PROVE IInv
  OBVIOUS
<1>0. cluster = NoCluster /\ seen = NoCluster /\ disturbances = 0
  BY Zenon DEF Init
<1>1. HubOK
  <2>1. (CHOOSE e \in Endpoints : TRUE) \in Endpoints
    BY EndpointsAssumption
  <2>2. (CHOOSE p \in Profiles : TRUE) \in Profiles
    BY ProfilesAssumption
  <2>3. flightctl \in Endpoints \cup {"away"}
    BY <2>1 DEF Init
  <2>4. device \in BOOLEAN /\ manifests \in BOOLEAN
    BY Zenon DEF Init
  <2>5. token \in 0 .. TokenDays /\ profile \in Profiles
    <3>1. token = 0 /\ profile = CHOOSE p \in Profiles : TRUE
      BY Zenon DEF Init
    <3>2. 0 \in 0 .. TokenDays
      BY TokenDaysAssumption
    <3> QED BY <2>2, <3>1, <3>2, Zenon
  <2> QED
    BY <2>3, <2>4, <2>5, NothingThere DEF Init, HubOK
<1>2. ProcessOK
  <2>1. seen.ver <= cluster.ver /\ seen \in Clusters
    BY <1>0, NothingThere DEF NoCluster
  <2>2. failing \in 0 .. TokenDays
    <3>1. failing = TokenDays
      BY Zenon DEF Init
    <3> QED BY <3>1, TokenDaysAssumption
  <2> QED BY <2>1, <2>2 DEF Init, ProcessOK
<1>3. ReconcilersOK
  BY DEF Init, ReconcilersOK
<1>4. step["csr"] = "idle" /\ step["cluster"] = "idle"
  BY DEF Init, Keys
<1>5. ClusterOK
  BY <1>0, <1>4 DEF ClusterOK, UpToDate, NoCluster
<1>6. RequestOK
  BY <1>4 DEF RequestOK
<1>7. disturbances \in 0 .. MaxDisturbances
  BY <1>0, BoundAssumption
<1> QED
  BY <1>1, <1>2, <1>3, <1>5, <1>6, <1>7 DEF IInv, TypeOK

(* A step of neither reconciler, which leaves cluster and cache alone. *)
LEMMA ElsewhereStep ==
    ASSUME IInv, HubOK', ProcessOK', ReconcilersOK',
           disturbances' \in 0 .. MaxDisturbances,
           UNCHANGED <<cluster, seen, step, copy>>
    PROVE  IInv'
BY DEF IInv, TypeOK, ClusterOK, RequestOK, UpToDate

(* Agents, users, flightctl and the loop that applies the Repository. *)
LEMMA EnvironmentStep ==
    ASSUME IInv,
           \/ FetchManifests \/ AgentCreatesCSR \/ OthersTouchCSR
           \/ FlightctlChanges \/ ProfileChanges \/ Day \/ Resync
           \/ RunAgentRegistrationServer \/ LoopStep
    PROVE  IInv'
<1> USE DisturbType DEF IInv, TypeOK, hubVars, loopVars, tlsVars, workVars
<1>0. /\ token \in 0 .. TokenDays /\ failing \in 0 .. TokenDays
      /\ 0 \in 0 .. TokenDays /\ TokenDays \in 0 .. TokenDays
  <2>1. token \in 0 .. TokenDays /\ failing \in 0 .. TokenDays
    BY Zenon DEF HubOK, ProcessOK
  <2> QED BY <2>1, TokenDaysAssumption
<1>1. CASE FetchManifests
  BY <1>1, ElsewhereStep DEF FetchManifests, HubOK, ProcessOK, ReconcilersOK
<1>2. CASE AgentCreatesCSR
  <2>1. csr' \in CSRs /\ queue' \subseteq Keys
    <3>1. PICK x \in Requests \cup DeviceRequests :
            csr' = [state |-> "pending", label |-> "c", request |-> x]
      BY <1>2 DEF AgentCreatesCSR
    <3> QED BY <1>2, <3>1 DEF AgentCreatesCSR, CSRs, ReconcilersOK, Keys
  <2> QED
    BY <1>2, <2>1, ElsewhereStep DEF AgentCreatesCSR, HubOK, ProcessOK, ReconcilersOK
<1>3. CASE OthersTouchCSR
  <2>1. csr' \in CSRs /\ queue' \subseteq Keys
    BY <1>3 DEF OthersTouchCSR, HubOK, CSRs, ReconcilersOK, Keys
  <2> QED
    <3>1. HubOK'
      BY <1>3, <2>1 DEF OthersTouchCSR, HubOK
    <3>2. UNCHANGED <<cluster, seen, loopVars, tlsVars, step, copy>>
      BY <1>3 DEF OthersTouchCSR
    <3>3. disturbances' \in 0 .. MaxDisturbances
      BY <1>3 DEF OthersTouchCSR
    <3> QED
      BY <2>1, <3>1, <3>2, <3>3, ProcessFrame, ReconcilersFrame, ElsewhereStep
<1>4. CASE FlightctlChanges
  BY <1>4, ElsewhereStep DEF FlightctlChanges, HubOK, ProcessOK, ReconcilersOK
<1>5. CASE ProfileChanges
  BY <1>5, ElsewhereStep DEF ProfileChanges, HubOK, ProcessOK, ReconcilersOK
<1>6. CASE Day
  <2>1. token' \in 0 .. TokenDays /\ failing' \in 0 .. TokenDays
    <3>1. /\ token' = IF token > 0 THEN token - 1 ELSE 0
          /\ failing' = IF ran = "failed" /\ failing < TokenDays THEN failing + 1
                                                               ELSE failing
      BY <1>6, Zenon DEF Day
    <3> QED BY <1>0, <3>1, TokenDaysAssumption
  <2> QED
    BY <1>6, <2>1, ElsewhereStep DEF Day, HubOK, ProcessOK, ReconcilersOK
<1>7. CASE Resync
  <2>1. queue' \subseteq Keys /\ UNCHANGED <<hubVars, seen, loopVars, tlsVars, step, copy>>
    BY <1>7 DEF Resync, ReconcilersOK, Keys
  <2> QED
    BY <1>7, <2>1, HubFrame, ProcessFrame, ReconcilersFrame, ElsewhereStep DEF Resync
<1>8. CASE RunAgentRegistrationServer
  <2>1. serving' \in Profiles \cup {"down", "TLS 1.2"}
    BY <1>8, Zenon DEF RunAgentRegistrationServer, HubOK, ProcessOK
  <2>2. disturbances' \in 0 .. MaxDisturbances
    BY <1>8 DEF RunAgentRegistrationServer
  <2>3. UNCHANGED <<hubVars, seen, loopVars, watched, workVars>>
    BY <1>8 DEF RunAgentRegistrationServer
  <2>4. ProcessOK'
    BY <2>1, <2>3 DEF ProcessOK
  <2> QED
    BY <2>2, <2>3, <2>4, HubFrame, ReconcilersFrame, ElsewhereStep DEF ReconcilersOK
<1>9. CASE Poll
  <2>1. /\ server' \in Endpoints \cup {""} /\ loop' \in {"poll", "apply", "daily"}
        /\ ran' \in {"no", "yes", "failed"} /\ (loop' # "poll" => server' # "")
    <3>1. CASE isFlightCtlEnabledAndHealthy
      <4>1. flightctl \in Endpoints /\ server \in Endpoints \cup {""}
        BY <3>1, Zenon DEF isFlightCtlEnabledAndHealthy, HubOK, ProcessOK
      <4>2. /\ server' = IF server = "" THEN flightctl ELSE server
            /\ loop' = "apply" /\ ran' = ran
        BY <1>9, <3>1, Zenon DEF Poll
      <4>3. ran \in {"no", "yes", "failed"}
        BY Zenon DEF ProcessOK
      <4> QED BY <4>1, <4>2, <4>3, EndpointsAssumption
    <3>2. CASE ~isFlightCtlEnabledAndHealthy
      BY <1>9, <3>2 DEF Poll, ProcessOK
    <3> QED BY <3>1, <3>2
  <2> QED
    BY <1>9, <2>1, ElsewhereStep DEF Poll, HubOK, ProcessOK, ReconcilersOK
<1>10. CASE ApplyResources
  <2>1. token' \in 0 .. TokenDays /\ failing' \in 0 .. TokenDays
    BY <1>0, <1>10, Zenon DEF ApplyResources, RepositoryApplied, AttemptFails
  <2>2. loop' \in {"poll", "apply", "daily"} /\ (loop' # "poll" => server' # "")
    BY <1>10 DEF ApplyResources, AttemptFails, ProcessOK
  <2>3. ran' \in {"no", "yes", "failed"}
    BY <1>10 DEF ApplyResources, AttemptFails
  <2>4. disturbances' \in 0 .. MaxDisturbances
    BY <1>10 DEF ApplyResources, AttemptFails
  <2>5. UNCHANGED <<device, flightctl, profile, cluster, csr, manifests, seen,
                    server, tlsVars, workVars>>
    BY <1>10 DEF ApplyResources
  <2>6. HubOK'
    BY <2>1, <2>5 DEF HubOK
  <2>7. ProcessOK'
    BY <2>1, <2>2, <2>3, <2>5 DEF ProcessOK
  <2> QED
    BY <2>4, <2>5, <2>6, <2>7, ReconcilersFrame, ElsewhereStep DEF ReconcilersOK
<1>11. CASE applyRepository
  <2>1. token' \in 0 .. TokenDays /\ failing' \in 0 .. TokenDays
    BY <1>0, <1>11, Zenon DEF applyRepository, RepositoryApplied, AttemptFails
  <2>2. loop' \in {"poll", "apply", "daily"} /\ (loop' # "poll" => server' # "")
    BY <1>11 DEF applyRepository, AttemptFails, ProcessOK
  <2>3. ran' \in {"no", "yes", "failed"}
    BY <1>11 DEF applyRepository, AttemptFails
  <2>4. disturbances' \in 0 .. MaxDisturbances
    BY <1>11 DEF applyRepository, AttemptFails
  <2>5. UNCHANGED <<device, flightctl, profile, cluster, csr, manifests, seen,
                    server, tlsVars, workVars>>
    BY <1>11 DEF applyRepository
  <2>6. HubOK'
    BY <2>1, <2>5 DEF HubOK
  <2>7. ProcessOK'
    BY <2>1, <2>2, <2>3, <2>5 DEF ProcessOK
  <2> QED
    BY <2>4, <2>5, <2>6, <2>7, ReconcilersFrame, ElsewhereStep DEF ReconcilersOK
<1> QED
  BY <1>1, <1>2, <1>3, <1>4, <1>5, <1>6, <1>7, <1>8, <1>9, <1>10, <1>11
  DEF LoopStep

(* Whoever writes the cluster gives it a new version: copies get older. *)
LEMMA ClusterWritten ==
    ASSUME IInv, cluster' \in Clusters, cluster'.ver > cluster.ver,
           cluster'.state # "none",
           HubOK', ProcessOK', ReconcilersOK', RequestOK',
           disturbances' \in 0 .. MaxDisturbances,
           UNCHANGED seen,
           step'["cluster"] = "idle" \/ UNCHANGED <<step, copy>>
    PROVE  IInv'
<1>1. cluster \in Clusters /\ seen \in Clusters
  BY DEF IInv, TypeOK, HubOK, ProcessOK
<1>2. ASSUME NEW c \in Clusters, UpToDate(c)
      PROVE  c.ver <= cluster'.ver /\ c.ver # cluster'.ver
  BY <1>1, <1>2, ClusterFields DEF UpToDate
<1>3. UpToDate(seen)'
  BY <1>1, <1>2 DEF IInv, ClusterOK, UpToDate
<1>4. step'["cluster"] # "idle"
        => /\ copy'["cluster"] \in Clusters /\ copy'["cluster"].state = "there"
           /\ UpToDate(copy["cluster"])'
  BY <1>2 DEF IInv, ClusterOK, UpToDate
<1> QED BY <1>3, <1>4 DEF IInv, TypeOK, ClusterOK

LEMMA ClusterStep ==
    ASSUME IInv,
           \/ UserCreatesCluster \/ AgentCreatesCluster \/ UserEditsCluster
           \/ CacheSync
    PROVE  IInv'
<1> USE DisturbType DEF IInv, TypeOK, hubVars, loopVars, tlsVars, workVars
<1>0. cluster \in Clusters /\ seen \in Clusters /\ seen.ver <= cluster.ver
  BY Zenon DEF HubOK, ProcessOK
<1>1. CASE UserCreatesCluster \/ AgentCreatesCluster
  <2>1. PICK a \in BOOLEAN :
          cluster' = [state |-> "there", accepted |-> a, edit |-> 0, ver |-> 1]
    BY <1>1 DEF UserCreatesCluster, AgentCreatesCluster
  <2>2. cluster' \in Clusters /\ cluster'.ver = 1 /\ cluster'.state # "none"
    BY <2>1 DEF Clusters
  <2>3. cluster.ver = 0
    BY <1>1 DEF UserCreatesCluster, AgentCreatesCluster, ClusterOK, NoCluster
  <2>4. seen.ver <= cluster'.ver
    BY <1>0, <2>2, <2>3, ClusterFields
  <2>5. HubOK'
    <3>1. manifests' \in BOOLEAN
      BY <1>1, Zenon DEF UserCreatesCluster, AgentCreatesCluster, HubOK
    <3> QED BY <1>1, <2>2, <3>1 DEF UserCreatesCluster, AgentCreatesCluster, HubOK
  <2>6. UNCHANGED <<seen, loopVars, tlsVars, workVars, disturbances>>
    BY <1>1 DEF UserCreatesCluster, AgentCreatesCluster
  <2>7. ProcessOK'
    BY <2>4, <2>6 DEF ProcessOK
  <2>8. ReconcilersOK' /\ RequestOK'
    BY <2>6 DEF ReconcilersOK, RequestOK
  <2> QED BY <2>2, <2>3, <2>5, <2>6, <2>7, <2>8, ClusterWritten
<1>2. CASE UserEditsCluster
  <2>1. /\ cluster' \in Clusters /\ cluster'.ver = cluster.ver + 1
        /\ cluster'.state # "none"
    <3>1. cluster.ver + 1 \in Nat /\ cluster.edit + 1 \in Nat
      BY <1>0, ClusterFields
    <3>2. CASE \E a \in BOOLEAN :
                 cluster' = [cluster EXCEPT !.accepted = a, !.edit = @ + 1,
                                            !.ver = @ + 1]
      BY <1>0, <1>2, <3>1, <3>2 DEF UserEditsCluster, Clusters
    <3>3. CASE cluster' = [cluster EXCEPT !.state = "deleting", !.ver = @ + 1]
      BY <1>0, <3>1, <3>3 DEF Clusters
    <3> QED BY <1>2, <3>2, <3>3 DEF UserEditsCluster
  <2>2. HubOK'
    BY <1>2, <2>1 DEF UserEditsCluster, HubOK
  <2>3. UNCHANGED <<seen, loopVars, tlsVars, workVars>>
    BY <1>2 DEF UserEditsCluster
  <2>4. seen.ver <= cluster'.ver /\ cluster'.ver > cluster.ver
    BY <1>0, <2>1, ClusterFields
  <2>5. ProcessOK'
    BY <2>3, <2>4 DEF ProcessOK
  <2>6. ReconcilersOK' /\ RequestOK'
    BY <2>3 DEF ReconcilersOK, RequestOK
  <2>7. disturbances' \in 0 .. MaxDisturbances
    BY <1>2 DEF UserEditsCluster
  <2> QED BY <2>1, <2>2, <2>3, <2>4, <2>5, <2>6, <2>7, ClusterWritten
<1>3. CASE CacheSync
  <2>1. UNCHANGED <<hubVars, loopVars, tlsVars, step, copy, disturbances>>
    BY <1>3 DEF CacheSync
  <2>2. seen' = cluster /\ seen'.ver <= cluster'.ver
    BY <1>0, <1>3, ClusterFields DEF CacheSync
  <2>3. queue' \subseteq Keys
    BY <1>3 DEF CacheSync, ReconcilersOK, Keys
  <2>4. HubOK' /\ ReconcilersOK' /\ RequestOK'
    BY <2>1, <2>3, HubFrame, ReconcilersFrame DEF RequestOK
  <2>5. ProcessOK'
    BY <1>0, <2>1, <2>2 DEF ProcessOK
  <2>6. ClusterOK'
    BY <2>1, <2>2 DEF ClusterOK, UpToDate
  <2> QED BY <2>1, <2>4, <2>5, <2>6
<1> QED BY <1>1, <1>2, <1>3

(* The process starts anew, without copies. *)
LEMMA RestartStep ==
    ASSUME IInv, StartAnew, Disturb \/ UNCHANGED disturbances PROVE IInv'
<1> USE DisturbType DEF IInv, TypeOK, hubVars
<1>0. cluster \in Clusters
  BY DEF HubOK
<1>1. StartAnew /\ disturbances' \in 0 .. MaxDisturbances
  OBVIOUS
<1>2. seen' = cluster /\ cluster' = cluster
  BY <1>1, Zenon DEF StartAnew
<1>3. seen'.ver <= cluster'.ver
  BY <1>0, <1>2, ClusterFields
<1>4. HubOK' /\ ProcessOK'
  <2>1. failing' \in 0 .. TokenDays /\ ran' = "no"
    BY <1>1, Zenon DEF StartAnew, ProcessOK
  <2>2. HubOK'
    BY <1>1, HubFrame DEF StartAnew
  <2> QED BY <1>1, <1>2, <1>3, <2>1, <2>2 DEF StartAnew, ProcessOK, HubOK
<1>5. ReconcilersOK' /\ step'["csr"] = "idle" /\ step'["cluster"] = "idle"
  BY <1>1 DEF StartAnew, ReconcilersOK, Keys
<1>6. ClusterOK'
  BY <1>5, <1>2, <1>3 DEF ClusterOK, UpToDate
<1> QED BY <1>1, <1>4, <1>5, <1>6 DEF RequestOK

(* A profile is watched, none is, or the process ends. *)
LEMMA WatcherStep ==
    ASSUME IInv, SetupTLSProfileWatcher PROVE IInv'
<1>1. CASE StartAnew /\ Disturb
  BY <1>1, RestartStep
<1>2. CASE /\ watched' \in {profile, "nothing"}
           /\ Disturb \/ UNCHANGED disturbances
           /\ UNCHANGED <<hubVars, seen, loopVars, serving, workVars>>
  <2> USE DEF IInv, TypeOK
  <2>1. disturbances' \in 0 .. MaxDisturbances
    BY <1>2, DisturbType
  <2>2. watched' \in Profiles \cup {"none", "nothing"}
    BY <1>2 DEF HubOK
  <2>3. ProcessOK'
    BY <1>2, <2>2 DEF ProcessOK, hubVars, loopVars
  <2>4. HubOK' /\ ReconcilersOK'
    BY <1>2, HubFrame, ReconcilersFrame DEF workVars, ReconcilersOK
  <2> QED
    BY <1>2, <2>1, <2>3, <2>4, ElsewhereStep DEF hubVars, workVars
<1> QED BY <1>1, <1>2 DEF SetupTLSProfileWatcher

-----------------------------------------------------------------------------
(* A step of csr-controller, or of flightctl's reconciler of the cluster,   *)
(* is no concern of the other.                                              *)
LEMMA CSRKeyStep ==
    ASSUME IInv, HubOK', ReconcilersOK', OthersRest("csr"), RequestOK',
           disturbances' \in 0 .. MaxDisturbances,
           UNCHANGED <<cluster, seen, loopVars, tlsVars>>
    PROVE  IInv'
BY DEF IInv, TypeOK, ProcessOK, ClusterOK, UpToDate, OthersRest, Keys, loopVars,
       tlsVars

LEMMA ClusterKeyStep ==
    ASSUME IInv, ReconcilersOK', OthersRest("cluster"), ClusterOK',
           disturbances' \in 0 .. MaxDisturbances,
           UNCHANGED <<hubVars, seen, loopVars, tlsVars>>
    PROVE  IInv'
<1>1. HubOK' /\ ProcessOK'
  BY HubFrame, ProcessFrame DEF IInv, TypeOK, hubVars
<1>2. RequestOK'
  BY DEF IInv, RequestOK, OthersRest, Keys
<1> QED BY <1>1, <1>2 DEF IInv, TypeOK

LEMMA FailureStep ==
    ASSUME IInv, NEW k \in Keys, CallFails(k) PROVE IInv'
<1> USE DEF IInv, TypeOK
<1>1. /\ ReconcilersOK' /\ step'[k] = "idle" /\ OthersRest(k)
      /\ disturbances' \in 0 .. MaxDisturbances
  BY EndFacts, DisturbType DEF CallFails
<1>2. UNCHANGED <<hubVars, seen, loopVars, tlsVars>> /\ HubOK'
  BY DEF CallFails, hubVars, HubOK
<1>3. CASE k = "csr"
  BY <1>1, <1>2, <1>3, CSRKeyStep DEF RequestOK, hubVars
<1>4. CASE k = "cluster"
  <2>1. ClusterOK'
    BY <1>1, <1>2, <1>4 DEF ClusterOK, UpToDate, hubVars
  <2> QED BY <1>1, <1>2, <1>4, <2>1, ClusterKeyStep
<1> QED BY <1>3, <1>4 DEF Keys

LEMMA CSRStep == ASSUME IInv, ReconcileCSR PROVE IInv'
<1> USE DEF IInv, TypeOK, hubVars
<1>0. "csr" \in Keys
  BY DEF Keys
<1>1. CASE GetCSR
  <2>1. CASE csr.state = "pending"
    <3>1. csr # None /\ csr \in CSRs
      BY <2>1 DEF None, HubOK
    <3>2. /\ ReconcilersOK' /\ OthersRest("csr")
          /\ step'["csr"] = "decide" /\ copy'["csr"] = csr
      BY <1>0, <1>1, <2>1, <3>1, TakeFacts DEF GetCSR
    <3>3. RequestOK'
      BY <2>1, <3>1, <3>2 DEF RequestOK
    <3> QED
      BY <1>1, <3>2, <3>3, CSRKeyStep DEF GetCSR, HubOK
  <2>2. CASE csr.state # "pending"
    BY <1>1, <2>2, CSRKeyStep DEF GetCSR, HubOK, ReconcilersOK, OthersRest, RequestOK
  <2> QED BY <2>1, <2>2
<1>2. CASE DecideCSR
  <2>1. CASE Done("csr") \/ Requeue("csr")
    <3>1. ReconcilersOK' /\ step'["csr"] = "idle" /\ OthersRest("csr")
      BY <1>0, <2>1, EndFacts
    <3> QED BY <1>2, <3>1, CSRKeyStep DEF DecideCSR, HubOK, RequestOK
  <2>2. CASE /\ ValidateClusterCSRRequest(copy["csr"].request, copy["csr"].label)
             /\ Go("csr", "write") /\ UNCHANGED <<queue, copy>>
    <3>1. /\ ReconcilersOK' /\ OthersRest("csr")
          /\ step'["csr"] = "write" /\ copy'["csr"] = copy["csr"]
      BY <1>0, <1>2, <2>2, WriteFacts DEF DecideCSR
    <3>2. RequestOK'
      BY <1>2, <2>2, <3>1 DEF DecideCSR, RequestOK
    <3> QED BY <1>2, <3>1, <3>2, CSRKeyStep DEF DecideCSR, HubOK
  <2> QED BY <1>2, <2>1, <2>2 DEF DecideCSR
<1>3. CASE UpdateApproval
  <2>1. ReconcilersOK' /\ step'["csr"] = "idle" /\ OthersRest("csr")
    BY <1>0, <1>3, EndFacts DEF UpdateApproval
  <2>2. csr' \in CSRs
    BY <1>3 DEF UpdateApproval, HubOK, CSRs
  <2> QED
    BY <1>3, <2>1, <2>2, CSRKeyStep DEF UpdateApproval, HubOK, RequestOK
<1> QED BY <1>1, <1>2, <1>3 DEF ReconcileCSR

LEMMA AcceptStep == ASSUME IInv, ReconcileCluster PROVE IInv'
<1> USE DEF IInv, TypeOK, hubVars
<1>0. "cluster" \in Keys
  BY DEF Keys
<1>1. CASE GetCluster
  <2>1. CASE seen.state = "there" /\ Take("cluster", seen) /\ queue' \subseteq queue
    <3>1. seen # None /\ seen \in Clusters
      <4>1. seen \in Clusters
        BY DEF ProcessOK
      <4> QED BY <2>1, <4>1 DEF None
    <3>2. /\ ReconcilersOK' /\ OthersRest("cluster")
          /\ step'["cluster"] = "decide" /\ copy'["cluster"] = seen
      BY <1>0, <2>1, <3>1, TakeFacts
    <3>3. ClusterOK'
      BY <1>1, <2>1, <3>1, <3>2 DEF GetCluster, ClusterOK, UpToDate
    <3> QED BY <1>1, <3>2, <3>3, ClusterKeyStep DEF GetCluster
  <2>2. CASE UNCHANGED <<step, copy>> /\ queue' \subseteq queue
    <3>1. ReconcilersOK' /\ OthersRest("cluster")
      BY <2>2 DEF ReconcilersOK, OthersRest
    <3>2. ClusterOK'
      BY <1>1, <2>2 DEF GetCluster, ClusterOK, UpToDate
    <3> QED BY <1>1, <3>1, <3>2, ClusterKeyStep DEF GetCluster
  <2> QED BY <1>1, <2>1, <2>2 DEF GetCluster
<1>2. CASE DecideCluster
  <2>1. CASE Done("cluster") \/ Requeue("cluster")
    <3>1. ReconcilersOK' /\ step'["cluster"] = "idle" /\ OthersRest("cluster")
      BY <1>0, <2>1, EndFacts
    <3>2. ClusterOK'
      BY <1>2, <3>1 DEF DecideCluster, ClusterOK, UpToDate
    <3> QED BY <1>2, <3>1, <3>2, ClusterKeyStep DEF DecideCluster
  <2>2. CASE Go("cluster", "write") /\ UNCHANGED <<queue, copy>>
    <3>1. /\ ReconcilersOK' /\ OthersRest("cluster")
          /\ step'["cluster"] = "write" /\ copy'["cluster"] = copy["cluster"]
      BY <1>0, <1>2, <2>2, WriteFacts DEF DecideCluster
    <3>2. ClusterOK'
      BY <1>2, <3>1 DEF DecideCluster, ClusterOK, UpToDate
    <3> QED BY <1>2, <3>1, <3>2, ClusterKeyStep DEF DecideCluster
  <2> QED BY <1>2, <2>1, <2>2 DEF DecideCluster
<1>3. CASE AcceptCluster
  <2>1. ReconcilersOK' /\ step'["cluster"] = "idle" /\ OthersRest("cluster")
    BY <1>0, <1>3, EndFacts DEF AcceptCluster
  <2>2. CASE copy["cluster"].ver = cluster.ver /\ cluster' = Accepting
    <3>1. copy["cluster"] = cluster /\ cluster.state = "there"
      BY <1>3, <2>2 DEF AcceptCluster, ClusterOK, UpToDate
    <3>2. /\ cluster' \in Clusters /\ cluster'.ver = cluster.ver + 1
          /\ cluster'.state = "there"
      <4>1. cluster \in Clusters /\ cluster.ver + 1 \in Nat
        BY ClusterFields DEF HubOK
      <4>2. cluster' = [cluster EXCEPT !.accepted = TRUE, !.ver = cluster.ver + 1]
        BY <2>2, <3>1 DEF Accepting
      <4> QED BY <3>1, <4>1, <4>2 DEF Clusters
    <3>3. UNCHANGED <<device, flightctl, token, profile, csr, manifests, seen,
                      loopVars, tlsVars, disturbances>>
      BY <1>3 DEF AcceptCluster
    <3>4. seen.ver <= cluster'.ver /\ cluster'.ver > cluster.ver
      <4>1. cluster \in Clusters /\ seen \in Clusters /\ seen.ver <= cluster.ver
        BY Zenon DEF HubOK, ProcessOK
      <4> QED BY <3>2, <4>1, ClusterFields
    <3>5. HubOK' /\ ProcessOK'
      BY <3>2, <3>3, <3>4 DEF HubOK, ProcessOK, loopVars, tlsVars
    <3>6. RequestOK'
      BY <2>1 DEF RequestOK, OthersRest, Keys
    <3> QED
      BY <2>1, <3>2, <3>3, <3>4, <3>5, <3>6, ClusterWritten
  <2>3. CASE UNCHANGED cluster
    <3>1. ClusterOK'
      BY <1>3, <2>1, <2>3 DEF AcceptCluster, ClusterOK, UpToDate
    <3> QED BY <1>3, <2>1, <2>3, <3>1, ClusterKeyStep DEF AcceptCluster
  <2> QED BY <1>3, <2>2, <2>3 DEF AcceptCluster
<1> QED BY <1>1, <1>2, <1>3 DEF ReconcileCluster

-----------------------------------------------------------------------------
LEMMA IInvStep == IInv /\ [Next]_vars => IInv'
<1> SUFFICES ASSUME IInv, [Next]_vars PROVE IInv'
  OBVIOUS
<1>1. CASE Next
  BY <1>1, EnvironmentStep, ClusterStep, RestartStep, WatcherStep, FailureStep,
     CSRStep, AcceptStep
  DEF Next, AgentStep, Restart, OnProfileChange
<1>2. CASE UNCHANGED vars
  <2>1. UNCHANGED <<hubVars, seen, loopVars, tlsVars, queue, step, copy, disturbances>>
    BY <1>2 DEF vars, workVars
  <2>2. HubOK' /\ ProcessOK' /\ ReconcilersOK'
    BY <2>1, HubFrame, ProcessFrame, ReconcilersFrame
    DEF IInv, TypeOK, hubVars, ReconcilersOK
  <2> QED BY <2>1, <2>2, ElsewhereStep DEF IInv, TypeOK, hubVars
<1> QED BY <1>1, <1>2

LEMMA Invariant == Spec => []IInv
BY InitIInv, IInvStep, PTL DEF Spec

(***************************************************************************)
(* The hub, the process and the two reconcilers keep to their types: the   *)
(* cache never runs ahead of the cluster, and the Repository is applied    *)
(* only when the address of flightctl is known.                            *)
(***************************************************************************)
THEOREM TypeCorrect == Spec => []TypeOK
BY Invariant, PTL DEF IInv

(***************************************************************************)
(* csr-controller overrules no decision and approves no identity but that  *)
(* of the cluster the request is labelled with, for any requests of the    *)
(* agents and any number of disturbances.                                  *)
(***************************************************************************)
THEOREM ApprovalsAreValidated == Spec => ApprovesWhatItRead
<1> DEFINE Approves ==
      csr'.state # csr.state /\ csr.state # "none"
         => /\ csr.state = "pending"
            /\ csr'.state = "auto"
                 => ValidateClusterCSRRequest(csr.request, csr.label)
<1>1. ASSUME IInv, Next PROVE Approves \/ UNCHANGED csr
  <2>1. CASE AgentCreatesCSR
    BY <2>1 DEF AgentCreatesCSR
  <2>2. CASE OthersTouchCSR
    BY <1>1, <2>2 DEF OthersTouchCSR, IInv, TypeOK, HubOK, CSRs
  <2>3. CASE UpdateApproval
    BY <1>1, <2>3 DEF UpdateApproval, IInv, RequestOK
  <2> QED
    BY <1>1, <2>1, <2>2, <2>3
    DEF Next, AgentStep, LoopStep, ReconcileCSR, ReconcileCluster, FetchManifests,
        UserCreatesCluster, AgentCreatesCluster, UserEditsCluster,
        FlightctlChanges, ProfileChanges, Day, CacheSync, Resync, Restart,
        StartAnew, RunAgentRegistrationServer, SetupTLSProfileWatcher,
        OnProfileChange, Poll, ApplyResources, applyRepository, CallFails, GetCSR,
        DecideCSR, GetCluster, DecideCluster, AcceptCluster, hubVars
<1>2. IInv /\ [Next]_vars => [Approves]_csr
  BY <1>1 DEF vars, hubVars
<1> QED BY <1>2, Invariant, PTL DEF Spec, ApprovesWhatItRead

(***************************************************************************)
(* Accepting a device from a cached copy undoes no edit and revives no     *)
(* cluster: the write is refused unless the copy is the cluster itself.    *)
(***************************************************************************)
THEOREM AcceptingUndoesNothing == Spec => AcceptingKeepsEdits
<1> DEFINE Keeps ==
      cluster.state # "none" => /\ cluster'.edit >= cluster.edit
                                /\ cluster.state = "deleting"
                                     => cluster'.state = "deleting"
<1>1. ASSUME IInv, Next PROVE Keeps \/ UNCHANGED cluster
  <2>0. cluster \in Clusters /\ cluster.edit \in Nat
    BY <1>1 DEF IInv, TypeOK, HubOK, Clusters
  <2>1. CASE UserCreatesCluster \/ AgentCreatesCluster
    BY <2>1 DEF UserCreatesCluster, AgentCreatesCluster
  <2>2. CASE UserEditsCluster
    <3>1. cluster'.edit \in {cluster.edit, cluster.edit + 1}
      BY <2>0, <2>2 DEF UserEditsCluster, Clusters
    <3>2. cluster.state # "deleting"
      BY <2>2 DEF UserEditsCluster
    <3> QED BY <2>0, <3>1, <3>2
  <2>3. CASE AcceptCluster
    <3>1. CASE copy["cluster"].ver = cluster.ver
      <4>1. copy["cluster"] = cluster
        BY <1>1, <2>3, <3>1 DEF AcceptCluster, IInv, ClusterOK, UpToDate
      <4>2. cluster' = [cluster EXCEPT !.accepted = TRUE, !.ver = cluster.ver + 1]
        BY <2>3, <3>1, <4>1 DEF AcceptCluster, Accepting
      <4>3. cluster'.edit = cluster.edit /\ cluster'.state = cluster.state
        BY <2>0, <4>2 DEF Clusters
      <4> QED BY <2>0, <4>3
    <3>2. CASE copy["cluster"].ver # cluster.ver
      BY <2>3, <3>2 DEF AcceptCluster
    <3> QED BY <3>1, <3>2
  <2> QED
    BY <1>1, <2>1, <2>2, <2>3
    DEF Next, AgentStep, LoopStep, ReconcileCSR, ReconcileCluster, FetchManifests,
        AgentCreatesCSR, OthersTouchCSR, FlightctlChanges, ProfileChanges, Day,
        CacheSync, Resync, Restart, StartAnew, RunAgentRegistrationServer,
        SetupTLSProfileWatcher, OnProfileChange, Poll, ApplyResources,
        applyRepository, CallFails, GetCSR, DecideCSR, UpdateApproval, GetCluster,
        DecideCluster, hubVars
<1>2. IInv /\ [Next]_vars => [Keeps]_cluster
  BY <1>1 DEF vars, hubVars
<1> QED BY <1>2, Invariant, PTL DEF Spec, AcceptingKeepsEdits

-----------------------------------------------------------------------------
(* A token is as old as the days that have failed since the last success,   *)
(* or one day older; after a success of today it is new.                    *)
FreshOK ==
    /\ token + failing >= TokenDays - 1
    /\ ran = "yes" => token = TokenDays

LEMMA FreshStep == TypeOK /\ FreshOK /\ [Next]_vars => FreshOK'
<1> SUFFICES ASSUME TypeOK, FreshOK, [Next]_vars PROVE FreshOK'
  OBVIOUS
<1>0. /\ token \in 0 .. TokenDays /\ failing \in 0 .. TokenDays
      /\ ran \in {"no", "yes", "failed"}
  BY DEF TypeOK, HubOK, ProcessOK
<1>1. CASE Day
  BY <1>0, <1>1, TokenDaysAssumption DEF Day, FreshOK
<1>2. CASE Poll
  BY <1>2 DEF Poll, FreshOK, hubVars
<1>3. CASE ApplyResources \/ applyRepository
  BY <1>0, <1>3, TokenDaysAssumption
  DEF ApplyResources, applyRepository, RepositoryApplied, AttemptFails, FreshOK
<1>4. CASE StartAnew
  BY <1>4 DEF StartAnew, FreshOK, hubVars
<1>5. CASE UNCHANGED <<token, failing, ran>>
  BY <1>5 DEF FreshOK
<1> QED
  BY <1>1, <1>2, <1>3, <1>4, <1>5
  DEF Next, AgentStep, LoopStep, ReconcileCSR, ReconcileCluster, FetchManifests,
      UserCreatesCluster, AgentCreatesCluster, AgentCreatesCSR, OthersTouchCSR,
      UserEditsCluster, FlightctlChanges, ProfileChanges, CacheSync, Resync,
      Restart, RunAgentRegistrationServer, SetupTLSProfileWatcher,
      OnProfileChange, CallFails, GetCSR, DecideCSR, UpdateApproval, GetCluster,
      DecideCluster, AcceptCluster, hubVars, loopVars, vars

(***************************************************************************)
(* RepositoryStaysFresh for tokens of any number of days: retries, the     *)
(* change from polling to the daily timer and restarts neither skip a day  *)
(* nor let a success of an earlier day count for a later one.              *)
(***************************************************************************)
THEOREM TokenOutlivesFailures == Spec => []RepositoryStaysFresh
<1>1. Init => FreshOK
  <2>1. Init => token = 0 /\ failing = TokenDays /\ ran = "no"
    BY Zenon DEF Init
  <2> QED BY <2>1, TokenDaysAssumption DEF FreshOK
<1>2. TypeOK /\ FreshOK => RepositoryStaysFresh
  <2>1. TypeOK => token \in 0 .. TokenDays /\ failing \in 0 .. TokenDays
    BY Zenon DEF TypeOK, HubOK, ProcessOK
  <2> QED BY <2>1, TokenDaysAssumption DEF FreshOK, RepositoryStaysFresh
<1> QED BY <1>1, <1>2, FreshStep, TypeCorrect, PTL DEF Spec
============================================================================
