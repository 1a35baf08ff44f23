------------------------- MODULE KlusterletManifests -------------------------
(***************************************************************************)
(* The manifests of an import secret, as far as settings of the cluster,   *)
(* of its KlusterletConfig and of the hub decide on them.                  *)
(*                                                                         *)
(* mc is what the controller reads of a ManagedCluster: its deploy mode,   *)
(* selfManaged and openshift (labels), assigned (it names the              *)
(* KlusterletConfig "named"), and the annotations nodes, registries and    *)
(* namespace.                                                              *)
(***************************************************************************)
EXTENDS BootstrapKubeconfig, Sequences

HostedMode(mode) == mode \in {"Hosted", "SingletonHosted"}
DefaultMode(mode) == mode \in {"Default", "Singleton"}

(* A hosted cluster needs a feature gate. *)
ValidateKlusterletMode(mode, hostedGate) == mode = "Hosted" => hostedGate

installNoOperator(mode, kc) == HostedMode(mode) \/ kc.noOperator # ""

(* The klusterlet's name and namespace, "" for the name's default part. *)
getKlusterletNamespaceName(mc, kc) ==
    LET name == IF HostedMode(mc.mode) THEN "cluster" ELSE ""
    IN [name |-> <<name, kc.noOperator>>,
        namespace |-> IF kc.noOperator # "" THEN kc.noOperator
                                            ELSE Over(name, mc.namespace)]

(* An image is its registry: a source matches its registry, or is "". *)
imageOverride(registry, image) ==
    IF registry.source \in {"", image} THEN registry.mirror ELSE image

Overrides(registries, image) ==
    SelectSeq([i \in DOMAIN registries |-> imageOverride(registries[i], image)],
              LAMBDA name : name # image)

(* The last registry that changes the name decides ... *)
getKlusterletAgentImages(registries, image) ==
    LET names == Overrides(registries, image)
    IN IF names = <<>> THEN image ELSE names[Len(names)]

(* ... but the first one for the sidecar of an OpenShift cluster. *)
getTLSProfileSyncImage(registries, image) ==
    LET names == Overrides(registries, image)
    IN IF names = <<>> THEN image ELSE Head(names)

getImagePullSecret(hub, pull) == pull = "" \/ pull \in DOMAIN hub.secrets

(* Where gRPC agents connect to; "" if that is not known. *)
buildGRPCConfigData(hub) ==
    CASE hub.route = "" -> IF hub.balancer = "?" THEN "" ELSE hub.balancer
      [] hub.route = "?" -> ""
      [] OTHER -> hub.route

(***************************************************************************)
(* The bootstrap secrets among the manifests: names and their kubeconfigs. *)
(* The chart renders the secret of its own hub under its usual name only   *)
(* if there are no others.                                                 *)
(***************************************************************************)
BootstrapSecret == "bootstrap-hub-kubeconfig"
CurrentHub == "bootstrap-hub-kubeconfig-current-hub"

convertKubeConfigSecrets(hub, mc, kc, kubeconfig) ==
    CASE mc.selfManaged \/ kc.others = {} -> {<<BootstrapSecret, kubeconfig>>}
      [] OTHER -> {<<n, hub.secrets[n]>> : n \in kc.others}
                    \cup IF kc.withCurrent THEN {<<CurrentHub, kubeconfig>>}
                                           ELSE {}

(* ok is FALSE for an error; otherwise the manifests. *)
NoManifests == [ok |-> FALSE]

Generate(hub, mc, kc, kubeconfig) ==
    LET own == IF DefaultMode(mc.mode) THEN kc ELSE NoConfig
        nodes == Over(mc.nodes, own.nodes)
        registries == IF own.registries = <<>> THEN mc.registries
                                               ELSE own.registries
        noOperator == installNoOperator(mc.mode, kc)
        multiple == ~mc.selfManaged /\ kc.others # {}
    IN IF \/ ~HostedMode(mc.mode) /\ ~DefaultMode(mc.mode)
          \/ nodes = "invalid" \/ own.grace = "invalid"
          \/ DefaultMode(mc.mode) /\ ~getImagePullSecret(hub, own.pull)
          \/ multiple /\ ~(kc.others \subseteq DOMAIN hub.secrets)
          \/ kc.grpc /\ (~hub.grpcCA \/ buildGRPCConfigData(hub) = "")
         THEN NoManifests
         ELSE [ok |-> TRUE,
               place |-> getKlusterletNamespaceName(mc, kc),
               nodes |-> nodes, grace |-> own.grace,
               image |-> getKlusterletAgentImages(registries, "quay"),
               sidecar |-> IF mc.openshift /\ ~noOperator
                             THEN getTLSProfileSyncImage(registries, "quay")
                             ELSE "",
               crds |-> ~noOperator,
               grpc |-> IF kc.grpc THEN buildGRPCConfigData(hub) ELSE "",
               kubeconfigs |-> convertKubeConfigSecrets(hub, mc, kc, kubeconfig)]
=============================================================================
