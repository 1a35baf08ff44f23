------------------------- MODULE BootstrapKubeconfig -------------------------
(***************************************************************************)
(* What a bootstrap kubeconfig says: which address an agent dials, through *)
(* which proxy, and which certificates it trusts.                          *)
(*                                                                         *)
(* A KlusterletConfig is a record of the fields that matter here; ""       *)
(* stands for an empty field.  config: hubKubeAPIServerConfig is present,  *)
(* with url, strategy, bundles (trustedCABundles: the name of each and the  *)
(* ConfigMap it is in) and proxy.  oldURL to proxyCA are the deprecated    *)
(* fields.  The rest says what the manifests look like: nodes (nodePlacement), grace (the         *)
(* eviction grace period), pull (the pull secret), registries (pairs of    *)
(* source and mirror), noOperator (the postfix of that install mode),      *)
(* others (the kubeconfig secrets of multipleHubsConfig), withCurrent      *)
(* (they include the current hub) and grpc (the registration driver).  A   *)
(* bundle of certificates is a set; order and duplicates do not survive    *)
(* mergeCertificateData.  NoConfig is a KlusterletConfig without settings, *)
(* and stands for one that does not exist, too.                            *)
(***************************************************************************)

NoConfig == [config |-> FALSE, url |-> "", strategy |-> "", bundles |-> {},
             proxy |-> "", oldURL |-> "", oldCA |-> {}, httpProxy |-> "",
             httpsProxy |-> "", proxyCA |-> {}, nodes |-> "", grace |-> "",
             pull |-> "", registries |-> <<>>, noOperator |-> "",
             others |-> {}, withCurrent |-> FALSE, grpc |-> FALSE]

System == "UseSystemTruststore"
AutoDetected == "UseAutoDetectedCABundle"
Custom == "UseCustomCABundles"

(***************************************************************************)
(* MergeKlusterletConfigs of the global and the assigned KlusterletConfig. *)
(* A field of the second overrides one of the first; the settings of       *)
(* hubKubeAPIServerConfig are merged one by one, and deprecated fields     *)
(* move into it.                                                           *)
(***************************************************************************)
Over(base, new) == IF new = "" THEN base ELSE new
OverSet(base, new) == IF new = {} THEN base ELSE new

containsCA(bundles, bundle) == \E b \in bundles : b.name = bundle.name

(* Mutant: the global bundle wins over the assigned one of the same name. *)
mergeTrustedCABundlesGlobalFirst(old, new) ==
    old \cup {b \in new : ~containsCA(old, b)}

mergeTrustedCABundles(old, new) ==
    new \cup {b \in old : ~containsCA(new, b)}

MergeKlusterletConfigs(g, c) ==
    LET proxied == c.httpProxy # "" \/ c.httpsProxy # "" \/ c.proxyCA # {}
        merged ==
          [config |-> g.config \/ c.config,
           url |-> Over(g.url, c.url),
           strategy |-> Over(g.strategy, c.strategy),
           bundles |-> mergeTrustedCABundles(g.bundles, c.bundles),
           proxy |-> Over(g.proxy, c.proxy),
           oldURL |-> Over(g.oldURL, c.oldURL),
           oldCA |-> OverSet(g.oldCA, c.oldCA),
           httpProxy |-> IF proxied THEN c.httpProxy ELSE g.httpProxy,
           httpsProxy |-> IF proxied THEN c.httpsProxy ELSE g.httpsProxy,
           proxyCA |-> IF proxied THEN c.proxyCA ELSE g.proxyCA,
           nodes |-> Over(g.nodes, c.nodes),
           grace |-> Over(g.grace, c.grace),
           pull |-> Over(g.pull, c.pull),
           registries |-> IF c.registries = <<>> THEN g.registries
                                                 ELSE c.registries,
           noOperator |-> Over(g.noOperator, c.noOperator),
           others |-> OverSet(g.others, c.others),
           withCurrent |-> IF c.others = {} THEN g.withCurrent
                                            ELSE c.withCurrent,
           grpc |-> g.grpc \/ c.grpc]
    IN IF g # NoConfig /\ c # NoConfig /\ merged.config
         THEN [merged EXCEPT
                 !.url = Over(merged.oldURL, @),
                 !.proxy = Over(Over(merged.httpProxy, merged.httpsProxy), @)]
         ELSE merged

-----------------------------------------------------------------------------
(* Certificate data, or the error that kept the code from reading it. *)
Error == [ok |-> FALSE, certs |-> {}]
Data(certs) == [ok |-> TRUE, certs |-> certs]

(* A bundle that is no PEM is a set with this certificate. *)
Garbage == "garbage"

mergeCertificateData(a, b) ==
    IF Garbage \in a \cup b THEN Error ELSE Data(a \cup b)

(***************************************************************************)
(* hub: what the controller reads of its own cluster.                      *)
(*   ocp       the hub is an OpenShift cluster                             *)
(*   url       its Infrastructure's address, "" if there is none           *)
(*   uid       the Infrastructure's uid                                    *)
(*   named     the certificates its APIServer names, by address            *)
(*   ibm       its nodes are IBM Cloud's                                   *)
(*   dial      what dialing the address with the system's roots gives:     *)
(*             "known", "unknown" (authority) or "error"                   *)
(*   root      kube-root-ca.crt in the cluster namespace                   *)
(*   maps      the CA ConfigMaps, by name                                  *)
(*   secrets   the secrets of the controller's namespace                   *)
(*   grpcCA    the hub's CA ConfigMap for gRPC                             *)
(*   route     the host of the gRPC route, "" for none, "?" if not known   *)
(*   balancer  the same for the load balancer's ingress                    *)
(*   generate  the config secret is to be generated                        *)
(***************************************************************************)
getCABundleFromConfigmap(hub, name) ==
    IF name \in DOMAIN hub.maps THEN Data(hub.maps[name]) ELSE Error

getCustomCAData(hub, bundles) ==
    IF \E b \in bundles : ~getCABundleFromConfigmap(hub, b.map).ok
      THEN Error
      ELSE mergeCertificateData({}, UNION {hub.maps[b.map] : b \in bundles})

getKubeRootCABundle(hub) == IF hub.root = {} THEN Error ELSE Data(hub.root)

(* The certificate named for the address; {} if its secret is not found. *)
getCustomKubeAPIServerCertificate(hub, server) ==
    IF server \in DOMAIN hub.named THEN hub.named[server] ELSE {}

autoDetectCAData(hub, server) ==
    LET cert == getCustomKubeAPIServerCertificate(hub, server)
    IN CASE ~hub.ocp -> getKubeRootCABundle(hub)
         [] hub.ocp /\ cert # {} -> Data(cert)
         [] hub.ocp /\ cert = {} /\ hub.ibm /\ hub.dial = "error" -> Error
         [] hub.ocp /\ cert = {} /\ hub.ibm /\ hub.dial = "known" -> Data({})
         [] OTHER -> getKubeRootCABundle(hub)

(* Mutant: trustedCABundles count for the custom strategy only. *)
getKubeAPIServerCADataFromConfigDetected(hub, server, kc) ==
    CASE kc.strategy = System -> Data({})
      [] kc.strategy = Custom -> getCustomCAData(hub, kc.bundles)
      [] OTHER -> autoDetectCAData(hub, server)

getKubeAPIServerCADataFromConfig(hub, server, kc) ==
    LET detected == autoDetectCAData(hub, server)
        custom == getCustomCAData(hub, kc.bundles)
    IN CASE kc.strategy = System -> Data({})
         [] kc.strategy = Custom -> custom
         [] OTHER -> IF detected.ok /\ custom.ok
                       THEN mergeCertificateData(detected.certs, custom.certs)
                       ELSE Error

getKubeAPIServerCAData(hub, server, kc) ==
    CASE kc.config -> getKubeAPIServerCADataFromConfig(hub, server, kc)
      [] ~kc.config /\ kc.oldCA # {} -> Data(kc.oldCA)
      [] OTHER -> autoDetectCAData(hub, server)

(* The proxy, and the certificates to verify it with. *)
GetProxySettings(kc) ==
    CASE kc.config /\ kc.proxy # "" ->
           [url |-> kc.proxy,
            ca |-> IF kc.proxy = kc.httpsProxy THEN kc.proxyCA ELSE {}]
      [] ~kc.config /\ kc.httpsProxy # "" ->
           [url |-> kc.httpsProxy, ca |-> kc.proxyCA]
      [] ~kc.config /\ kc.httpsProxy = "" ->
           [url |-> kc.httpProxy, ca |-> {}]
      [] OTHER -> [url |-> "", ca |-> {}]

GetBootstrapCAData(hub, server, kc) ==
    LET data == getKubeAPIServerCAData(hub, server, kc)
    IN IF kc.config /\ kc.strategy = System THEN Data({})
       ELSE IF ~data.ok THEN Error
       ELSE mergeCertificateData(data.certs, GetProxySettings(kc).ca)

(* "" if there is no address. *)
GetKubeAPIServerAddress(hub, kc) ==
    CASE kc.config /\ kc.url # "" -> kc.url
      [] ~kc.config /\ kc.oldURL # "" -> kc.oldURL
      [] OTHER -> IF hub.ocp THEN hub.url ELSE ""

GetKubeconfigClusterName(hub) ==
    IF hub.ocp /\ hub.url # "" THEN hub.uid ELSE "default-cluster"

hasCustomServerURLOrStrategy(kc) ==
    IF kc.config THEN kc.url # "" \/ kc.strategy \notin {"", AutoDetected}
                 ELSE kc.oldURL # "" \/ kc.oldCA # {}

(***************************************************************************)
(* GetKubeAPIServerConfig and the name of the kubeconfig's cluster: what   *)
(* the kubeconfig has to say, or ok = FALSE for an error.  internal: the   *)
(* address and CA file inside the hub, for the hub that manages itself.    *)
(***************************************************************************)
NoKubeconfig == [ok |-> FALSE, server |-> "", proxy |-> "", internal |-> FALSE,
                 certs |-> {}, name |-> ""]

GetKubeAPIServerConfig(hub, kc, selfManaged) ==
    LET server == GetKubeAPIServerAddress(hub, kc)
        ca == GetBootstrapCAData(hub, server, kc)
        name == GetKubeconfigClusterName(hub)
    IN IF selfManaged /\ ~hasCustomServerURLOrStrategy(kc)
         THEN [ok |-> TRUE, server |-> "kubernetes.default.svc", proxy |-> "",
               internal |-> TRUE, certs |-> {}, name |-> name]
       ELSE IF server = "" \/ ~ca.ok THEN NoKubeconfig
       ELSE [ok |-> TRUE, server |-> server, proxy |-> GetProxySettings(kc).url,
             internal |-> FALSE, certs |-> ca.certs, name |-> name]

(* Mutant: a change of the trusted certificates alone is not noticed. *)
ValidateBootstrapKubeconfigLax(is, required) ==
    /\ is.server = required.server /\ is.internal = required.internal
    /\ is.proxy = required.proxy /\ is.name = required.name

ValidateBootstrapKubeconfig(is, required) ==
    /\ is.server = required.server
    /\ is.internal = required.internal
    /\ is.certs = required.certs
    /\ is.proxy = required.proxy
    /\ is.name = required.name
=============================================================================
