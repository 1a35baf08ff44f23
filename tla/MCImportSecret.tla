--------------------------- MODULE MCImportSecret ---------------------------
(* Instances of ImportSecret for TLC. *)
EXTENDS ImportSecret, TLC

(* An OpenShift hub with two CA ConfigMaps. *)
Hub == [ocp |-> TRUE, url |-> "api", uid |-> "uid",
        named |-> [a \in {} |-> {}], ibm |-> FALSE, dial |-> "known",
        root |-> {"root"}, maps |-> "ca" :> {"ca1"} @@ "ca2" :> {"ca2"},
        secrets |-> "other" :> [NoKubeconfig EXCEPT !.server = "other"],
        grpcCA |-> TRUE, route |-> "grpc", balancer |-> "?", generate |-> TRUE]
(* The same hub under another address with a certificate named for it, *)
(* without the CA ConfigMaps.                                          *)
Moved == [Hub EXCEPT !.url = "api2", !.named = "api2" :> {"cert"},
                     !.maps = [m \in {} |-> {}], !.generate = FALSE]
OneHub == {Hub}
TwoHubs == {Hub, Moved}

Trusting == [NoConfig EXCEPT !.config = TRUE,
                              !.bundles = {[name |-> "corp", map |-> "ca"]}]
(* The same name for another bundle, and a name of its own. *)
Replacing == [NoConfig EXCEPT !.config = TRUE, !.httpsProxy = "proxy",
                              !.bundles = {[name |-> "corp", map |-> "ca2"],
                                           [name |-> "edge", map |-> "ca"]}]
Multiple == [NoConfig EXCEPT !.others = {"other"}, !.withCurrent = TRUE]
SomeConfigs == {Trusting, Replacing}
MultipleHubs == {Multiple}

Cluster(mode, self, assigned) ==
    [mode |-> mode, selfManaged |-> self, openshift |-> TRUE,
     assigned |-> assigned, nodes |-> "", registries |-> <<>>, namespace |-> ""]
SomeClusters == {Cluster("Default", FALSE, a) : a \in BOOLEAN}
                  \cup {Cluster("Default", TRUE, TRUE)}
OneCluster == {Cluster("Default", FALSE, TRUE)}
=============================================================================
