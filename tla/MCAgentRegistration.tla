------------------------ MODULE MCAgentRegistration ------------------------
(* Instances of AgentRegistration for TLC. *)
EXTENDS AgentRegistration

Request(user, orgs, cn) ==
    [user |-> user, signer |-> "kube-apiserver-client", pem |-> TRUE,
     orgs |-> orgs, prefix |-> TRUE, cn |-> cn]

Own(user) == Request(user, {"c", ManagedClustersGroup}, <<"c", "agent">>)

(* From the bootstrap account, from the agent itself, for another cluster. *)
SomeRequests == {Own(<<"c", "bootstrap">>), Own(<<"c", "agent">>),
                 Request(<<"c", "bootstrap">>, {"d"}, <<"d", "agent">>)}
SomeDeviceRequests == {Own(<<"hub", "agent-registration">>)}
=============================================================================
