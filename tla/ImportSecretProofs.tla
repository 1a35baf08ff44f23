------------------------- MODULE ImportSecretProofs -------------------------
(***************************************************************************)
(* The token of an import secret does not expire in it.                    *)
(*                                                                         *)
(* The invariant follows the token's time: when the controller is at rest, *)
(* the time until the next resync is known to be short enough; when it is  *)
(* not, the token can have lost at most ResyncPeriod + late ticks since it *)
(* was not due.                                                            *)
(*                                                                         *)
(* The last part is about the kubeconfig, whatever the hub and the         *)
(* KlusterletConfigs: the certificates it trusts.                          *)
(***************************************************************************)
EXTENDS ImportSecret, TLAPS

(* A token that is not due for renewal. *)
Fresh(token) == token.kind = "requested" => token.left > Threshold

(* The secret offers a token that has to be renewed in time. *)
Offers == secret.token.kind = "requested" /\ ~overdue

(* What a reconciliation writes is fresh, and so is what it has written. *)
BuiltFresh ==
    /\ \A r \in Requests : step[r] \in {"apply", "values"} => Fresh(built[r].token)
    /\ \A r \in Requests : step[r] = "values" => Fresh(secret.token)

(* At rest, the next resync comes before the token has lost too much. *)
RestInTime ==
    queue = {} /\ (\A r \in Requests : step[r] = "idle") /\ Offers
        => secret.token.left + (ResyncPeriod - resyncIn) > Threshold

(* Otherwise a request is waiting, and not for too long. *)
ServedInTime == Offers => secret.token.left + ResyncPeriod + late > Threshold

(* Without the feature gate there is neither a reconciliation nor a token. *)
GateClosed ==
    ~ValidateKlusterletMode(mc.mode, HostedGate)
        => /\ secret.token.kind # "requested"
           /\ \A r \in Requests : step[r] = "idle"

IInv == TypeOK /\ BuiltFresh /\ RestInTime /\ ServedInTime /\ GateClosed

-----------------------------------------------------------------------------
(* A requested token is not due when it is new. *)
LEMMA ThresholdBelowLife ==
    Threshold \in Nat /\ Threshold < TokenLife
BY TokenAssumption DEF Threshold

(* What buildImportSecret returns has a token that is not due. *)
LEMMA BuildIsFresh ==
    ASSUME NEW kc, NEW required, TypeOK,
           buildImportSecret(kc, required) # NoSecret
    PROVE  /\ buildImportSecret(kc, required).token \in Token
           /\ Fresh(buildImportSecret(kc, required).token)
<1> DEFINE found == extractBootstrapKubeConfigDataFromImportSecret
           keep == found # {} /\ TokenIsValid(secret.token)
           token == IF keep THEN secret.token ELSE GetBootstrapToken
<1>1. buildImportSecret(kc, required).token = token /\ token # NoToken
  BY DEF buildImportSecret, NoSecret
<1>2. token \in Token
  BY ThresholdBelowLife, TokenAssumption
  DEF GetBootstrapToken, LegacyToken, RequestedToken, NoToken, Token, TypeOK, TokensOK
<1>3. Fresh(token)
  BY ThresholdBelowLife
  DEF GetBootstrapToken, LegacyToken, RequestedToken, NoToken, TokenIsValid,
      validateTokenExpiration, Fresh
<1> QED BY <1>1, <1>2, <1>3

-----------------------------------------------------------------------------
LEMMA NoSecretOK == NoSecret.token \in Token /\ NoSecret.token.kind = "none"
BY TokenAssumption DEF NoSecret, NoToken, Token

LEMMA InitIInv == Init => IInv
<1> SUFFICES ASSUME Init PROVE IInv
  OBVIOUS
<1>1. ControlOK
  <2>1. account \in BOOLEAN /\ overdue \in BOOLEAN
    BY Zenon DEF Init
  <2>2. legacy \in {"none", "valid", "invalid"}
    BY Zenon DEF Init
  <2>3. step \in [Requests -> Steps] /\ queue \subseteq Requests
    BY DEF Init, Requests, Steps
  <2> QED
    BY <2>1, <2>2, <2>3, TokenAssumption DEF Init, ControlOK
<1>2. TokensOK
  BY NoSecretOK DEF Init, TokensOK
<1>3. secret.token.kind # "requested"
  BY NoSecretOK DEF Init
<1> QED
  BY <1>1, <1>2, <1>3
  DEF Init, IInv, TypeOK, BuiltFresh, RestInTime, ServedInTime, GateClosed, Offers

(* A step that adds requests at most and leaves tokens and time alone. *)
LEMMA QuietStep ==
    ASSUME IInv, ControlOK', queue \subseteq queue',
           UNCHANGED <<secret, values, step, built, resyncIn, late, overdue>>,
           mc'.mode = mc.mode
    PROVE  IInv'
<1>1. TokensOK'
  BY DEF IInv, TypeOK, TokensOK
<1> QED
  BY <1>1
  DEF IInv, TypeOK, BuiltFresh, RestInTime, ServedInTime, GateClosed, Offers,
      Fresh, ValidateKlusterletMode

(* What users do to the configuration of the hub and of the cluster. *)
LEMMA EditsKeepIInv ==
    ASSUME IInv,
           \/ \E n \in Names, config \in Configs : UserEditsSpec(n, config)
           \/ \E m \in ManagedClusters : UserEditsCluster(m)
           \/ \E h \in Hubs : AdminChangesHub(h)
           \/ LegacyTokenChanges
    PROVE  IInv'
<1> USE TokenAssumption DEF IInv, TypeOK, ControlOK, Edit, Enqueue, Requests,
                            hubVars, listerVars, tokenVars, timeVars, requestVars
<1>1. CASE \E n \in Names, config \in Configs : UserEditsSpec(n, config)
  <2>1. ControlOK'
    BY <1>1 DEF UserEditsSpec
  <2> QED
    BY <1>1, <2>1, QuietStep DEF UserEditsSpec
<1>2. CASE \E m \in ManagedClusters : UserEditsCluster(m)
  <2>1. ControlOK'
    BY <1>2 DEF UserEditsCluster
  <2> QED
    BY <1>2, <2>1, QuietStep DEF UserEditsCluster
<1>3. CASE \E h \in Hubs : AdminChangesHub(h)
  <2>1. ControlOK'
    BY <1>3 DEF AdminChangesHub
  <2> QED
    BY <1>3, <2>1, QuietStep DEF AdminChangesHub
<1>4. CASE LegacyTokenChanges
  <2>1. ControlOK'
    BY <1>4 DEF LegacyTokenChanges
  <2> QED
    BY <1>4, <2>1, QuietStep DEF LegacyTokenChanges
<1> QED BY <1>1, <1>2, <1>3, <1>4

(* Lost accounts and secrets, restarts and failing calls. *)
LEMMA FaultsKeepIInv ==
    ASSUME IInv,
           \/ AccountDeleted \/ SecretLost \/ Restart
           \/ \E r \in Requests : CallFails(r)
    PROVE  IInv'
<1> USE TokenAssumption DEF TypeOK, Edit, Enqueue, hubVars, listerVars, tokenVars,
                            timeVars
<1>1. CASE AccountDeleted
  <2>1. ControlOK'
    <3>1. account' \in BOOLEAN /\ legacy' \in {"none", "valid", "invalid"}
      BY <1>1, Zenon DEF AccountDeleted
    <3>2. /\ UNCHANGED <<mc, indexed, overdue, step, resyncIn, late>>
          /\ queue' = queue \cup {"cluster"} /\ edits' \in 0 .. MaxEdits
      BY <1>1 DEF AccountDeleted, IInv, ControlOK
    <3> QED
      BY <3>1, <3>2 DEF IInv, ControlOK, Requests
  <2>2. ASSUME NEW s, s.token \in Token
        PROVE  /\ Kill(s).token \in Token
               /\ Kill(s).token.kind = s.token.kind
               /\ Kill(s).token.left = s.token.left
    BY <2>2 DEF Kill, Token
  <2>3. TokensOK'
    BY <1>1, <2>2 DEF AccountDeleted, IInv, TokensOK
  <2>4. /\ secret'.token.kind = secret.token.kind
        /\ secret'.token.left = secret.token.left
        /\ \A r \in Requests : /\ built'[r].token.kind = built[r].token.kind
                               /\ built'[r].token.left = built[r].token.left
    BY <1>1, <2>2 DEF AccountDeleted, IInv, TokensOK
  <2>5. queue' # {} /\ UNCHANGED <<mc, step, resyncIn, late, overdue>>
    BY <1>1 DEF AccountDeleted
  <2> QED
    BY <2>1, <2>3, <2>4, <2>5
    DEF IInv, BuiltFresh, RestInTime, ServedInTime, GateClosed, Offers, Fresh
<1>2. CASE SecretLost
  <2>1. ControlOK'
    BY <1>2 DEF SecretLost, IInv, ControlOK, Requests
  <2>2. TokensOK'
    BY <1>2, NoSecretOK DEF SecretLost, IInv, TokensOK
  <2>3. secret' = secret \/ secret'.token.kind = "none"
    BY <1>2, NoSecretOK DEF SecretLost
  <2>4. queue' # {} /\ UNCHANGED <<mc, step, built, resyncIn, late, overdue>>
    BY <1>2 DEF SecretLost
  <2> QED
    BY <2>1, <2>2, <2>3, <2>4
    DEF IInv, BuiltFresh, RestInTime, ServedInTime, GateClosed, Offers, Fresh
<1>3. CASE Restart
  <2>1. ControlOK'
    BY <1>3 DEF Restart, IInv, ControlOK, Requests, Steps
  <2>2. TokensOK'
    BY <1>3, NoSecretOK DEF Restart, IInv, TokensOK
  <2>3. /\ queue' # {} /\ UNCHANGED <<mc, secret, late, overdue>>
        /\ \A r \in Requests : step'[r] = "idle"
    BY <1>3 DEF Restart
  <2> QED
    BY <2>1, <2>2, <2>3
    DEF IInv, BuiltFresh, RestInTime, ServedInTime, GateClosed, Offers, Fresh
<1>4. CASE \E r \in Requests : CallFails(r)
  <2>1. PICK r \in Requests : CallFails(r)
    BY <1>4
  <2>2. ControlOK'
    BY <2>1 DEF CallFails, Requeue, Go, IInv, ControlOK, Requests, Steps
  <2>3. TokensOK'
    BY <2>1, NoSecretOK DEF CallFails, Requeue, Forget, IInv, TokensOK
  <2>4. /\ queue' # {} /\ UNCHANGED <<mc, secret, resyncIn, late, overdue>>
        /\ step[r] # "idle" /\ step' = [step EXCEPT ![r] = "idle"]
        /\ \A q \in Requests : q # r => built'[q] = built[q]
    BY <2>1 DEF CallFails, Requeue, Go, Forget, IInv, TokensOK
  <2> QED
    BY <2>2, <2>3, <2>4
    DEF IInv, ControlOK, BuiltFresh, RestInTime, ServedInTime, GateClosed, Offers, Fresh
<1> QED BY <1>1, <1>2, <1>3, <1>4

(* The informers catch up; a resync wakes the controller up in time. *)
LEMMA InformersKeepIInv ==
    ASSUME IInv, ListerSync \/ IndexSync \/ Resync
    PROVE  IInv'
<1> USE TokenAssumption DEF TypeOK, Enqueue, hubVars, listerVars, tokenVars,
                            requestVars, timeVars
<1>1. CASE ListerSync
  <2>1. ControlOK'
    BY <1>1 DEF ListerSync, IInv, ControlOK
  <2> QED
    BY <1>1, <2>1, QuietStep DEF ListerSync
<1>2. CASE IndexSync
  <2>1. ControlOK'
    BY <1>2 DEF IndexSync, IInv, ControlOK
  <2> QED
    BY <1>2, <2>1, QuietStep DEF IndexSync
<1>3. CASE Resync
  <2>1. ControlOK'
    BY <1>3 DEF Resync, IInv, ControlOK, Requests
  <2>2. TokensOK'
    BY <1>3 DEF Resync, IInv, TokensOK
  <2>3. UNCHANGED <<mc, secret, step, built, late, overdue>>
    BY <1>3 DEF Resync
  <2>4. Offers => queue' # {}
    BY <1>3, NoSecretOK DEF Resync, Offers
  <2> QED
    BY <2>1, <2>2, <2>3, <2>4
    DEF IInv, BuiltFresh, RestInTime, ServedInTime, GateClosed, Offers, Fresh
<1> QED BY <1>1, <1>2, <1>3

(* A reconciliation ends with a fresh token in the secret, or is queued.   *)
LEMMA ReconcileKeepsIInv ==
    ASSUME IInv, NEW r \in Requests, ReconcileStep(r)
    PROVE  IInv'
<1> USE TokenAssumption DEF TypeOK, Enqueue, Go, hubVars, listerVars, tokenVars,
                            requestVars, timeVars
<1>1. CASE Start(r)
  <2>1. ControlOK'
    BY <1>1 DEF Start, IInv, ControlOK, Steps
  <2>2. TokensOK'
    BY <1>1 DEF Start, IInv, TokensOK
  <2>3. /\ UNCHANGED <<mc, secret, built, resyncIn, late, overdue>>
        /\ step' = [step EXCEPT ![r] =
                      IF ValidateKlusterletMode(mc.mode, HostedGate) THEN "rbac" ELSE "idle"]
    BY <1>1 DEF Start
  <2> QED
    BY <2>1, <2>2, <2>3
    DEF IInv, ControlOK, BuiltFresh, RestInTime, ServedInTime, GateClosed, Offers, Fresh
<1>2. CASE ApplyHubRBAC(r)
  <2>1. ControlOK'
    <3>1. account' \in BOOLEAN
      BY <1>2, Zenon DEF ApplyHubRBAC
    <3>2. /\ UNCHANGED <<mc, indexed, legacy, overdue, queue, resyncIn, late, edits>>
          /\ step' = [step EXCEPT ![r] = "build"]
      BY <1>2 DEF ApplyHubRBAC
    <3> QED
      BY <3>1, <3>2 DEF IInv, ControlOK, Steps
  <2>2. TokensOK'
    BY <1>2 DEF ApplyHubRBAC, IInv, TokensOK
  <2>3. /\ UNCHANGED <<mc, secret, built, resyncIn, late, overdue>>
        /\ step[r] # "idle" /\ step' = [step EXCEPT ![r] = "build"]
    BY <1>2 DEF ApplyHubRBAC
  <2> QED
    BY <2>1, <2>2, <2>3
    DEF IInv, ControlOK, BuiltFresh, RestInTime, ServedInTime, GateClosed, Offers, Fresh
<1>3. CASE buildBootstrapKubeconfigData(r)
  <2>1. PICK kc, required :
          LET new == buildImportSecret(kc, required)
          IN \/ new = NoSecret /\ Requeue(r)
             \/ /\ new # NoSecret /\ built' = [built EXCEPT ![r] = new]
                /\ Go(r, "apply") /\ UNCHANGED queue
    BY <1>3 DEF buildBootstrapKubeconfigData
  <2>2. /\ step[r] = "build"
        /\ UNCHANGED <<mc, indexed, account, legacy, secret, values, resyncIn, late,
                       overdue, edits>>
    BY <1>3 DEF buildBootstrapKubeconfigData
  <2> DEFINE new == buildImportSecret(kc, required)
  <2>3. /\ new.token \in Token /\ Fresh(new.token)
        /\ built' = [built EXCEPT ![r] = new]
        /\ \/ step' = [step EXCEPT ![r] = "idle"] /\ queue' = queue \cup {r}
           \/ step' = [step EXCEPT ![r] = "apply"] /\ queue' = queue
    <3>1. CASE new = NoSecret /\ Requeue(r)
      BY <3>1, NoSecretOK DEF Requeue, Forget, Fresh
    <3>2. CASE /\ new # NoSecret
               /\ built' = [built EXCEPT ![r] = new]
               /\ Go(r, "apply") /\ UNCHANGED queue
      BY <3>2, BuildIsFresh DEF IInv
    <3> QED BY <2>1, <3>1, <3>2
  <2> HIDE DEF new
  <2>4. ControlOK'
    BY <2>2, <2>3 DEF IInv, ControlOK, Steps
  <2>5. TokensOK'
    BY <2>2, <2>3 DEF IInv, TokensOK
  <2>6. \A q \in Requests : built'[q] = IF q = r THEN new ELSE built[q]
    BY <2>3 DEF IInv, TokensOK
  <2>7. queue' # {} \/ step'[r] = "apply"
    BY <2>3 DEF IInv, ControlOK
  <2>8. BuiltFresh'
    BY <2>2, <2>3, <2>6 DEF IInv, ControlOK, BuiltFresh, Fresh
  <2> QED
    BY <2>2, <2>3, <2>4, <2>5, <2>7, <2>8
    DEF IInv, ControlOK, RestInTime, ServedInTime, GateClosed, Offers
<1>4. CASE ApplyImportSecret(r)
  <2>1. PICK to \in {"idle", "values"} :
          /\ step' = [step EXCEPT ![r] = to]
          /\ \A q \in Requests : q # r => built'[q] = built[q]
          /\ to = "values" => UNCHANGED built
    BY <1>4 DEF ApplyImportSecret, Forget, IInv, TokensOK
  <2>2. /\ step[r] = "apply" /\ secret' = built[r] /\ late' = 0
        /\ UNCHANGED <<mc, indexed, account, legacy, values, resyncIn, edits>>
        /\ queue' \subseteq queue \cup {"namespace"}
    BY <1>4 DEF ApplyImportSecret, ChangeEvent
  <2>3. overdue' \in BOOLEAN
    BY <1>4, Zenon DEF ApplyImportSecret
  <2>4. ControlOK'
    BY <2>1, <2>2, <2>3 DEF IInv, ControlOK, Requests, Steps
  <2>5. TokensOK'
    <3>1. UNCHANGED built \/ built' = [built EXCEPT ![r] = NoSecret]
      BY <1>4 DEF ApplyImportSecret, Forget
    <3> QED
      BY <2>2, <3>1, NoSecretOK DEF IInv, TokensOK
  <2>6. secret'.token \in Token /\ Fresh(secret'.token)
    BY <2>2, <2>5 DEF IInv, BuiltFresh, TokensOK
  <2>7. BuiltFresh'
    BY <2>1, <2>2, <2>6 DEF IInv, ControlOK, BuiltFresh
  <2>8. ValidateKlusterletMode(mc.mode, HostedGate)
    BY <2>2 DEF IInv, GateClosed
  <2>9. Offers' => secret'.token.left > Threshold /\ secret'.token.left \in Nat
    BY <2>6 DEF Offers, Fresh, Token
  <2>10. ServedInTime' /\ RestInTime'
    BY <2>2, <2>4, <2>9, ThresholdBelowLife DEF ControlOK, ServedInTime, RestInTime
  <2> QED
    BY <2>2, <2>4, <2>5, <2>7, <2>8, <2>10 DEF IInv, GateClosed
<1>5. CASE ApplyConfigSecret(r)
  <2>1. /\ step[r] = "values" /\ step' = [step EXCEPT ![r] = "idle"]
        /\ built' = [built EXCEPT ![r] = NoSecret] /\ values' = built[r]
        /\ UNCHANGED <<mc, indexed, account, legacy, secret, resyncIn, late, overdue,
                       edits>>
        /\ queue' \subseteq queue \cup {"namespace"}
    BY <1>5 DEF ApplyConfigSecret, ChangeEvent, Forget
  <2>2. ControlOK'
    BY <2>1 DEF IInv, ControlOK, Requests, Steps
  <2>3. TokensOK'
    BY <2>1, NoSecretOK DEF IInv, TokensOK
  <2>4. \A q \in Requests : q # r => built'[q] = built[q]
    BY <2>1 DEF IInv, TokensOK
  <2>5. BuiltFresh'
    BY <2>1, <2>4 DEF IInv, ControlOK, BuiltFresh
  <2>6. Offers' => secret'.token.left > Threshold /\ secret'.token.left \in Nat
    BY <2>1 DEF IInv, BuiltFresh, TokensOK, Offers, Fresh, Token
  <2>7. ServedInTime' /\ RestInTime'
    BY <2>1, <2>2, <2>6, ThresholdBelowLife DEF ControlOK, ServedInTime, RestInTime
  <2> QED
    BY <2>1, <2>2, <2>3, <2>5, <2>7 DEF IInv, ControlOK, GateClosed
<1> QED BY <1>1, <1>2, <1>3, <1>4, <1>5 DEF ReconcileStep

(* Time takes a tick from the token, and one from what it has to spare. *)
LEMMA TickKeepsIInv ==
    ASSUME IInv, Tick
    PROVE  IInv'
<1> USE TokenAssumption DEF TypeOK
<1>1. /\ UNCHANGED <<mc, indexed, account, legacy, queue, step, built, edits>>
      /\ \A r \in Requests : step[r] = "idle"
      /\ secret' = Age(secret) /\ values' = Age(values)
  BY DEF Tick, hubVars, listerVars, tokenVars, requestVars
<1>2. /\ resyncIn \in 1 .. ResyncPeriod /\ resyncIn' = resyncIn - 1
      /\ late \in 0 .. MaxDelay
      /\ queue = {} => late' = 0
      /\ queue # {} /\ late < MaxDelay => late' = late + 1
      /\ queue # {} /\ late = MaxDelay => late' = late
  BY DEF Tick, IInv, ControlOK
<1>3. overdue' \in BOOLEAN /\ (overdue => overdue')
      /\ (queue # {} /\ late = MaxDelay => overdue')
  BY Zenon DEF Tick
<1>4. ControlOK'
  BY <1>1, <1>2, <1>3 DEF IInv, ControlOK
<1>5. ASSUME NEW s, s.token \in Token
      PROVE  /\ Age(s).token \in Token
             /\ Age(s).token.kind = s.token.kind
             /\ Age(s).token.left + 1 >= s.token.left
  BY <1>5 DEF Age, Token
<1>6. TokensOK'
  BY <1>1, <1>5 DEF IInv, TokensOK
<1>7. /\ secret'.token.kind = secret.token.kind
      /\ secret'.token.left + 1 >= secret.token.left
      /\ secret.token.left \in Nat /\ secret'.token.left \in Nat
  <2>1. secret.token \in Token /\ secret'.token \in Token
    BY <1>6 DEF IInv, TokensOK
  <2> QED
    BY <1>1, <1>5, <2>1 DEF Token
<1>8. BuiltFresh' /\ GateClosed'
  BY <1>1, <1>7 DEF IInv, BuiltFresh, GateClosed
<1>9. Offers' => Offers
  BY <1>3, <1>7 DEF Offers
<1>10. RestInTime'
  BY <1>1, <1>2, <1>7, <1>9, ThresholdBelowLife DEF IInv, RestInTime
<1>11. ServedInTime'
  <2>1. CASE queue = {}
    BY <2>1, <1>1, <1>2, <1>7, <1>9, ThresholdBelowLife
    DEF IInv, RestInTime, ServedInTime
  <2>2. CASE queue # {} /\ late < MaxDelay
    BY <2>2, <1>2, <1>7, <1>9, ThresholdBelowLife DEF IInv, ServedInTime
  <2>3. CASE queue # {} /\ late = MaxDelay
    BY <2>3, <1>3 DEF ServedInTime, Offers
  <2> QED BY <1>2, <2>1, <2>2, <2>3
<1> QED
  BY <1>4, <1>6, <1>8, <1>10, <1>11 DEF IInv

LEMMA NextKeepsIInv == IInv /\ [Next]_vars => IInv'
<1> SUFFICES ASSUME IInv, [Next]_vars PROVE IInv'
  OBVIOUS
<1>1. CASE HubStep
  BY <1>1, EditsKeepIInv, FaultsKeepIInv DEF HubStep
<1>2. CASE ListerSync \/ IndexSync \/ Resync
  BY <1>2, InformersKeepIInv
<1>3. CASE \E r \in Requests : ReconcileStep(r)
  BY <1>3, ReconcileKeepsIInv
<1>4. CASE Tick
  BY <1>4, TickKeepsIInv
<1>5. CASE UNCHANGED vars
  <2>1. UNCHANGED <<mc, indexed, account, legacy, secret, values, queue, step, built,
                    resyncIn, late, overdue, edits>>
    BY <1>5 DEF vars, hubVars, listerVars, tokenVars, requestVars, timeVars
  <2>2. ControlOK'
    BY <2>1 DEF IInv, TypeOK, ControlOK
  <2> QED
    BY <2>1, <2>2, QuietStep
<1> QED BY <1>1, <1>2, <1>3, <1>4, <1>5 DEF Next

(* The invariant leaves no way for the token to expire. *)
LEMMA IInvImpliesNeverExpired == IInv => NeverExpired
<1> SUFFICES ASSUME IInv, Offers PROVE secret.token.left > 0
  BY DEF NeverExpired, Offers
<1>1. secret.token.left \in Nat /\ late \in 0 .. MaxDelay
  BY DEF IInv, TypeOK, ControlOK, TokensOK, Token
<1> QED
  BY <1>1, TokenAssumption DEF IInv, ServedInTime, Threshold

-----------------------------------------------------------------------------
(***************************************************************************)
(* The state of importconfig-controller stays within its types, for every  *)
(* hub, configuration, period and number of workers.                       *)
(***************************************************************************)
THEOREM TypeCorrect == Spec => []TypeOK
<1>1. IInv => TypeOK
  BY DEF IInv
<1> QED BY <1>1, InitIInv, NextKeepsIInv, PTL DEF Spec

(***************************************************************************)
(* If resyncs are frequent enough - ResyncPeriod + MaxDelay is at most the *)
(* fifth of a token's life - the token of an import secret never expires   *)
(* in it, although nothing requeues the cluster when the token is due.     *)
(***************************************************************************)
THEOREM TokenNeverExpires == Spec => []NeverExpired
BY InitIInv, NextKeepsIInv, IInvImpliesNeverExpired, PTL DEF Spec

-----------------------------------------------------------------------------
(* Every step is one of TokenOffer, or leaves the offer alone. *)
LEMMA StepKeepsPromise ==
    ASSUME IInv, IInv', [Next]_vars
    PROVE  [Promise!Next]_offered
<1> USE DEF Promise!Next, Promise!Offer, Promise!Age, Promise!Withdraw, offered
<1>1. CASE UNCHANGED <<secret, overdue>>
  BY <1>1
<1>2. CASE Tick
  <2>1. secret' = Age(secret) /\ secret.token \in Token
    BY <1>2 DEF Tick, IInv, TypeOK, TokensOK
  <2>2. /\ secret'.token.kind = secret.token.kind
        /\ secret.token.left \in Nat
        /\ secret.token.left > 0 => secret'.token.left = secret.token.left - 1
        /\ secret.token.left = 0 => secret'.token.left = 0
    BY <2>1 DEF Age, Token
  <2>3. overdue => overdue'
    BY <1>2, Zenon DEF Tick
  <2>4. NeverExpired'
    BY IInvImpliesNeverExpired, PTL
  <2>5. Offers' => Offers /\ secret'.token.left > 0
    BY <2>2, <2>3, <2>4 DEF Offers, NeverExpired
  <2> QED
    BY <2>2, <2>5 DEF Offers
<1>3. CASE \E r \in Requests : ApplyImportSecret(r)
  <2>1. PICK r \in Requests : ApplyImportSecret(r)
    BY <1>3
  <2>2. secret' = built[r] /\ step[r] = "apply" /\ built[r].token \in Token
    BY <2>1 DEF ApplyImportSecret, IInv, TypeOK, TokensOK
  <2>3. Fresh(built[r].token)
    BY <2>2 DEF IInv, BuiltFresh
  <2>4. Offers' => secret'.token.left \in Threshold + 1 .. TokenLife
    BY <2>2, <2>3, ThresholdBelowLife, TokenAssumption DEF Offers, Fresh, Token
  <2> QED
    BY <2>4 DEF Offers
<1>4. CASE SecretLost
  <2>1. secret' = NoSecret \/ secret' = secret
    BY <1>4 DEF SecretLost
  <2>2. overdue' = overdue
    BY <1>4 DEF SecretLost, timeVars
  <2> QED
    BY <2>1, <2>2, NoSecretOK
<1>5. CASE AccountDeleted
  <2>1. /\ secret'.token.kind = secret.token.kind
        /\ secret'.token.left = secret.token.left
    BY <1>5 DEF AccountDeleted, Kill, IInv, TypeOK, TokensOK, Token
  <2>2. overdue' = overdue
    BY <1>5 DEF AccountDeleted, timeVars
  <2> QED
    BY <2>1, <2>2
<1>6. CASE HubStep
  <2>1. AccountDeleted \/ SecretLost \/ UNCHANGED <<secret, overdue>>
    BY <1>6 DEF HubStep, UserEditsSpec, UserEditsCluster, AdminChangesHub,
                LegacyTokenChanges, Restart, CallFails, timeVars
  <2> QED BY <2>1, <1>1, <1>4, <1>5
<1>7. CASE \E r \in Requests : ReconcileStep(r)
  <2>1. \/ \E r \in Requests : ApplyImportSecret(r)
        \/ UNCHANGED <<secret, overdue>>
    BY <1>7 DEF ReconcileStep, Start, ApplyHubRBAC, buildBootstrapKubeconfigData,
                ApplyConfigSecret, timeVars
  <2> QED BY <2>1, <1>1, <1>3
<1>8. CASE ListerSync \/ IndexSync \/ Resync \/ UNCHANGED vars
  <2>1. UNCHANGED <<secret, overdue>>
    BY <1>8 DEF ListerSync, IndexSync, Resync, vars, timeVars
  <2> QED BY <2>1, <1>1
<1> QED BY <1>2, <1>6, <1>7, <1>8 DEF Next

(***************************************************************************)
(* importconfig-controller implements TokenOffer: whatever the order of    *)
(* edits, faults and reconciliations, a token that is put into the import  *)
(* secret is not due, and it is replaced or withdrawn before it expires.   *)
(***************************************************************************)
THEOREM ImplementsTokenOffer == Spec => KeepsPromise
<1>1. Init => Promise!Init
  BY NoSecretOK DEF Init, Promise!Init, offered
<1> QED
  BY <1>1, InitIInv, NextKeepsIInv, StepKeepsPromise, PTL
  DEF Spec, KeepsPromise, Promise!Spec

-----------------------------------------------------------------------------
(* What a kubeconfig trusts, for every hub and every KlusterletConfig. *)

(* The merged KlusterletConfig has the bundles of the second one, and those *)
(* of the first one whose names the second one does not use.                *)
LEMMA MergeFacts ==
    ASSUME NEW g, NEW c
    PROVE  /\ MergeKlusterletConfigs(g, c).config = (g.config \/ c.config)
           /\ MergeKlusterletConfigs(g, c).bundles
                = mergeTrustedCABundles(g.bundles, c.bundles)
BY DEF MergeKlusterletConfigs

(* The certificates of the ConfigMaps, if all of them can be read. *)
LEMMA CustomCAData ==
    ASSUME NEW h, NEW bundles, getCustomCAData(h, bundles).ok
    PROVE  \A b \in bundles :
             b.map \in DOMAIN h.maps /\ h.maps[b.map] \subseteq getCustomCAData(h, bundles).certs
<1>1. \A b \in bundles : getCABundleFromConfigmap(h, b.map).ok
  BY DEF getCustomCAData, Error
<1>2. \A b \in bundles : b.map \in DOMAIN h.maps
  BY <1>1 DEF getCABundleFromConfigmap, Error
<1>3. getCustomCAData(h, bundles)
        = mergeCertificateData({}, UNION {h.maps[b.map] : b \in bundles})
  BY <1>1 DEF getCustomCAData
<1>4. getCustomCAData(h, bundles).certs = {} \cup UNION {h.maps[b.map] : b \in bundles}
  BY <1>3 DEF mergeCertificateData, Error, Data
<1> QED BY <1>2, <1>4

LEMMA MergedCertificates ==
    ASSUME NEW a, NEW b, mergeCertificateData(a, b).ok
    PROVE  mergeCertificateData(a, b).certs = a \cup b
BY DEF mergeCertificateData, Error, Data

(* Whatever the strategy, except the system's truststore, bundles are added. *)
LEMMA BootstrapCAData ==
    ASSUME NEW h, NEW server, NEW kc, kc.config = TRUE, kc.strategy # System,
           GetBootstrapCAData(h, server, kc).ok
    PROVE  \A b \in kc.bundles :
             /\ b.map \in DOMAIN h.maps
             /\ h.maps[b.map] \subseteq GetBootstrapCAData(h, server, kc).certs
<1> DEFINE data == getKubeAPIServerCAData(h, server, kc)
           custom == getCustomCAData(h, kc.bundles)
<1>1. /\ data.ok
      /\ GetBootstrapCAData(h, server, kc)
           = mergeCertificateData(data.certs, GetProxySettings(kc).ca)
  BY DEF GetBootstrapCAData, Error
<1>2. data.certs \subseteq GetBootstrapCAData(h, server, kc).certs
  BY <1>1, MergedCertificates
<1>3. data = getKubeAPIServerCADataFromConfig(h, server, kc)
  BY DEF getKubeAPIServerCAData
<1>4. custom.ok /\ custom.certs \subseteq data.certs
  <2> DEFINE detected == autoDetectCAData(h, server)
  <2>1. CASE kc.strategy = Custom
    <3>1. data = custom
      BY <1>3, <2>1 DEF getKubeAPIServerCADataFromConfig
    <3> QED BY <1>1, <3>1
  <2>2. CASE kc.strategy # Custom
    <3>1. data = IF detected.ok /\ custom.ok
                   THEN mergeCertificateData(detected.certs, custom.certs) ELSE Error
      BY <1>3, <2>2 DEF getKubeAPIServerCADataFromConfig
    <3>2. detected.ok /\ custom.ok
      BY <1>1, <3>1 DEF Error
    <3> HIDE DEF data, custom, detected
    <3> QED BY <1>1, <3>1, <3>2, MergedCertificates
  <2> QED BY <2>1, <2>2
<1> HIDE DEF data
<1> QED BY <1>2, <1>4, CustomCAData

LEMMA RequiredTrustsBundles ==
    ASSUME NEW h, NEW kc, NEW self, kc.config = TRUE, kc.strategy # System,
           NEW k, k = GetKubeAPIServerConfig(h, kc, self), k.ok, ~k.internal
    PROVE  \A b \in kc.bundles : b.map \in DOMAIN h.maps /\ h.maps[b.map] \subseteq k.certs
<1> DEFINE server == GetKubeAPIServerAddress(h, kc)
           ca == GetBootstrapCAData(h, server, kc)
<1>1. ca.ok /\ k.certs = ca.certs
  BY DEF GetKubeAPIServerConfig, NoKubeconfig
<1> QED BY <1>1, BootstrapCAData

(* The manifests hold the kubeconfigs of the other hubs and the given one. *)
LEMMA GeneratedKubeconfigs ==
    ASSUME NEW h, NEW m, NEW kc, NEW kubeconfig, Generate(h, m, kc, kubeconfig).ok
    PROVE  \A q \in Generate(h, m, kc, kubeconfig).kubeconfigs :
             q[1] \in kc.others \/ q[2] = kubeconfig
<1>1. Generate(h, m, kc, kubeconfig).kubeconfigs
        = convertKubeConfigSecrets(h, m, kc, kubeconfig)
  BY DEF Generate, NoManifests
<1> QED BY <1>1 DEF convertKubeConfigSecrets

(* A kubeconfig is taken over only if it says what is required. *)
LEMMA BuiltKubeconfigs ==
    ASSUME NEW kc, NEW required, buildImportSecret(kc, required) # NoSecret
    PROVE  /\ required.ok
           /\ \A q \in buildImportSecret(kc, required).manifests.kubeconfigs :
                \/ q[1] \in kc.others
                \/ /\ q[2].certs = required.certs
                   /\ q[2].internal = required.internal
<1> DEFINE found == extractBootstrapKubeConfigDataFromImportSecret
           keep == found # {} /\ TokenIsValid(secret.token)
           same == {k \in found : keep /\ ValidateBootstrapKubeconfig(k, required)}
           kubeconfig == IF same = {} THEN required ELSE CHOOSE k \in same : TRUE
           manifests == Generate(hub, mc, kc, kubeconfig)
<1>1. required.ok /\ manifests.ok /\ buildImportSecret(kc, required).manifests = manifests
  BY DEF buildImportSecret
<1>2. kubeconfig = required \/ kubeconfig \in same
  OBVIOUS
<1>3. kubeconfig.certs = required.certs /\ kubeconfig.internal = required.internal
  BY <1>2 DEF ValidateBootstrapKubeconfig
<1> HIDE DEF kubeconfig
<1> QED BY <1>1, <1>3, GeneratedKubeconfigs

(* The lister shows KlusterletConfigs. *)
ListedOK == specs \in [Names -> Configs] /\ listed \in [Names -> Configs]

LEMMA ListedStep == ListedOK /\ [Next]_vars => ListedOK'
<1> SUFFICES ASSUME ListedOK, [Next]_vars PROVE ListedOK'
  OBVIOUS
<1>1. CASE \E n \in Names, config \in Configs : UserEditsSpec(n, config)
  BY <1>1 DEF UserEditsSpec, ListedOK, listerVars
<1>2. CASE Restart
  BY <1>2 DEF Restart, ListedOK, hubVars
<1>3. CASE ListerSync
  BY <1>3 DEF ListerSync, ListedOK, hubVars
<1>4. CASE UNCHANGED <<specs, listed>>
  BY <1>4 DEF ListedOK
<1> QED
  BY <1>1, <1>2, <1>3, <1>4
  DEF Next, HubStep, UserEditsCluster, AdminChangesHub, AccountDeleted,
      LegacyTokenChanges, SecretLost, CallFails, IndexSync, Resync, ReconcileStep,
      Start, ApplyHubRBAC, buildBootstrapKubeconfigData, ApplyImportSecret,
      ApplyConfigSecret, Tick, hubVars, listerVars, vars

(* Only a successful build leads to the step that applies what was built. *)
LEMMA BuildLeadsToApply ==
    ASSUME TypeOK, Next, NEW r \in Requests, step[r] = "build", step'[r] = "apply"
    PROVE  buildBootstrapKubeconfigData(r)
<1>1. step \in [Requests -> Steps]
  BY DEF TypeOK, ControlOK
<1>2. CASE HubStep
  <2>1. CASE Restart
    BY <2>1 DEF Restart
  <2>2. CASE \E q \in Requests : CallFails(q)
    BY <1>1, <2>2 DEF CallFails, Requeue, Go
  <2> QED
    BY <1>2, <2>1, <2>2
    DEF HubStep, UserEditsSpec, UserEditsCluster, AdminChangesHub, AccountDeleted,
        LegacyTokenChanges, SecretLost, requestVars
<1>3. CASE ListerSync \/ IndexSync \/ Resync \/ Tick
  BY <1>3 DEF ListerSync, IndexSync, Resync, Tick, requestVars
<1>4. ASSUME NEW q \in Requests, ReconcileStep(q) PROVE q = r /\ buildBootstrapKubeconfigData(q)
  <2>1. \E to : Go(q, to)
    BY <1>4 DEF ReconcileStep, Start, ApplyHubRBAC, buildBootstrapKubeconfigData,
                ApplyImportSecret, ApplyConfigSecret, Requeue
  <2>2. q = r
    BY <1>1, <2>1 DEF Go
  <2> QED
    BY <1>4, <2>2 DEF ReconcileStep, Start, ApplyHubRBAC, ApplyImportSecret,
                      ApplyConfigSecret
<1> QED BY <1>2, <1>3, <1>4 DEF Next

(* What such a build has built. *)
LEMMA BuiltByBuild ==
    ASSUME TypeOK, NEW r \in Requests, buildBootstrapKubeconfigData(r),
           step'[r] = "apply"
    PROVE  LET kc == MergedConfig(listed)
               required == GetKubeAPIServerConfig(hub, kc, mc.selfManaged)
           IN /\ built'[r] = buildImportSecret(kc, required)
              /\ built'[r] # NoSecret
<1> DEFINE kc == MergedConfig(listed)
           required == GetKubeAPIServerConfig(hub, kc, mc.selfManaged)
           new == buildImportSecret(kc, required)
<1>1. \/ new = NoSecret /\ Requeue(r)
      \/ new # NoSecret /\ built' = [built EXCEPT ![r] = new]
  BY Zenon DEF buildBootstrapKubeconfigData
<1> HIDE DEF new
<1>2. step \in [Requests -> Steps] /\ built = [q \in Requests |-> built[q]]
  BY DEF TypeOK, ControlOK, TokensOK
<1>3. ~Requeue(r)
  BY <1>2 DEF Requeue, Go
<1> QED BY <1>1, <1>2, <1>3 DEF new

(* The merged KlusterletConfig of the cluster. *)
LEMMA MergedFacts ==
    ASSUME TypeOK, ListedOK
    PROVE  LET kc == MergedConfig(listed)
           IN /\ kc.bundles = TrustedCABundles(listed)
              /\ kc.bundles # {} => kc.config = TRUE
<1> DEFINE g == listed["global"]
           c == IF mc.assigned THEN listed["named"] ELSE NoConfig
<1>1. /\ g.config \in BOOLEAN /\ (~g.config => g.bundles = {})
      /\ c.config \in BOOLEAN /\ (~c.config => c.bundles = {})
  BY ConfigsAssumption DEF ListedOK, Names, NoConfig
<1>2. TrustedCABundles(listed) = mergeTrustedCABundles(g.bundles, c.bundles)
  BY DEF TrustedCABundles, mergeTrustedCABundles, containsCA, NoConfig
<1>3. MergedConfig(listed) = MergeKlusterletConfigs(g, c)
  BY DEF MergedConfig
<1> HIDE DEF g, c
<1> QED BY <1>1, <1>2, <1>3, MergeFacts DEF mergeTrustedCABundles

(***************************************************************************)
(* BuiltTrustsBundles, for every hub, all KlusterletConfigs and every      *)
(* cluster: the merge drops no bundle but a global one whose name the      *)
(* assigned KlusterletConfig uses for its own, and no strategy, no         *)
(* deprecated field and no kubeconfig taken over from the import secret    *)
(* gets around the trusted bundles.                                        *)
(***************************************************************************)
THEOREM BuildsTrustedKubeconfigs == Spec => BuiltTrustsBundles
<1> DEFINE Trusts ==
      \A r \in Requests : step[r] = "build" /\ step'[r] = "apply" =>
        LET kc == MergedConfig(listed)
        IN \A q \in built'[r].manifests.kubeconfigs :
             \/ q[1] \in kc.others \/ q[2].internal \/ kc.strategy = System
             \/ \A b \in TrustedCABundles(listed) :
                   b.map \in DOMAIN hub.maps /\ hub.maps[b.map] \subseteq q[2].certs
<1>1. ASSUME TypeOK, ListedOK, Next PROVE Trusts
  <2> SUFFICES ASSUME NEW r \in Requests, step[r] = "build", step'[r] = "apply",
                      NEW q \in built'[r].manifests.kubeconfigs,
                      q[1] \notin MergedConfig(listed).others, ~q[2].internal,
                      MergedConfig(listed).strategy # System,
                      NEW b \in TrustedCABundles(listed)
               PROVE  b.map \in DOMAIN hub.maps /\ hub.maps[b.map] \subseteq q[2].certs
    OBVIOUS
  <2> DEFINE kc == MergedConfig(listed)
             required == GetKubeAPIServerConfig(hub, kc, mc.selfManaged)
  <2>1. built'[r] = buildImportSecret(kc, required) /\ built'[r] # NoSecret
    BY <1>1, BuildLeadsToApply, BuiltByBuild
  <2>2. b \in kc.bundles /\ kc.config = TRUE
    BY <1>1, MergedFacts
  <2> HIDE DEF kc
  <2>3. /\ required.ok
        /\ q[2].certs = required.certs /\ q[2].internal = required.internal
    <3> HIDE DEF required
    <3> QED BY <2>1, BuiltKubeconfigs DEF kc
  <2> QED BY <2>2, <2>3, RequiredTrustsBundles DEF kc
<1>2. Init => ListedOK
  BY DEF Init, ListedOK
<1>3. TypeOK /\ ListedOK /\ [Next]_vars => [Trusts]_vars
  BY <1>1
<1> QED
  BY <1>2, <1>3, ListedStep, TypeCorrect, PTL DEF Spec, BuiltTrustsBundles
=============================================================================
