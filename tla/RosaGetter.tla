----------------------------- MODULE RosaGetter -----------------------------
(***************************************************************************)
(* How autoimport-controller gets a kubeconfig of a ROSA cluster: through  *)
(* OCM it makes itself a temporary user in the cluster-admins group, and   *)
(* requests a token with that user's password, again and again until the   *)
(* cluster knows the user or the retries are used up.                      *)
(*                                                                         *)
(* A getter lives in memory, the user in OCM.  A token request may fail as *)
(* long as it likes; other calls fail within the bound of the module that  *)
(* uses this one.  The cluster_id and the retry_times of a cluster's       *)
(* secrets do not change, OCM accepts the credentials that a getter has,   *)
(* and is not changed by anybody else.                                     *)
(***************************************************************************)
EXTENDS Naturals

CONSTANT TotalRetryTimes

ASSUME RetryAssumption == TotalRetryTimes \in Nat \ {0}

(* exists: in rosaKubeConfigGetters; passwd: it has set a password.        *)
Getter == [exists: BOOLEAN, passwd: BOOLEAN, retries: 0 .. TotalRetryTimes]
NoGetter == [exists |-> FALSE, passwd |-> FALSE, retries |-> 0]
NewRosaKubeConfigGetter == [NoGetter EXCEPT !.exists = TRUE]

(* user: whether the import user has the password that the getter knows.   *)
Account == [user: {"none", "known", "forgotten"}, admin: BOOLEAN]
NoAccount == [user |-> "none", admin |-> FALSE]
Forget(a) == [a EXCEPT !.user = IF @ = "none" THEN "none" ELSE "forgotten"]

(* What a call leaves behind; failures: the calls to OCM that failed.      *)
Result(ok, getter, account, failures) ==
    [ok |-> ok, getter |-> getter, account |-> account, failures |-> failures]

(* The provider goes with its user, then the group's member; the second is *)
(* tried although the first failed.                                        *)
Removals(a) ==
    {[account |-> NoAccount, failures |-> 0]}
      \cup {[account |-> b, failures |-> 1] :
              b \in {a, [a EXCEPT !.admin = FALSE], [a EXCEPT !.user = "none"]}}

(* Whether there was a provider or not, and a user in it or not, the user  *)
(* gets a new password, and is added to the group.                         *)
createImportUserWithHTPasswdIDProvider(g, a) ==
    {[ok |-> TRUE, account |-> [user |-> "known", admin |-> TRUE]],
     [ok |-> FALSE, account |-> [a EXCEPT !.user = "forgotten"]]}

(* Mutant: the import user is kept when the retries are used up. *)
shouldRetryKeepsUser(g, a) ==
    IF g.retries < TotalRetryTimes
      THEN {Result(FALSE, [g EXCEPT !.retries = @ + 1], a, 0)}
      ELSE {Result(FALSE, g, a, 0)}

shouldRetry(g, a) ==
    IF g.retries < TotalRetryTimes
      THEN {Result(FALSE, [g EXCEPT !.retries = @ + 1], a, 0)}
      ELSE {Result(FALSE, g, r.account, r.failures) : r \in Removals(a)}

RequestToken(g, a) ==
    shouldRetry(g, a)
      \cup (IF a.user = "known" THEN {Result(TRUE, g, a, 0)} ELSE {})

(* The results a call may have; the first one: OCM does not answer.  The   *)
(* password is remembered once the user is in the group, and for good.     *)
KubeConfig(g, a) ==
    {Result(FALSE, g, a, 1)} \cup
    IF g.passwd THEN RequestToken(g, a)
      ELSE UNION {IF u.ok THEN RequestToken([g EXCEPT !.passwd = TRUE], u.account)
                          ELSE {Result(FALSE, g, u.account, 1)} :
                    u \in createImportUserWithHTPasswdIDProvider(g, a)}

(* A getter that has cleaned up is dropped. *)
Cleanup(g, a) ==
    {Result(r.failures = 0, IF r.failures = 0 THEN NoGetter ELSE g,
            r.account, r.failures) : r \in Removals(a)}
=============================================================================
