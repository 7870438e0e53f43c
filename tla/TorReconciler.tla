--------------------------- MODULE TorReconciler ---------------------------
(***************************************************************************)
(* The reconciler of a Tor object (tor_*.go): its ports, the password of    *)
(* its control port, its children, its status.                              *)
(***************************************************************************)
EXTENDS ChildResources

ClientOrServer == {"dns", "natd", "httptunnel", "trans", "socks", "server"}

\* A variant of SetTorDefaults that leaves the enabled ports alone.
OnlyNumbersByDefault(ports) == ports

\* Without a client or server port, socks; neither the control port nor the
\* metrics port counts.
SetTorDefaults(ports) ==
    IF ports \cap ClientOrServer = {} THEN ports \cup {"socks"} ELSE ports

torServiceAccount == Fixed("Tor")
TorReconcileServiceAccount ==
    At("Tor", "serviceAccount") /\ CreateOrUpdate("serviceAccount", torServiceAccount, "role")

\* A variant of torRole with the owner's kind in lower case.
torRoleLowerCase == Fixed("tor")

torRole == Fixed("Tor")
TorReconcileRole == At("Tor", "role") /\ CreateOrUpdate("role", torRole, "roleBinding")

torRolebinding == Fixed("Tor")
TorReconcileRolebinding ==
    At("Tor", "roleBinding") /\ CreateOrUpdate("roleBinding", torRolebinding, "service")

\* getTorServicePortList: all enabled ports.  Without any there is no service.
torService == FromSpec("Tor")
TorReconcileService ==
    /\ At("Tor", "service")
    /\ CreateIfWanted("service", torService, copy.spec.ports # {}, "secret")

torSecret(password) == Keyed("Tor", password)

\* A secret that the spec refers to is not there: an error.
Dangling == copy.spec.ref /\ world.ref = "missing"

\* The passwords in use: those the spec lists and those in the secrets it refers
\* to; a secret without the key adds none, and is no error.  The stored one is
\* used only by a spec that does neither.
InUse(stored) ==
    IF copy.spec.inline \/ (copy.spec.ref /\ world.ref = "there") THEN Given
    ELSE IF copy.spec.ref THEN NoKey
    ELSE stored

\* A variant of TorReconcileControlSecret that uses the password it has drawn.
TorUsesDrawnPassword ==
    /\ At("Tor", "secret")
    /\ \E got \in Versions("secret"), password \in Passwords :
          /\ Get("secret", got)
          /\ children' = IF children["secret"] = Absent
                         THEN [children EXCEPT !["secret"] = torSecret(password)] ELSE children
          /\ pc' = "configMap"
          /\ copy' = [copy EXCEPT !.key = password]
          /\ UNCHANGED queued
    /\ UNCHANGED others

\* A variant of TorReconcileControlSecret that takes AlreadyExists for success.
TorConflictAbsorbed ==
    /\ At("Tor", "secret")
    /\ \E got \in Versions("secret"), password \in Passwords :
          LET stored == IF got = Absent THEN password ELSE got.key
          IN /\ Get("secret", got)
             /\ children' = IF got = Absent /\ children["secret"] = Absent
                            THEN [children EXCEPT !["secret"] = torSecret(password)]
                            ELSE children
             /\ \/ Dangling /\ Requeue
                \/ /\ ~Dangling
                   /\ pc' = "configMap"
                   /\ copy' = [copy EXCEPT !.key = InUse(stored)]
                   /\ UNCHANGED queued
    /\ UNCHANGED others

(***************************************************************************)
(* reconcileControlSecret.  A password is drawn each time and stored if     *)
(* there is no secret yet.  The stored one is used whoever controls it.     *)
(***************************************************************************)
TorReconcileControlSecret ==
    /\ At("Tor", "secret")
    /\ \E got \in Versions("secret"), password \in Passwords :
          LET stored == IF got = Absent THEN password ELSE got.key
              refused == got = Absent /\ children["secret"] # Absent
          IN /\ Get("secret", got)
             /\ children' = IF got = Absent /\ ~refused
                            THEN [children EXCEPT !["secret"] = torSecret(password)]
                            ELSE children
             /\ \/ (refused \/ Dangling) /\ Requeue
                \/ /\ ~refused /\ ~Dangling
                   /\ pc' = "configMap"
                   /\ copy' = [copy EXCEPT !.key = InUse(stored)]
                   /\ UNCHANGED queued
    /\ UNCHANGED others

\* The torrc names a control port only if the spec enables one, and then with the
\* hashes of the passwords in use.
Hashed == IF "control" \in copy.spec.ports THEN copy.key ELSE NoKey

torConfigMap == [FromSpec("Tor") EXCEPT !.key = Hashed]
TorReconcileConfigMap ==
    At("Tor", "configMap") /\ CreateOnly("configMap", torConfigMap, "deployment")

\* The pods mount the config map and run as the service account.
TorMounts == {"configMap", "serviceAccount"}
torDeployment == FromSpec("Tor")
TorReconcileDeployment ==
    At("Tor", "deployment") /\ CreateOrUpdate("deployment", torDeployment, "metrics")

\* Once created it stays, and is updated, when metrics are switched off.
torMetricsService == Fixed("Tor")
TorReconcileMetricsService ==
    /\ At("Tor", "metrics")
    /\ CreateIfWanted("metrics", torMetricsService, "metrics" \in copy.spec.ports, "monitor")

torServiceMonitor == Fixed("Tor")
TorReconcileServiceMonitor == At("Tor", "monitor") /\ ServiceMonitor(torServiceMonitor, "status")

\* The cache does not show the service yet: an error.
TorServiceMissing ==
    /\ At("Tor", "status")
    /\ Absent \in Versions("service") /\ Get("service", Absent)
    /\ Requeue
    /\ UNCHANGED <<kind, obj, world, children, cache, halted>>

TorReportStatus ==
    /\ At("Tor", "status")
    /\ \E got \in Versions("service") \ {Absent} : Get("service", got)
    /\ StatusUpdate([obj EXCEPT !.target = "real"])
    /\ Done
    /\ UNCHANGED <<kind, world, children, halted>>

TorReconcile ==
    \/ TorReconcileServiceAccount \/ TorReconcileRole \/ TorReconcileRolebinding
    \/ TorReconcileService \/ TorReconcileControlSecret \/ TorReconcileConfigMap
    \/ TorReconcileDeployment \/ TorReconcileMetricsService
    \/ TorReconcileServiceMonitor \/ TorServiceMissing \/ TorReportStatus
=============================================================================
