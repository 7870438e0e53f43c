----------------------- MODULE OnionServiceReconciler -----------------------
(***************************************************************************)
(* The reconciler of an OnionService (onionservice_*.go): the check of its  *)
(* rules, its children, its status.                                         *)
(***************************************************************************)
EXTENDS ChildResources

\* The port of the rule's backend: number and protocol, or number and name.
BackendPort == [name |-> "http", number |-> 80, protocol |-> "TCP"]

\* portExists: same protocol, and the same number or the same nonempty name.
portExists(ports, item) ==
    \E port \in ports :
        /\ port.protocol = item.protocol
        /\ port.number = item.number \/ (port.name # "" /\ port.name = item.name)

\* A variant of OSTargetMissing that gives up.
OSTargetMissingIgnored ==
    /\ At("OnionService", "rules") /\ ~world.target.exists
    /\ Done
    /\ UNCHANGED <<kind, obj, world, children, seen, cache, halted, faults>>

\* The service of the rule is not there: an error.
OSTargetMissing ==
    /\ At("OnionService", "rules") /\ ~world.target.exists
    /\ Requeue
    /\ UNCHANGED <<kind, obj, world, children, seen, cache, halted, faults>>

\* It lacks the port: the error is made with Wrapf from a nil error, is nil
\* itself, and the reconcile ends as a success.
OSPortMissing ==
    /\ At("OnionService", "rules") /\ world.target.exists /\ ~portExists(world.target.ports, BackendPort)
    /\ Done
    /\ halted' = TRUE
    /\ UNCHANGED <<kind, obj, world, children, seen, cache, faults>>

OSRulesHold ==
    /\ At("OnionService", "rules") /\ world.target.exists /\ portExists(world.target.ports, BackendPort)
    /\ Goto("auth")
    /\ UNCHANGED <<kind, obj, world, children, seen, cache, halted, faults>>

\* The clients' keys are collected for each reconcile and used for the first.
torOnionServiceSecretAuthorizedClients == FromSpec("OnionService")
OSReconcileSecretAuthorizedClients ==
    At("OnionService", "auth") /\ CreateOnly("auth", torOnionServiceSecretAuthorizedClients, "secret")

\* A key pair is drawn for each reconcile and used for the first.
torOnionServiceSecret(key) == Keyed("OnionService", key)
OSReconcileSecret ==
    /\ At("OnionService", "secret")
    /\ \E key \in Keys : CreateOnly("secret", torOnionServiceSecret(key), "serviceAccount")

torOnionServiceAccount == Fixed("OnionService")
OSReconcileServiceAccount ==
    At("OnionService", "serviceAccount") /\ CreateOrUpdate("serviceAccount", torOnionServiceAccount, "role")

torOnionRole == Fixed("OnionService")
OSReconcileRole == At("OnionService", "role") /\ CreateOrUpdate("role", torOnionRole, "roleBinding")

torOnionRolebinding == Fixed("OnionService")
OSReconcileRolebinding ==
    At("OnionService", "roleBinding") /\ CreateOrUpdate("roleBinding", torOnionRolebinding, "service")

\* The ports of the rules.
OnionServiceService == FromSpec("OnionService")
OSReconcileService ==
    At("OnionService", "service") /\ CreateOrUpdate("service", OnionServiceService, "deployment")

\* The pods mount the two secrets and run as the service account.
OSMounts == {"auth", "secret", "serviceAccount"}
torOnionServiceDeployment == FromSpec("OnionService")
OSReconcileDeployment ==
    At("OnionService", "deployment") /\ CreateOrUpdate("deployment", torOnionServiceDeployment, "metrics")

osTorMetricsService == Fixed("OnionService")
OSReconcileMetricsService ==
    At("OnionService", "metrics") /\ CreateOrUpdate("metrics", osTorMetricsService, "monitor")

osTorServiceMonitor == Fixed("OnionService")
OSReconcileServiceMonitor == At("OnionService", "monitor") /\ ServiceMonitor(osTorServiceMonitor, "status")

(***************************************************************************)
(* The address of the service, or, if the cache does not show it yet, the   *)
(* default; the rest of the status is what it was when the reconcile began. *)
(***************************************************************************)
OSReportStatus ==
    /\ At("OnionService", "status")
    /\ \E got \in Versions("service") :
          /\ Get("service", got)
          /\ StatusUpdate([obj EXCEPT !.target = IF got = Absent THEN "default" ELSE "real",
                                      !.hostname = copy.hostname])
    /\ Done
    /\ UNCHANGED <<kind, world, children, halted>>

OSReconcile ==
    \/ OSTargetMissing \/ OSPortMissing \/ OSRulesHold
    \/ OSReconcileSecretAuthorizedClients \/ OSReconcileSecret
    \/ OSReconcileServiceAccount \/ OSReconcileRole \/ OSReconcileRolebinding
    \/ OSReconcileService \/ OSReconcileDeployment \/ OSReconcileMetricsService
    \/ OSReconcileServiceMonitor \/ OSReportStatus
=============================================================================
