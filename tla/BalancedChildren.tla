-------------------------- MODULE BalancedChildren --------------------------
(***************************************************************************)
(* The children of an OnionBalancedService (onionbalancedservice_*.go)      *)
(* other than its backends, and what its status says of these.  How the     *)
(* address in the secret reaches status and backends, and how the backends  *)
(* come about, is the subject of module OnionBalancedService.               *)
(***************************************************************************)
EXTENDS ChildResources

onionbalanceSecret(key) == Keyed("OnionBalancedService", key)
OBSReconcileSecret ==
    /\ At("OnionBalancedService", "secret")
    /\ \E key \in Keys : CreateOnly("secret", onionbalanceSecret(key), "serviceAccount")

onionbalanceServiceAccount == Fixed("OnionBalancedService")
OBSReconcileServiceAccount ==
    At("OnionBalancedService", "serviceAccount") /\ CreateOrUpdate("serviceAccount", onionbalanceServiceAccount, "role")

onionbalanceRole == Fixed("OnionBalancedService")
OBSReconcileRole == At("OnionBalancedService", "role") /\ CreateOrUpdate("role", onionbalanceRole, "roleBinding")

\* The owner's kind in lower case.
onionbalanceRolebinding == Fixed("onionbalancedservice")
OBSReconcileRolebinding ==
    At("OnionBalancedService", "roleBinding") /\ CreateOrUpdate("roleBinding", onionbalanceRolebinding, "service")

onionbalanceService == FromSpec("OnionBalancedService")

\* A variant of OBSReconcileService after which the deployment comes next.
OBSServiceThenDeployment ==
    At("OnionBalancedService", "service") /\ CreateOrUpdate("service", onionbalanceService, "deployment")

OBSReconcileService ==
    At("OnionBalancedService", "service") /\ CreateOrUpdate("service", onionbalanceService, "configMap")

\* The owner's kind in lower case; the text is the same for every spec.
onionbalanceTorConfigMap == Fixed("onionbalancedservice")
OBSReconcileConfigMap ==
    At("OnionBalancedService", "configMap") /\ CreateOnly("configMap", onionbalanceTorConfigMap, "deployment")

\* The pods mount the config map and the secret and run as the service account.
OBSMounts == {"configMap", "secret", "serviceAccount"}
onionbalanceDeployment == FromSpec("OnionBalancedService")
OBSReconcileDeployment ==
    At("OnionBalancedService", "deployment") /\ CreateOrUpdate("deployment", onionbalanceDeployment, "metrics")

obsTorMetricsService == Fixed("OnionBalancedService")
OBSReconcileMetricsService ==
    At("OnionBalancedService", "metrics") /\ CreateOrUpdate("metrics", obsTorMetricsService, "monitor")

obsTorServiceMonitor == Fixed("OnionBalancedService")
OBSReconcileServiceMonitor == At("OnionBalancedService", "monitor") /\ ServiceMonitor(obsTorServiceMonitor, "status")

\* A variant of OBSReportStatus that does not come back.
OBSReportOnce ==
    /\ At("OnionBalancedService", "status")
    /\ \E got \in Versions("service") :
          /\ Get("service", got)
          /\ StatusUpdate([obj EXCEPT !.target = IF got = Absent THEN "default" ELSE "real",
                                      !.listed = world.published])
    /\ Done
    /\ UNCHANGED <<kind, world, children, halted>>

(***************************************************************************)
(* The address of the service, as for an OnionService, and the backends;    *)
(* RequeueAfter until all are there with a hostname.                        *)
(***************************************************************************)
OBSReportStatus ==
    /\ At("OnionBalancedService", "status")
    /\ \E got \in Versions("service") :
          /\ Get("service", got)
          /\ StatusUpdate([obj EXCEPT !.target = IF got = Absent THEN "default" ELSE "real",
                                      !.listed = world.published])
          /\ IF world.published THEN Done ELSE Requeue
    /\ UNCHANGED <<kind, world, children, halted>>

OBSReconcile ==
    \/ OBSReconcileSecret \/ OBSReconcileServiceAccount \/ OBSReconcileRole
    \/ OBSReconcileRolebinding \/ OBSReconcileService \/ OBSReconcileConfigMap
    \/ OBSReconcileDeployment \/ OBSReconcileMetricsService
    \/ OBSReconcileServiceMonitor \/ OBSReportStatus
=============================================================================
