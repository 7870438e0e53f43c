------------------------ MODULE OnionBalancedService ------------------------
(***************************************************************************)
(* The reconciler of an OnionBalancedService                                *)
(* (src/controllers/tor/onionbalancedservice_controller.go and the files    *)
(* beside it), running in one or more operator processes against one       *)
(* Kubernetes API server.                                                   *)
(*                                                                          *)
(* An operator reads every object through its informer caches, which lag    *)
(* behind the API server by an arbitrary amount, and writes to the API     *)
(* server directly.  A reconcile is a sequence of such calls; each of them  *)
(* is one action here, so that other operators, the users, the garbage     *)
(* collector and the tor agents of the backends act between them.  A step   *)
(* that reads the cache and then writes is one action: nobody but the      *)
(* operator's own informer changes its cache, and that change can be       *)
(* delayed past the write without any other difference.                    *)
(***************************************************************************)
EXTENDS Naturals, FiniteSets

CONSTANTS
    Operators,       \* the operator processes
    Addresses,       \* the onion addresses GenerateOnionV3 may draw
    NoAddress,       \* the empty string in a hostname or in a secret's data
    NoSecret,        \* the master's secret does not exist
    MaxBackends,     \* the CRD's maximum of spec.backends (8 in the code)
    Foreign,         \* OnionServices of the namespace that are not backends
    MaxGeneration,   \* bound: how often a user may write the spec
    AllowScaleDown,  \* may a user lower spec.backends?
    AllowDelete,     \* may a user delete the OnionBalancedService?
    Faults,          \* what may go wrong: a subset of FaultKinds
    MaxFaults,       \* bound: how often something goes wrong
    InitialSecrets,  \* what the secret may hold before the operator starts
    InitialMonitors  \* may a service monitor be wanted?

FaultKinds == {"api", "list", "crash"}

ASSUME MaxBackendsAssumption == MaxBackends \in Nat \ {0}
ASSUME MaxGenerationAssumption == MaxGeneration \in Nat \ {0}
ASSUME AddressAssumption == /\ NoAddress \notin Addresses
                            /\ NoSecret \notin Addresses \cup {NoAddress}
ASSUME ForeignAssumption == Foreign \cap (1 .. MaxBackends) = {}
ASSUME FaultsAssumption == Faults \subseteq FaultKinds /\ MaxFaults \in Nat
ASSUME AllowAssumption == AllowScaleDown \in BOOLEAN /\ AllowDelete \in BOOLEAN
ASSUME InitialSecretsAssumption ==
    InitialSecrets \subseteq Addresses \cup {NoAddress, NoSecret}
ASSUME InitialMonitorsAssumption == InitialMonitors \subseteq {"unwanted", "absent"}

VARIABLES
    obs,       \* the OnionBalancedService at the API server
    secret,    \* the secret of the master at the API server
    services,  \* the OnionServices of the namespace at the API server
    monitor,   \* the service monitor at the API server, if one is wanted
    cache,     \* per operator: what its informers hold
    queued,    \* per operator: the request is in its work queue
    pc,        \* per operator: where its reconcile stands
    copy,      \* per operator: the object its reconcile works on
    faults     \* how often something may still go wrong

vars == <<obs, secret, services, monitor, cache, queued, pc, copy, faults>>

\* The indices of the backends; a backend is named after its index.
Backends == 1 .. MaxBackends
Services == Backends \cup Foreign

\* An OnionService is absent, or its agent has not yet published its
\* hostname, or it has.
Phases == {"absent", "pending", "published"}

(***************************************************************************)
(* It is unwanted as long as spec.serviceMonitor is off or its CRD is       *)
(* missing; users and administrators leave both as they are.  Its           *)
(* collection after a deletion is left to ChildResources: with or without   *)
(* it, what is then still under way ends in a requeue or a conflict.        *)
(***************************************************************************)
Monitors == {"unwanted", "absent", "present"}

SecretStates == Addresses \cup {NoAddress, NoSecret}

Exists(s) == services[s].phase # "absent"

---------------------------------------------------------------------------
(* Types and initial states *)

\* The object as a reconcile of the controller sees it at the API server.
ObjectType == [exists : BOOLEAN, generation : 1 .. MaxGeneration,
               backends : Backends, hostname : Addresses \cup {NoAddress},
               listed : [Services -> Phases]]

SecretType == [address : SecretStates, owned : BOOLEAN]

ServiceType == [phase : Phases, master : Addresses \cup {NoAddress}]

(***************************************************************************)
(* fresh says that the resourceVersion held is still the one of the API     *)
(* server: it is what Status().Update compares.                            *)
(***************************************************************************)
CacheType == [exists : BOOLEAN, generation : 1 .. MaxGeneration,
              backends : Backends, fresh : BOOLEAN, secret : SecretStates,
              phases : [Services -> Phases]]

CopyType == [backends : Backends, fresh : BOOLEAN,
             hostname : Addresses \cup {NoAddress}, idx : 1 .. MaxBackends + 1]

Steps == {"idle", "secret", "children", "backends", "monitoring", "status"}

TypeOK ==
    /\ obs \in ObjectType
    /\ secret \in SecretType
    /\ services \in [Services -> ServiceType]
    /\ monitor \in Monitors
    /\ cache \in [Operators -> CacheType]
    /\ queued \in [Operators -> BOOLEAN]
    /\ pc \in [Operators -> Steps]
    /\ copy \in [Operators -> CopyType]
    /\ faults \in 0 .. MaxFaults

Unmastered(phase) == [phase |-> phase, master |-> NoAddress]

\* What a new informer holds once it has listed everything.
Listed == [exists |-> obs.exists, generation |-> obs.generation,
           backends |-> obs.backends, fresh |-> TRUE,
           secret |-> secret.address,
           phases |-> [s \in Services |-> services[s].phase]]

\* The local variables of Reconcile between two of its calls.
NoCopy == [backends |-> 1, fresh |-> FALSE, hostname |-> NoAddress, idx |-> 1]

Init ==
    /\ \E n \in Backends :
          obs = [exists |-> TRUE, generation |-> 1, backends |-> n,
                 hostname |-> NoAddress,
                 listed |-> [s \in Services |-> "absent"]]
    /\ \E a \in InitialSecrets : secret = [address |-> a, owned |-> FALSE]
    /\ services = [s \in Services |-> IF s \in Foreign THEN Unmastered("pending")
                                                   ELSE Unmastered("absent")]
    /\ monitor \in InitialMonitors
    /\ cache = [o \in Operators |-> Listed]
    /\ queued = [o \in Operators |-> TRUE]
    /\ pc = [o \in Operators |-> "idle"]
    /\ copy = [o \in Operators |-> NoCopy]
    /\ faults = MaxFaults

---------------------------------------------------------------------------
(* The informers of an operator *)

(***************************************************************************)
(* The OnionBalancedService informer catches up.  SetupWithManager filters  *)
(* updates with GenerationChangedPredicate, so a change of the status       *)
(* enqueues nothing; a deletion always does.                                *)
(***************************************************************************)
SyncOBS(o) ==
    /\ ~cache[o].fresh
    /\ cache' = [cache EXCEPT ![o].exists = obs.exists,
                              ![o].generation = obs.generation,
                              ![o].backends = obs.backends,
                              ![o].fresh = TRUE]
    /\ queued' = [queued EXCEPT ![o] = \/ @
                                       \/ cache[o].generation # obs.generation
                                       \/ cache[o].exists # obs.exists]
    /\ UNCHANGED <<obs, secret, services, monitor, pc, copy, faults>>

\* Nothing watches the secret to enqueue a request: only the cache changes.
SyncSecret(o) ==
    /\ cache[o].secret # secret.address
    /\ cache' = [cache EXCEPT ![o].secret = secret.address]
    /\ UNCHANGED <<obs, secret, services, monitor, queued, pc, copy, faults>>

\* Nor are the OnionServices watched by this controller.
SyncServices(o) ==
    /\ cache[o].phases # Listed.phases
    /\ cache' = [cache EXCEPT ![o].phases = Listed.phases]
    /\ UNCHANGED <<obs, secret, services, monitor, queued, pc, copy, faults>>

---------------------------------------------------------------------------
(* A reconcile *)

\* Something of this kind goes wrong.
Fault(kind) ==
    /\ kind \in Faults /\ faults > 0
    /\ faults' = faults - 1

\* The reconcile ends with an error or with RequeueAfter.
Requeue(o) ==
    /\ pc' = [pc EXCEPT ![o] = "idle"]
    /\ copy' = [copy EXCEPT ![o] = NoCopy]
    /\ queued' = [queued EXCEPT ![o] = TRUE]

Goto(o, step) ==
    /\ pc' = [pc EXCEPT ![o] = step]
    /\ UNCHANGED queued

\* What Get returns; reconcileSecret sets the hostname before its first use.
CopyOf(o) == [backends |-> cache[o].backends, fresh |-> cache[o].fresh,
              hostname |-> NoAddress, idx |-> 1]

\* A variant of Fetch that overlooks that the object is gone.
FetchUnchecked(o) ==
    /\ pc[o] = "idle" /\ queued[o]
    /\ queued' = [queued EXCEPT ![o] = FALSE]
    /\ pc' = [pc EXCEPT ![o] = "secret"]
    /\ copy' = [copy EXCEPT ![o] = CopyOf(o)]
    /\ UNCHANGED <<obs, secret, services, monitor, cache, faults>>

\* The worker takes the request and the object is in the cache.
Fetch(o) ==
    /\ pc[o] = "idle" /\ queued[o] /\ cache[o].exists
    /\ queued' = [queued EXCEPT ![o] = FALSE]
    /\ pc' = [pc EXCEPT ![o] = "secret"]
    /\ copy' = [copy EXCEPT ![o] = CopyOf(o)]
    /\ UNCHANGED <<obs, secret, services, monitor, cache, faults>>

\* The worker takes the request and the object is gone: IgnoreNotFound.
FetchNotFound(o) ==
    /\ pc[o] = "idle" /\ queued[o] /\ ~cache[o].exists
    /\ queued' = [queued EXCEPT ![o] = FALSE]
    /\ UNCHANGED <<obs, secret, services, monitor, cache, pc, copy, faults>>

\* A variant of SecretFound that adopts the key pair it has just drawn.
SecretFoundRedrawn(o) ==
    /\ pc[o] = "secret" /\ cache[o].secret # NoSecret
    /\ \E a \in Addresses : copy' = [copy EXCEPT ![o].hostname = a]
    /\ Goto(o, "children")
    /\ UNCHANGED <<obs, secret, services, monitor, cache, faults>>

\* reconcileSecret finds the secret in the cache and adopts its address;
\* a secret without an onionAddress gives the empty hostname.
SecretFound(o) ==
    /\ pc[o] = "secret" /\ cache[o].secret # NoSecret
    /\ copy' = [copy EXCEPT ![o].hostname = cache[o].secret]
    /\ Goto(o, "children")
    /\ UNCHANGED <<obs, secret, services, monitor, cache, faults>>

\* A variant of SecretCreate that applies the secret instead of creating it.
SecretApply(o) ==
    /\ pc[o] = "secret" /\ cache[o].secret = NoSecret
    /\ \E a \in Addresses :
          /\ secret' = [address |-> a, owned |-> TRUE]
          /\ copy' = [copy EXCEPT ![o].hostname = a]
    /\ Goto(o, "children")
    /\ UNCHANGED <<obs, services, monitor, cache, faults>>

\* It does not find it, and creates it with a new key pair.
SecretCreate(o) ==
    /\ pc[o] = "secret" /\ cache[o].secret = NoSecret
    /\ secret.address = NoSecret
    /\ \E a \in Addresses :
          /\ secret' = [address |-> a, owned |-> TRUE]
          /\ copy' = [copy EXCEPT ![o].hostname = a]
    /\ Goto(o, "children")
    /\ UNCHANGED <<obs, services, monitor, cache, faults>>

\* A variant of SecretConflict that takes AlreadyExists for success.
SecretConflictAbsorbed(o) ==
    /\ pc[o] = "secret" /\ cache[o].secret = NoSecret
    /\ secret.address # NoSecret
    /\ \E a \in Addresses : copy' = [copy EXCEPT ![o].hostname = a]
    /\ Goto(o, "children")
    /\ UNCHANGED <<obs, secret, services, monitor, cache, faults>>

\* It does not find it in its stale cache, and Create says AlreadyExists.
SecretConflict(o) ==
    /\ pc[o] = "secret" /\ cache[o].secret = NoSecret
    /\ secret.address # NoSecret
    /\ Requeue(o)
    /\ UNCHANGED <<obs, secret, services, monitor, cache, faults>>

\* Service account, role, role binding, service, config map, deployment.
ReconcileChildren(o) ==
    /\ pc[o] = "children"
    /\ Goto(o, "backends")
    /\ UNCHANGED <<obs, secret, services, monitor, cache, copy, faults>>

\* A variant of NextBackend with a loop that goes one too far.
NextBackendOneMore(o) ==
    /\ copy' = [copy EXCEPT ![o].idx = @ + 1]
    /\ Goto(o, IF copy[o].idx > copy[o].backends THEN "monitoring" ELSE "backends")

\* The loop of reconcileBackends goes on, or ends.
NextBackend(o) ==
    /\ copy' = [copy EXCEPT ![o].idx = @ + 1]
    /\ Goto(o, IF copy[o].idx = copy[o].backends THEN "monitoring" ELSE "backends")

\* A variant of NewBackend that leaves the master to the template.
NewBackendFromTemplate(o) == [phase |-> "pending", master |-> NoAddress]

\* What onionBalancedServiceBackend builds for this copy of the object.
NewBackend(o) == [phase |-> "pending", master |-> copy[o].hostname]

(***************************************************************************)
(* reconcileBackend of index i: without a hostname, or when the backend is  *)
(* in the cache, nothing is created; when it is not in the cache, Create    *)
(* creates it or says AlreadyExists, which the loop only logs.             *)
(***************************************************************************)
ReconcileBackend(o, i) ==
    /\ pc[o] = "backends" /\ copy[o].idx = i
    /\ IF copy[o].hostname # NoAddress /\ cache[o].phases[i] = "absent" /\ ~Exists(i)
       THEN services' = [services EXCEPT ![i] = NewBackend(o)]
       ELSE UNCHANGED services
    /\ NextBackend(o)
    /\ UNCHANGED <<obs, secret, monitor, cache, faults>>

\* Metrics service, and the service monitor, which is created if it is wanted.
ReconcileMonitoring(o) ==
    /\ pc[o] = "monitoring" /\ monitor # "present"
    /\ monitor' = IF monitor = "absent" THEN "present" ELSE monitor
    /\ Goto(o, "status")
    /\ UNCHANGED <<obs, secret, services, cache, copy, faults>>

\* A monitor that is there never equals the new one, and an Update without a
\* resourceVersion is refused, as is a Create from a cache that lags behind.
MonitorRefused(o) ==
    /\ pc[o] = "monitoring" /\ monitor = "present"
    /\ Requeue(o)
    /\ UNCHANGED <<obs, secret, services, monitor, cache, faults>>

\* A variant of IsSynced that does not ask for the hostnames.
IsSyncedByCount(backends, listed) ==
    Cardinality({s \in Services : listed[s] # "absent"}) = backends

\* IsSynced compares the count of the listed services with spec.backends
\* and wants a hostname for each of them.
IsSynced(backends, listed) ==
    /\ Cardinality({s \in Services : listed[s] # "absent"}) = backends
    /\ \A s \in Services : listed[s] # "pending"

\* Every write that changes the object gives it a new resourceVersion.
Outdated(view) == [o \in Operators |-> [view[o] EXCEPT !.fresh = FALSE]]

\* A variant of WriteStatus without RequeueAfter.
WriteStatusOnce(o, listing) ==
    /\ obs' = [obs EXCEPT !.hostname = copy[o].hostname, !.listed = listing]
    /\ cache' = IF obs' = obs THEN cache ELSE Outdated(cache)
    /\ copy' = [(IF obs' = obs THEN copy ELSE Outdated(copy)) EXCEPT ![o] = NoCopy]
    /\ pc' = [pc EXCEPT ![o] = "idle"]
    /\ UNCHANGED <<secret, services, monitor, queued>>

\* Status().Update with the hostname of the copy and the listing.  A write
\* that changes nothing leaves the resourceVersion alone.
WriteStatus(o, listing) ==
    /\ obs' = [obs EXCEPT !.hostname = copy[o].hostname, !.listed = listing]
    /\ cache' = IF obs' = obs THEN cache ELSE Outdated(cache)
    /\ copy' = [(IF obs' = obs THEN copy ELSE Outdated(copy)) EXCEPT ![o] = NoCopy]
    /\ pc' = [pc EXCEPT ![o] = "idle"]
    /\ queued' = [queued EXCEPT ![o] = @ \/ ~IsSynced(copy[o].backends, listing)]
    /\ UNCHANGED <<secret, services, monitor>>

\* A variant of UpdateStatus that lists each backend with the hostname of the
\* service instead of its own.
UpdateStatusOwnHostname(o) ==
    /\ pc[o] = "status" /\ copy[o].fresh /\ obs.exists
    /\ LET listed(s) == IF cache[o].phases[s] = "pending" /\ copy[o].hostname # NoAddress
                        THEN "published" ELSE cache[o].phases[s]
       IN  WriteStatus(o, [s \in Services |-> listed(s)])
    /\ UNCHANGED faults

UpdateStatus(o) ==
    /\ pc[o] = "status" /\ copy[o].fresh /\ obs.exists
    /\ WriteStatus(o, cache[o].phases)
    /\ UNCHANGED faults

\* List fails, which is only logged: the status gets an empty map.
UpdateStatusListFails(o) ==
    /\ Fault("list")
    /\ pc[o] = "status" /\ copy[o].fresh /\ obs.exists
    /\ WriteStatus(o, [s \in Services |-> "absent"])

\* Somebody wrote the object since the copy was read, or deleted it.
UpdateStatusConflict(o) ==
    /\ pc[o] = "status" /\ (~copy[o].fresh \/ ~obs.exists)
    /\ Requeue(o)
    /\ UNCHANGED <<obs, secret, services, monitor, cache, faults>>

\* A variant of CallFails that reports the failure by an empty status.
CallFailsClearing(o) ==
    /\ Fault("api") /\ obs.exists
    /\ pc[o] = "status" /\ copy[o].fresh
    /\ WriteStatus(o, [s \in Services |-> "absent"])

\* A call of the step fails for another reason.  The loop over the backends
\* logs the error and goes on; everywhere else the reconcile ends with it.
CallFails(o) ==
    /\ Fault("api")
    /\ \/ /\ pc[o] \in {"secret", "children", "monitoring", "status"}
          /\ Requeue(o)
       \/ /\ pc[o] = "backends"
          /\ NextBackend(o)
    /\ UNCHANGED <<obs, secret, services, monitor, cache>>

\* The process ends at any point, and its successor lists everything.
Restart(o) ==
    /\ Fault("crash")
    /\ pc' = [pc EXCEPT ![o] = "idle"]
    /\ cache' = [cache EXCEPT ![o] = Listed]
    /\ copy' = [copy EXCEPT ![o] = NoCopy]
    /\ queued' = [queued EXCEPT ![o] = obs.exists]
    /\ UNCHANGED <<obs, secret, services, monitor>>

---------------------------------------------------------------------------
(* Everybody else who writes to the API server *)

\* A variant of Scale without the CRD's maximum.
ScaleUnvalidated ==
    /\ obs.exists /\ obs.generation < MaxGeneration
    /\ \E n \in 1 .. MaxBackends + 1 :
          obs' = [obs EXCEPT !.backends = n, !.generation = @ + 1]
    /\ cache' = Outdated(cache) /\ copy' = Outdated(copy)
    /\ UNCHANGED <<secret, services, monitor, queued, pc, faults>>

\* A user writes a new number of backends.  The rest of the spec stays as it is:
\* the name of the secret (spec.privateKeySecret) and whether a monitor is wanted.
Scale ==
    /\ obs.exists /\ obs.generation < MaxGeneration
    /\ \E n \in Backends \ {obs.backends} :
          /\ AllowScaleDown \/ n > obs.backends
          /\ obs' = [obs EXCEPT !.backends = n, !.generation = @ + 1]
    /\ cache' = Outdated(cache) /\ copy' = Outdated(copy)
    /\ UNCHANGED <<secret, services, monitor, queued, pc, faults>>

\* A user deletes the OnionBalancedService.
Delete ==
    /\ AllowDelete /\ obs.exists
    /\ obs' = [obs EXCEPT !.exists = FALSE]
    /\ cache' = Outdated(cache) /\ copy' = Outdated(copy)
    /\ UNCHANGED <<secret, services, monitor, queued, pc, faults>>

\* The cluster's garbage collector follows the owner references.
CollectSecret ==
    /\ ~obs.exists /\ secret.owned
    /\ secret' = [address |-> NoSecret, owned |-> FALSE]
    /\ UNCHANGED <<obs, services, monitor, cache, queued, pc, copy, faults>>

CollectBackend(i) ==
    /\ ~obs.exists /\ Exists(i)
    /\ services' = [services EXCEPT ![i] = Unmastered("absent")]
    /\ UNCHANGED <<obs, secret, monitor, cache, queued, pc, copy, faults>>

\* The tor agent of an OnionService publishes its hostname.
Publish(s) ==
    /\ services[s].phase = "pending"
    /\ services' = [services EXCEPT ![s].phase = "published"]
    /\ UNCHANGED <<obs, secret, monitor, cache, queued, pc, copy, faults>>

---------------------------------------------------------------------------

Reconcile(o) ==
    \/ Fetch(o) \/ FetchNotFound(o)
    \/ SecretFound(o) \/ SecretCreate(o) \/ SecretConflict(o)
    \/ ReconcileChildren(o)
    \/ \E i \in Backends : ReconcileBackend(o, i)
    \/ ReconcileMonitoring(o) \/ MonitorRefused(o)
    \/ UpdateStatus(o) \/ UpdateStatusConflict(o)

Failure(o) == CallFails(o) \/ UpdateStatusListFails(o) \/ Restart(o)

Collect == CollectSecret \/ \E i \in Backends : CollectBackend(i)

Next ==
    \/ \E o \in Operators :
          SyncOBS(o) \/ SyncSecret(o) \/ SyncServices(o) \/ Reconcile(o) \/ Failure(o)
    \/ Collect
    \/ \E s \in Services : Publish(s)
    \/ Scale \/ Delete

Spec == Init /\ [][Next]_vars

(***************************************************************************)
(* Every informer delivers, the worker goes on with its reconcile and takes *)
(* a queued request (back-off and RequeueAfter are finite), the garbage     *)
(* collector and the agents of the backends get to what they have to do.    *)
(* Nobody is obliged to write, delete, create, crash or fail.               *)
(***************************************************************************)
Fairness ==
    /\ \A o \in Operators : /\ WF_vars(SyncOBS(o)) /\ WF_vars(SyncSecret(o))
                            /\ WF_vars(SyncServices(o)) /\ WF_vars(Reconcile(o))
    /\ WF_vars(Collect) /\ WF_vars(\E s \in Services : Publish(s))

FairSpec == Spec /\ Fairness

---------------------------------------------------------------------------
(* Properties *)

(***************************************************************************)
(* Every backend that exists names the address of the master's secret as    *)
(* its master, whichever operator created it and from whatever cache        *)
(* (onionBalancedServiceBackend takes it from Status.Hostname, which         *)
(* reconcileSecret has just overwritten).  A backend is never updated, so a *)
(* wrong master would stay wrong.                                           *)
(***************************************************************************)
MasterAgreement ==
    obs.exists => \A i \in Backends : Exists(i) => services[i].master = secret.address

(***************************************************************************)
(* The hostname published in the status is the address whose keys are in    *)
(* the secret: reconcileSecret draws a new key pair in every reconcile and  *)
(* must never publish one that it did not store.                            *)
(***************************************************************************)
PublishedAddressHasKeys ==
    obs.exists /\ obs.hostname # NoAddress => obs.hostname = secret.address

(***************************************************************************)
(* Once published, the address of the service never changes nor disappears: *)
(* Status().Update writes the whole status of a copy that may be stale.     *)
(***************************************************************************)
AddressStable ==
    [][obs.hostname # NoAddress => obs'.hostname = obs.hostname]_vars

(***************************************************************************)
(* Nothing is left to do for any operator: no request, no reconcile, and no *)
(* change of the object that its informer has not seen.                     *)
(***************************************************************************)
Quiescent ==
    \A o \in Operators : /\ ~queued[o] /\ pc[o] = "idle"
                         /\ cache[o].generation = obs.generation
                         /\ cache[o].exists = obs.exists

Complete ==
    \A i \in Backends : i <= obs.backends => obs.listed[i] = "published"

(***************************************************************************)
(* The reconciler only rests when the status lists every backend the spec   *)
(* asks for, with its hostname.  Neither children nor status changes wake   *)
(* it, so what RequeueAfter (IsSynced) misses is missed for good.           *)
(* IsSynced: "All backends must exist", "All backends must have a hostname" *)
(***************************************************************************)
QuiescentMeansComplete == obs.exists /\ Quiescent => Complete

(***************************************************************************)
(* The status never forgets the hostname of a backend that still exists:    *)
(* the onionbalance agent would take it out of its configuration.           *)
(***************************************************************************)
ListedBackendKept ==
    [][\A i \in Backends :
          (obs.listed[i] = "published" /\ Exists(i)) => obs'.listed[i] = "published"]_vars

(***************************************************************************)
(* What the status lists is there: it is written from a cache that lags     *)
(* behind, by operators that do not know of each other, and still names     *)
(* only backends that exist, with a hostname only if their agent has        *)
(* published one.                                                           *)
(***************************************************************************)
ListedAreThere ==
    obs.exists =>
        \A i \in Backends : /\ obs.listed[i] # "absent" => Exists(i)
                            /\ obs.listed[i] = "published" => services[i].phase = "published"

(***************************************************************************)
(* No backend comes about that the spec does not ask for, whatever copy of  *)
(* the object the loop of reconcileBackends counts with: IsSynced compares  *)
(* the count of those that exist with spec.backends, so one too many keeps  *)
(* the service from ever being in order.  It needs a spec that is not       *)
(* scaled down, since nothing deletes a backend.                            *)
(***************************************************************************)
NoSurplusBackends ==
    obs.exists => \A i \in Backends : Exists(i) => i <= obs.backends

(***************************************************************************)
(* Whatever fails or crashes in between, once the users stop writing the    *)
(* status lists every backend asked for, and goes on doing so.  It needs a  *)
(* secret that holds an onionAddress, and no service monitor: once there is *)
(* one every reconcile ends with its refused Update, before the status, and *)
(* hostnames published after the first reconcile are never listed.          *)
(***************************************************************************)
EventuallyComplete ==
    (secret.address # NoAddress /\ monitor = "unwanted") => <>[](obs.exists => Complete)

(***************************************************************************)
(* After a deletion everything the operator created disappears, and no      *)
(* operator with a stale cache brings it back for good.                     *)
(***************************************************************************)
DeletionIsFinal ==
    [](~obs.exists => <>[](~secret.owned /\ \A i \in Backends : ~Exists(i)))

(***************************************************************************)
(* The reconcilers implement the promise of MasterIdentity.                 *)
(***************************************************************************)
Identity == INSTANCE MasterIdentity WITH
    Members <- Backends,
    alive <- obs.exists,
    address <- secret.address,
    published <- obs.hostname,
    master <- [i \in Backends |-> services[i].master]

(***************************************************************************)
(* Whatever the operators read from their caches, and however their calls   *)
(* interleave, seen from outside the service chooses one address, publishes *)
(* it once, and enrols every backend under it.                              *)
(***************************************************************************)
ImplementsIdentity == Identity!Spec
=============================================================================
