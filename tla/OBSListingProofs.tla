-------------------------- MODULE OBSListingProofs --------------------------
(***************************************************************************)
(* The listing in the status of an OnionBalancedService, for any number of  *)
(* addresses, backends, failures and writes: what a lone operator has       *)
(* listed it keeps, operators rest only on a complete listing, what they    *)
(* list is there, and they create nothing the spec does not ask for.        *)
(***************************************************************************)
EXTENDS OnionBalancedServiceProofs, FiniteSetTheorems

---------------------------------------------------------------------------
(* The status keeps what it lists *)

(***************************************************************************)
(* As long as the service exists, no backend goes and none becomes pending  *)
(* again: the cache of a lone operator never knows less than its listing.   *)
(***************************************************************************)
CachedPhasesSound ==
    \A o \in Operators, i \in Backends :
        cache[o].phases[i] = "published" => services[i].phase = "published"

ListedIsCached ==
    \A o \in Operators, i \in Backends :
        obs.listed[i] = "published" => cache[o].phases[i] = "published"

KeptInv == obs.exists => CachedPhasesSound /\ ListedIsCached

ListedKept ==
    \A i \in Backends :
        (obs.listed[i] = "published" /\ Exists(i)) => obs'.listed[i] = "published"

LEMMA OutdatedPhases ==
    ASSUME cache \in [Operators -> CacheType], NEW o \in Operators
    PROVE  Outdated(cache)[o].phases = cache[o].phases
  BY DEF Outdated, CacheType

(***************************************************************************)
(* Steps that leave the status and the services alone, and caches all but   *)
(* for the copy of the object and the secret.                               *)
(***************************************************************************)
LEMMA KeptByTheRest ==
    ASSUME KeptInv, obs'.exists => obs.exists, obs'.listed = obs.listed,
           \A i \in Backends : services'[i].phase = services[i].phase,
           \A o \in Operators : cache'[o].phases = cache[o].phases
    PROVE  KeptInv' /\ ListedKept
  BY DEF KeptInv, CachedPhasesSound, ListedIsCached, ListedKept

LEMMA NextKeptInv ==
    ASSUME TypeInv, KeptInv, [Next]_vars,
           "list" \notin Faults, \A o, p \in Operators : o = p
    PROVE  KeptInv' /\ ListedKept
  <1> USE DEF TypeInv, TypeOK
  <1>1. ASSUME NEW o \in Operators, SyncOBS(o) \/ SyncSecret(o)
        PROVE  KeptInv' /\ ListedKept
    <2>1. \A p \in Operators : cache'[p].phases = cache[p].phases
      BY <1>1 DEF SyncOBS, SyncSecret, CacheType
    <2> QED
      BY <1>1, <2>1, KeptByTheRest DEF SyncOBS, SyncSecret
  <1>2. ASSUME NEW o \in Operators, SyncServices(o)
        PROVE  KeptInv' /\ ListedKept
    <2>1. \A i \in Backends : cache'[o].phases[i] = services[i].phase
      BY <1>2 DEF SyncServices, Listed, CacheType, Services
    <2>2. UNCHANGED <<obs, services>>
      BY <1>2 DEF SyncServices
    <2>3. obs.exists => CachedPhasesSound' /\ ListedIsCached'
      BY <2>1, <2>2 DEF KeptInv, CachedPhasesSound, ListedIsCached
    <2> QED
      BY <2>2, <2>3 DEF KeptInv, ListedKept
  <1>3. ASSUME NEW o \in Operators,
               \/ Fetch(o) \/ FetchNotFound(o)
               \/ SecretFound(o) \/ SecretCreate(o) \/ SecretConflict(o)
               \/ ReconcileChildren(o) \/ ReconcileMonitoring(o)
               \/ MonitorRefused(o) \/ UpdateStatusConflict(o) \/ CallFails(o)
        PROVE  KeptInv' /\ ListedKept
    <2>1. UNCHANGED <<obs, services, cache>>
      BY <1>3 DEF Fetch, FetchNotFound, SecretFound, SecretCreate, SecretConflict,
                  ReconcileChildren, ReconcileMonitoring, MonitorRefused,
                  UpdateStatusConflict, CallFails
    <2> QED
      BY <2>1, KeptByTheRest
  <1>4. ASSUME NEW o \in Operators, NEW j \in Backends, ReconcileBackend(o, j)
        PROVE  KeptInv' /\ ListedKept
    <2>1. UNCHANGED <<obs, cache>>
      BY <1>4 DEF ReconcileBackend
    <2>2. \A i \in Backends : Exists(i) => services'[i] = services[i]
      BY <1>4 DEF ReconcileBackend, Exists, Services
    <2>3. CachedPhasesSound => CachedPhasesSound'
      BY <2>1, <2>2 DEF CachedPhasesSound, Exists
    <2> QED
      BY <2>1, <2>3 DEF KeptInv, ListedIsCached, ListedKept
  <1>5. ASSUME NEW o \in Operators, UpdateStatus(o)
        PROVE  KeptInv' /\ ListedKept
    <2>1. obs.exists /\ obs'.exists = obs.exists /\ obs'.listed = cache[o].phases
      BY <1>5 DEF UpdateStatus, WriteStatus, ObjectType
    <2>2. \A p \in Operators : cache'[p].phases = cache[p].phases
      BY <1>5, OutdatedPhases DEF UpdateStatus, WriteStatus
    <2>3. UNCHANGED services
      BY <1>5 DEF UpdateStatus, WriteStatus
    <2>4. CachedPhasesSound'
      BY <2>1, <2>2, <2>3 DEF KeptInv, CachedPhasesSound
    <2>5. ListedIsCached'
      <3> SUFFICES ASSUME NEW p \in Operators, NEW i \in Backends,
                          obs'.listed[i] = "published"
                   PROVE  cache'[p].phases[i] = "published"
        BY DEF ListedIsCached
      <3>1. p = o
        OBVIOUS
      <3> QED
        BY <2>1, <2>2, <3>1
    <2>6. ListedKept
      BY <2>1 DEF KeptInv, ListedIsCached, ListedKept
    <2> QED
      BY <2>4, <2>5, <2>6 DEF KeptInv
  <1>6. ASSUME NEW o \in Operators, UpdateStatusListFails(o)
        PROVE  FALSE
    BY <1>6 DEF UpdateStatusListFails, Fault
  <1>7. ASSUME NEW o \in Operators, Restart(o)
        PROVE  KeptInv' /\ ListedKept
    <2>1. UNCHANGED <<obs, services>>
      BY <1>7 DEF Restart
    <2>2. \A p \in Operators, i \in Backends : cache'[p].phases[i] = services[i].phase
      <3> SUFFICES ASSUME NEW p \in Operators, NEW i \in Backends
                   PROVE  cache'[p].phases[i] = services[i].phase
        OBVIOUS
      <3>1. p = o
        OBVIOUS
      <3>2. cache'[o] = Listed
        BY <1>7 DEF Restart
      <3> QED
        BY <3>1, <3>2 DEF Listed, Services
    <2>3. obs.exists => CachedPhasesSound' /\ ListedIsCached'
      BY <2>1, <2>2 DEF KeptInv, CachedPhasesSound, ListedIsCached
    <2> QED
      BY <2>1, <2>3 DEF KeptInv, ListedKept
  <1>8. CASE CollectSecret
    BY <1>8, KeptByTheRest DEF CollectSecret
  <1>9. CASE \E i \in Backends : CollectBackend(i)
    BY <1>9 DEF CollectBackend, KeptInv, ListedKept
  <1>10. ASSUME NEW s \in Services, Publish(s)
         PROVE  KeptInv' /\ ListedKept
    <2>1. UNCHANGED <<obs, cache>>
      BY <1>10 DEF Publish
    <2>2. \A i \in Backends : services[i].phase = "published" => services'[i].phase = "published"
      BY <1>10 DEF Publish
    <2>3. CachedPhasesSound => CachedPhasesSound'
      BY <2>1, <2>2 DEF CachedPhasesSound
    <2> QED
      BY <2>1, <2>3 DEF KeptInv, ListedIsCached, ListedKept
  <1>11. CASE Scale \/ Delete
    <2>1. (obs'.exists => obs.exists) /\ obs'.listed = obs.listed /\ UNCHANGED services
      BY <1>11 DEF Scale, Delete, ObjectType
    <2>2. \A o \in Operators : cache'[o].phases = cache[o].phases
      BY <1>11, OutdatedPhases DEF Scale, Delete
    <2> QED
      BY <2>1, <2>2, KeptByTheRest
  <1>12. CASE UNCHANGED vars
    BY <1>12, KeptByTheRest DEF vars
  <1> QED
    BY <1>1, <1>2, <1>3, <1>4, <1>5, <1>6, <1>7, <1>8, <1>9, <1>10, <1>11, <1>12
       DEF Next, Collect, Reconcile, Failure

LEMMA InitKeptInv == Init => KeptInv
  <1> SUFFICES ASSUME Init PROVE KeptInv
    OBVIOUS
  <1>1. \A o \in Operators, i \in Backends : cache[o].phases[i] = services[i].phase
    BY DEF Init, Listed, Services
  <1>2. \A i \in Backends : obs.listed[i] = "absent"
    BY DEF Init, Services
  <1> QED
    BY <1>1, <1>2 DEF KeptInv, CachedPhasesSound, ListedIsCached

(***************************************************************************)
(* A lone operator whose List does not fail never takes back the hostname   *)
(* of a backend that exists: ListedBackendKept of OnionBalancedService.     *)
(***************************************************************************)
THEOREM ListedBackendKeptHolds ==
    ASSUME "list" \notin Faults, \A o, p \in Operators : o = p
    PROVE  Spec => ListedBackendKept
  <1>1. TypeInv /\ KeptInv /\ [Next]_vars => KeptInv' /\ ListedKept
    BY NextKeptInv
  <1>2. TypeInv /\ KeptInv /\ [Next]_vars => [ListedKept]_vars
    BY <1>1
  <1>3. Spec => [][ListedKept]_vars
    BY <1>1, <1>2, InitTypeInv, NextTypeInv, InitKeptInv, PTL DEF Spec
  <1> QED
    BY <1>3 DEF ListedBackendKept, ListedKept

---------------------------------------------------------------------------
(* Rest only on a complete status *)

(***************************************************************************)
(* Backends come about with an index that the spec asks for, and what a     *)
(* cache or a copy holds is not ahead of the object.                        *)
(***************************************************************************)
BackendsAskedFor == \A i \in Backends : Exists(i) => i <= obs.backends

CacheBehind ==
    \A o \in Operators :
        /\ cache[o].exists
        /\ cache[o].generation <= obs.generation
        /\ cache[o].backends <= obs.backends
        /\ cache[o].fresh => cache[o].backends = obs.backends
        /\ \A i \in Backends : cache[o].phases[i] # "absent" => Exists(i)

CopyBehind ==
    \A o \in Operators :
        /\ copy[o].backends <= obs.backends
        /\ copy[o].fresh => copy[o].backends = obs.backends

RestInv ==
    obs.exists => /\ BackendsAskedFor
                  /\ CacheBehind
                  /\ CopyBehind
                  /\ QuiescentMeansComplete

LEMMA OutdatedCopiesBehind ==
    ASSUME TypeInv, NEW o \in Operators
    PROVE  /\ ~Outdated(copy)[o].fresh /\ Outdated(copy)[o].backends = copy[o].backends
           /\ ~Outdated(cache)[o].fresh /\ Outdated(cache)[o].exists = cache[o].exists
           /\ Outdated(cache)[o].generation = cache[o].generation
           /\ Outdated(cache)[o].backends = cache[o].backends
           /\ Outdated(cache)[o].phases = cache[o].phases
  BY DEF TypeInv, TypeOK, Outdated, CacheType, CopyType

(***************************************************************************)
(* As many listed services as the spec asks for are those it asks for.      *)
(***************************************************************************)
LEMMA SyncedIsComplete ==
    ASSUME Foreign = {}, NEW n \in Backends, NEW listing \in [Services -> Phases],
           \A i \in Backends : listing[i] # "absent" => i <= n,
           IsSynced(n, listing)
    PROVE  \A i \in Backends : i <= n => listing[i] = "published"
  <1> DEFINE S == {s \in Services : listing[s] # "absent"}
  <1> USE MaxBackendsAssumption
  <1>1. S \subseteq 1 .. n
    BY DEF Services, Backends
  <1>2. IsFiniteSet(1 .. n) /\ Cardinality(1 .. n) = n
    BY FS_Interval DEF Backends
  <1>3. Cardinality(S) = n
    BY DEF IsSynced
  <1>4. S = 1 .. n
    BY <1>1, <1>2, <1>3, FS_Subset
  <1> QED
    BY <1>4 DEF IsSynced, Services, Backends, Phases

(***************************************************************************)
(* Steps after which the operators rest only if they did before.            *)
(***************************************************************************)
LEMMA RestAsBefore ==
    ASSUME RestInv, UNCHANGED <<obs, services>>, obs.exists => CacheBehind' /\ CopyBehind',
           Quiescent' => Quiescent
    PROVE  RestInv'
  BY DEF RestInv, BackendsAskedFor, QuiescentMeansComplete, Complete, Exists

LEMMA RequeuedRest ==
    ASSUME TypeInv, RestInv, NEW o \in Operators, Requeue(o),
           UNCHANGED <<obs, services, cache>>
    PROVE  RestInv'
  <1> USE DEF TypeInv, TypeOK
  <1>1. ~Quiescent'
    BY DEF Requeue, Quiescent
  <1>2. obs.exists => CacheBehind'
    BY DEF RestInv, CacheBehind, Exists
  <1>3. copy' = [copy EXCEPT ![o] = NoCopy] /\ NoCopy.backends = 1 /\ ~NoCopy.fresh
    BY DEF Requeue, NoCopy
  <1>4. obs.exists => CopyBehind'
    BY <1>3, MaxBackendsAssumption DEF RestInv, CopyBehind, ObjectType, Backends
  <1> QED
    BY <1>1, <1>2, <1>4, RestAsBefore

(***************************************************************************)
(* A write of the status with a listing of what exists: it lists all that   *)
(* the spec asks for, or the request comes back.                            *)
(***************************************************************************)
LEMMA WriteStatusRest ==
    ASSUME TypeInv, RestInv, NEW o \in Operators, NEW listing \in [Services -> Phases],
           \A i \in Backends : listing[i] # "absent" => Exists(i),
           Foreign = {}, obs.exists, copy[o].fresh, WriteStatus(o, listing)
    PROVE  RestInv'
  <1> USE MaxBackendsAssumption DEF TypeInv, TypeOK
  <1> DEFINE n == obs.backends
  <1>1. /\ obs'.exists /\ obs'.backends = n /\ obs'.generation = obs.generation
        /\ obs'.listed = listing /\ n \in Backends
    BY DEF WriteStatus, ObjectType
  <1>2. UNCHANGED services
    BY DEF WriteStatus
  <1>3. BackendsAskedFor'
    BY <1>1, <1>2 DEF RestInv, BackendsAskedFor, Exists
  <1>4. CacheBehind'
    <2>1. cache' = cache \/ cache' = Outdated(cache)
      BY DEF WriteStatus
    <2> QED
      BY <1>1, <1>2, <2>1, OutdatedCopiesBehind DEF RestInv, CacheBehind, Exists
  <1>5. CopyBehind'
    <2> SUFFICES ASSUME NEW p \in Operators
                 PROVE  /\ copy'[p].backends <= n
                        /\ copy'[p].fresh => copy'[p].backends = n
      BY <1>1 DEF CopyBehind
    <2>1. CASE p = o
      <3>1. copy'[p] = NoCopy
        BY <2>1 DEF WriteStatus, Outdated
      <3> QED
        BY <1>1, <3>1 DEF NoCopy, Backends
    <2>2. CASE p # o
      <3>1. copy'[p] = copy[p] \/ copy'[p] = Outdated(copy)[p]
        BY <2>2 DEF WriteStatus, Outdated
      <3> QED
        BY <3>1, OutdatedCopiesBehind DEF RestInv, CopyBehind
    <2> QED
      BY <2>1, <2>2
  <1>6. ASSUME Quiescent' PROVE Complete'
    <2>1. ~queued'[o]
      BY <1>6 DEF Quiescent
    <2>2. IsSynced(copy[o].backends, listing)
      BY <2>1 DEF WriteStatus
    <2>3. copy[o].backends = n
      BY DEF RestInv, CopyBehind
    <2>4. \A i \in Backends : listing[i] # "absent" => i <= n
      BY DEF RestInv, BackendsAskedFor
    <2>5. \A i \in Backends : i <= n => listing[i] = "published"
      BY <1>1, <2>2, <2>3, <2>4, SyncedIsComplete
    <2> QED
      BY <1>1, <2>5 DEF Complete
  <1> QED
    BY <1>3, <1>4, <1>5, <1>6 DEF RestInv, QuiescentMeansComplete

(***************************************************************************)
(* Every step of a reconcile but the status and a requeue: the copy keeps   *)
(* what CopyBehind says of it, and the operator is not at rest.             *)
(***************************************************************************)
LEMMA UnderWay ==
    ASSUME TypeInv, RestInv, NEW o \in Operators, UNCHANGED <<obs, cache>>,
           pc'[o] # "idle", obs.exists => BackendsAskedFor',
           \A i \in Backends : Exists(i) => Exists(i)',
           \A p \in Operators : /\ copy'[p].backends = copy[p].backends
                                /\ copy'[p].fresh = copy[p].fresh
    PROVE  RestInv'
  <1>1. ~Quiescent'
    BY DEF Quiescent
  <1>2. obs.exists => CacheBehind'
    BY DEF RestInv, CacheBehind
  <1>3. obs.exists => CopyBehind'
    BY DEF RestInv, CopyBehind
  <1> QED
    BY <1>1, <1>2, <1>3 DEF RestInv, QuiescentMeansComplete

(***************************************************************************)
(* Every step of a reconcile keeps the invariant.                           *)
(***************************************************************************)
LEMMA ReconcileRest ==
    ASSUME TypeInv, RestInv, Foreign = {}, NEW o \in Operators, Reconcile(o)
    PROVE  RestInv'
  <1> USE MaxBackendsAssumption DEF TypeInv, TypeOK
  <1>a. ASSUME UNCHANGED services
        PROVE  /\ UNCHANGED obs /\ obs.exists => BackendsAskedFor'
               /\ \A i \in Backends : Exists(i) => Exists(i)'
    BY <1>a DEF RestInv, BackendsAskedFor, Exists
  <1>1. CASE Fetch(o)
    <2>1. ~Quiescent' /\ UNCHANGED <<obs, services, cache>>
      BY <1>1 DEF Fetch, Quiescent
    <2>2. obs.exists => CacheBehind'
      BY <2>1 DEF RestInv, CacheBehind, Exists
    <2>3. obs.exists => CopyBehind'
      BY <1>1, <2>1 DEF Fetch, CopyOf, RestInv, CacheBehind, CopyBehind
    <2> QED
      BY <2>1, <2>2, <2>3, RestAsBefore
  <1>2. CASE FetchNotFound(o)
    <2>1. ~obs.exists
      BY <1>2 DEF FetchNotFound, RestInv, CacheBehind
    <2> QED
      BY <1>2, <2>1 DEF FetchNotFound, RestInv
  <1>3. CASE SecretFound(o) \/ SecretCreate(o)
    <2>1. UNCHANGED <<obs, services, cache>> /\ pc'[o] # "idle"
      BY <1>3 DEF SecretFound, SecretCreate, Goto
    <2>2. \A p \in Operators : /\ copy'[p].backends = copy[p].backends
                               /\ copy'[p].fresh = copy[p].fresh
      BY <1>3 DEF SecretFound, SecretCreate, CopyType
    <2> QED
      BY <1>a, <2>1, <2>2, UnderWay
  <1>4. CASE SecretConflict(o) \/ MonitorRefused(o) \/ UpdateStatusConflict(o)
    BY <1>4, RequeuedRest DEF SecretConflict, MonitorRefused, UpdateStatusConflict
  <1>5. CASE ReconcileChildren(o) \/ ReconcileMonitoring(o)
    <2>1. UNCHANGED <<obs, services, cache, copy>> /\ pc'[o] # "idle"
      BY <1>5 DEF ReconcileChildren, ReconcileMonitoring, Goto
    <2> QED
      BY <1>a, <2>1, UnderWay
  <1>6. ASSUME NEW j \in Backends, ReconcileBackend(o, j)
        PROVE  RestInv'
    <2>1. UNCHANGED <<obs, cache>> /\ pc'[o] # "idle"
      BY <1>6 DEF ReconcileBackend, NextBackend, Goto
    <2>2. \A p \in Operators : /\ copy'[p].backends = copy[p].backends
                               /\ copy'[p].fresh = copy[p].fresh
      BY <1>6 DEF ReconcileBackend, NextBackend, CopyType
    <2>3. \A i \in Backends : i # j => services'[i] = services[i]
      BY <1>6 DEF ReconcileBackend, Services
    <2>4. Exists(j) => Exists(j)'
      BY <1>6 DEF ReconcileBackend, Exists
    <2>5. obs.exists => j <= obs.backends
      <3>1. j <= copy[o].backends
        BY <1>6 DEF ReconcileBackend, LoopOK
      <3> QED
        BY <3>1 DEF RestInv, CopyBehind, ObjectType, CopyType, Backends
    <2>6. obs.exists => BackendsAskedFor'
      BY <2>1, <2>3, <2>5 DEF RestInv, BackendsAskedFor, Exists
    <2> QED
      BY <2>1, <2>2, <2>3, <2>4, <2>6, UnderWay DEF Exists
  <1>7. CASE UpdateStatus(o)
    <2>1. \A i \in Backends : cache[o].phases[i] # "absent" => Exists(i)
      BY <1>7 DEF UpdateStatus, RestInv, CacheBehind
    <2>2. cache[o].phases \in [Services -> Phases]
      BY DEF CacheType
    <2> QED
      BY <1>7, <2>1, <2>2, WriteStatusRest DEF UpdateStatus
  <1> QED
    BY <1>1, <1>2, <1>3, <1>4, <1>5, <1>6, <1>7 DEF Reconcile

(***************************************************************************)
(* So does every other step, as long as nobody scales down.                 *)
(***************************************************************************)
LEMMA NextRestInv ==
    ASSUME TypeInv, RestInv, [Next]_vars,
           Foreign = {}, ~AllowScaleDown, Operators # {}
    PROVE  RestInv'
  <1> USE MaxBackendsAssumption, MaxGenerationAssumption DEF TypeInv, TypeOK
  <1>1. ASSUME NEW o \in Operators, SyncOBS(o)
        PROVE  RestInv'
    <2>1. UNCHANGED <<obs, services, copy, pc>>
      BY <1>1 DEF SyncOBS
    <2>2. obs.exists => CacheBehind' /\ CopyBehind'
      BY <1>1, <2>1 DEF SyncOBS, CacheType, ObjectType, Backends, RestInv, CacheBehind,
                        CopyBehind, Exists
    <2>3. Quiescent' => Quiescent
      BY <1>1, <2>1 DEF SyncOBS, CacheType, Quiescent
    <2> QED
      BY <2>1, <2>2, <2>3, RestAsBefore
  <1>2. ASSUME NEW o \in Operators, SyncSecret(o) \/ SyncServices(o)
        PROVE  RestInv'
    <2>1. UNCHANGED <<obs, services, copy, pc, queued>>
      BY <1>2 DEF SyncSecret, SyncServices
    <2>2. \A p \in Operators :
             /\ cache'[p].exists = cache[p].exists
             /\ cache'[p].generation = cache[p].generation
             /\ cache'[p].backends = cache[p].backends
             /\ cache'[p].fresh = cache[p].fresh
      <3>1. CASE SyncSecret(o)
        BY <3>1 DEF SyncSecret, CacheType
      <3>2. CASE SyncServices(o)
        BY <3>2 DEF SyncServices, CacheType
      <3> QED
        BY <1>2, <3>1, <3>2
    <2>3. \A p \in Operators, i \in Backends :
             cache'[p].phases[i] \in {cache[p].phases[i], services[i].phase}
      <3>1. CASE SyncSecret(o)
        BY <3>1 DEF SyncSecret, CacheType
      <3>2. CASE SyncServices(o)
        <4>1. \A i \in Backends : Listed.phases[i] = services[i].phase
          BY DEF Listed, Services
        <4> QED
          BY <3>2, <4>1 DEF SyncServices, CacheType
      <3> QED
        BY <1>2, <3>1, <3>2
    <2>4. obs.exists => CacheBehind' /\ CopyBehind'
      BY <2>1, <2>2, <2>3 DEF RestInv, CacheBehind, CopyBehind, Exists
    <2>5. Quiescent' => Quiescent
      BY <2>1, <2>2 DEF Quiescent
    <2> QED
      BY <2>1, <2>4, <2>5, RestAsBefore
  <1>3. ASSUME NEW o \in Operators, Reconcile(o)
        PROVE  RestInv'
    BY <1>3, ReconcileRest
  <1>4. ASSUME NEW o \in Operators, CallFails(o)
        PROVE  RestInv'
    <2>1. UNCHANGED <<obs, services, cache>>
      BY <1>4 DEF CallFails
    <2>2. CASE Requeue(o)
      BY <2>1, <2>2, RequeuedRest
    <2>3. CASE NextBackend(o)
      <3>1. pc'[o] # "idle"
        BY <2>3 DEF NextBackend, Goto
      <3>2. \A p \in Operators : /\ copy'[p].backends = copy[p].backends
                                 /\ copy'[p].fresh = copy[p].fresh
        BY <2>3 DEF NextBackend, CopyType
      <3>3. /\ obs.exists => BackendsAskedFor'
            /\ \A i \in Backends : Exists(i) => Exists(i)'
        BY <2>1 DEF RestInv, BackendsAskedFor, Exists
      <3> QED
        BY <2>1, <3>1, <3>2, <3>3, UnderWay
    <2> QED
      BY <1>4, <2>2, <2>3 DEF CallFails
  <1>5. ASSUME NEW o \in Operators, UpdateStatusListFails(o)
        PROVE  RestInv'
    <2> DEFINE empty == [s \in Services |-> "absent"]
    <2>1. empty \in [Services -> Phases] /\ \A i \in Backends : empty[i] = "absent"
      BY DEF Phases, Services
    <2> HIDE DEF empty
    <2> QED
      BY <1>5, <2>1, WriteStatusRest DEF UpdateStatusListFails, empty
  <1>6. ASSUME NEW o \in Operators, Restart(o)
        PROVE  RestInv'
    <2>1. UNCHANGED <<obs, services>>
      BY <1>6 DEF Restart
    <2>2. obs.exists => ~Quiescent'
      BY <1>6 DEF Restart, Quiescent
    <2>3. cache' = [cache EXCEPT ![o] = Listed] /\ copy' = [copy EXCEPT ![o] = NoCopy]
      BY <1>6 DEF Restart
    <2>4. /\ obs.exists => Listed.exists
          /\ Listed.generation = obs.generation
          /\ Listed.backends = obs.backends
          /\ \A i \in Backends : Listed.phases[i] = services[i].phase
      BY DEF Listed, Services
    <2>5. obs.exists => CacheBehind'
      <3>1. \A p \in Operators : cache'[p] \in {cache[p], Listed}
        BY <2>3
      <3>2. obs.generation \in Nat /\ obs.backends \in Nat
        BY DEF ObjectType, Backends
      <3> QED
        BY <2>1, <2>4, <3>1, <3>2 DEF RestInv, CacheBehind, Exists
    <2>6. obs.exists => CopyBehind'
      BY <2>1, <2>3 DEF RestInv, CopyBehind, NoCopy, ObjectType, Backends
    <2> QED
      BY <2>1, <2>2, <2>5, <2>6
         DEF RestInv, BackendsAskedFor, QuiescentMeansComplete, Exists
  <1>7. CASE CollectSecret
    <2>1. ~obs'.exists
      BY <1>7 DEF CollectSecret
    <2> QED
      BY <2>1 DEF RestInv
  <1>8. CASE \E i \in Backends : CollectBackend(i)
    <2>1. ~obs'.exists
      BY <1>8 DEF CollectBackend
    <2> QED
      BY <2>1 DEF RestInv
  <1>9. ASSUME NEW s \in Services, Publish(s)
        PROVE  RestInv'
    <2>1. UNCHANGED <<obs, cache, copy, pc, queued>>
      BY <1>9 DEF Publish
    <2>2. \A i \in Backends : Exists(i)' <=> Exists(i)
      BY <1>9 DEF Publish, Exists, Services, ServiceType
    <2> QED
      BY <2>1, <2>2 DEF RestInv, BackendsAskedFor, CacheBehind, CopyBehind,
                        QuiescentMeansComplete, Quiescent, Complete
  <1>10. CASE Scale
    <2>1. /\ UNCHANGED <<services, queued, pc>>
          /\ obs.exists /\ obs'.generation = obs.generation + 1
          /\ obs'.backends > obs.backends /\ obs'.backends \in Backends
          /\ obs.generation \in Nat /\ obs.backends \in Nat
      BY <1>10 DEF Scale, ObjectType, Backends
    <2>2. BackendsAskedFor'
      BY <2>1 DEF RestInv, BackendsAskedFor, Exists, Backends
    <2>3. cache' = Outdated(cache) /\ copy' = Outdated(copy)
      BY <1>10 DEF Scale
    <2>4. CacheBehind'
      BY <2>1, <2>3, OutdatedCopiesBehind
         DEF RestInv, CacheBehind, CacheType, Backends, Exists
    <2>5. CopyBehind'
      BY <2>1, <2>3, OutdatedCopiesBehind DEF RestInv, CopyBehind, CopyType, Backends
    <2>6. ~Quiescent'
      <3>1. PICK o \in Operators : TRUE
        OBVIOUS
      <3>2. cache'[o].generation <= obs.generation
        BY <2>1, <2>3, OutdatedCopiesBehind DEF RestInv, CacheBehind
      <3>3. cache'[o].generation # obs'.generation
        BY <2>1, <2>3, <3>2, OutdatedCopiesBehind DEF CacheType
      <3> QED
        BY <3>3 DEF Quiescent
    <2> QED
      BY <2>2, <2>4, <2>5, <2>6 DEF RestInv, QuiescentMeansComplete
  <1>11. CASE Delete
    <2>1. ~obs'.exists
      BY <1>11 DEF Delete, ObjectType
    <2> QED
      BY <2>1 DEF RestInv
  <1>12. CASE UNCHANGED vars
    BY <1>12 DEF vars, RestInv, BackendsAskedFor, CacheBehind, CopyBehind,
                 QuiescentMeansComplete, Quiescent, Complete, Exists
  <1> QED
    BY <1>1, <1>2, <1>3, <1>4, <1>5, <1>6, <1>7, <1>8, <1>9, <1>10, <1>11, <1>12
       DEF Next, Collect, Failure

LEMMA InitRestInv == Operators # {} /\ Init => RestInv
  <1> SUFFICES ASSUME Operators # {}, Init PROVE RestInv
    OBVIOUS
  <1> USE MaxBackendsAssumption
  <1>1. ~Quiescent
    BY DEF Init, Quiescent
  <1>2. BackendsAskedFor
    BY ForeignAssumption
       DEF Init, BackendsAskedFor, Exists, Unmastered, Services, Backends
  <1>3. CacheBehind
    <2>1. \A o \in Operators : cache[o] = Listed
      BY DEF Init
    <2>2. obs.exists /\ obs.generation = 1 /\ obs.backends \in Nat
      BY DEF Init, Backends
    <2>3. \A i \in Backends : Listed.phases[i] = services[i].phase
      BY DEF Listed, Services
    <2>4. /\ Listed.exists /\ Listed.generation = obs.generation
          /\ Listed.backends = obs.backends
      BY <2>2 DEF Listed
    <2> QED
      BY <2>1, <2>2, <2>3, <2>4 DEF CacheBehind, Exists
  <1>4. CopyBehind
    BY DEF Init, CopyBehind, NoCopy, Backends
  <1> QED
    BY <1>1, <1>2, <1>3, <1>4 DEF RestInv, QuiescentMeansComplete

(***************************************************************************)
(* Without other OnionServices in the namespace and without scaling down,   *)
(* any number of operators rest only when the status lists every backend    *)
(* with its hostname, whatever failed or lagged behind:                     *)
(* QuiescentMeansComplete of OnionBalancedService.                          *)
(***************************************************************************)
THEOREM QuiescentMeansCompleteHolds ==
    ASSUME Foreign = {}, ~AllowScaleDown, Operators # {}
    PROVE  Spec => []QuiescentMeansComplete
  <1>1. Init => TypeInv /\ RestInv
    BY InitTypeInv, InitRestInv
  <1>2. TypeInv /\ RestInv /\ [Next]_vars => TypeInv' /\ RestInv'
    BY NextTypeInv, NextRestInv
  <1>3. RestInv => QuiescentMeansComplete
    BY DEF RestInv, QuiescentMeansComplete
  <1> QED
    BY <1>1, <1>2, <1>3, PTL DEF Spec
---------------------------------------------------------------------------
(* What is listed is there *)

(***************************************************************************)
(* A view of the OnionServices, of a cache or of the status, names none     *)
(* that is not there, nor a hostname that is not published.                 *)
(***************************************************************************)
Sound(view) ==
    \A i \in Backends : /\ view[i] # "absent" => services[i].phase # "absent"
                        /\ view[i] = "published" => services[i].phase = "published"

ThereInv == obs.exists => Sound(obs.listed) /\ \A o \in Operators : Sound(cache[o].phases)

(***************************************************************************)
(* Steps that leave the status and the caches' view of the services alone.  *)
(***************************************************************************)
LEMMA ThereByTheRest ==
    ASSUME ThereInv, obs'.exists => obs.exists, obs'.listed = obs.listed,
           obs'.exists => \A i \in Backends :
              /\ services[i].phase # "absent" => services'[i].phase # "absent"
              /\ services[i].phase = "published" => services'[i].phase = "published",
           \A o \in Operators : cache'[o].phases = cache[o].phases
    PROVE  ThereInv'
  BY DEF ThereInv, Sound

(***************************************************************************)
(* A write of the status with a sound listing.                              *)
(***************************************************************************)
LEMMA ThereByWriting ==
    ASSUME TypeInv, ThereInv, NEW o \in Operators, NEW listing, Sound(listing), obs.exists,
           WriteStatus(o, listing)
    PROVE  ThereInv'
  <1> USE DEF TypeInv, TypeOK
  <1>1. obs'.listed = listing /\ services' = services
    BY DEF WriteStatus, ObjectType
  <1>2. \A p \in Operators : cache'[p].phases = cache[p].phases
    BY OutdatedPhases DEF WriteStatus
  <1> QED
    BY <1>1, <1>2 DEF ThereInv, Sound

(***************************************************************************)
(* Every step keeps it.                                                     *)
(***************************************************************************)
LEMMA NextThereInv == ASSUME TypeInv, ThereInv, [Next]_vars PROVE ThereInv'
  <1> USE DEF TypeInv, TypeOK
  <1>1. ASSUME NEW o \in Operators, SyncOBS(o) \/ SyncSecret(o)
        PROVE  ThereInv'
    <2>1. \A p \in Operators : cache'[p].phases = cache[p].phases
      <3>1. CASE SyncOBS(o)
        BY <3>1 DEF SyncOBS, CacheType
      <3>2. CASE SyncSecret(o)
        BY <3>2 DEF SyncSecret, CacheType
      <3> QED
        BY <1>1, <3>1, <3>2
    <2> QED
      BY <1>1, <2>1, ThereByTheRest DEF SyncOBS, SyncSecret
  <1>2. ASSUME NEW o \in Operators, SyncServices(o) \/ Restart(o)
        PROVE  ThereInv'
    <2>1. UNCHANGED <<obs, services>>
      BY <1>2 DEF SyncServices, Restart
    <2>2. \A p \in Operators : cache'[p].phases \in {cache[p].phases, Listed.phases}
      <3>1. CASE SyncServices(o)
        BY <3>1 DEF SyncServices, CacheType
      <3>2. CASE Restart(o)
        BY <3>2 DEF Restart
      <3> QED
        BY <1>2, <3>1, <3>2
    <2>3. \A i \in Backends : Listed.phases[i] = services[i].phase
      BY DEF Listed, Services
    <2>4. Sound(Listed.phases)
      BY <2>3 DEF Sound
    <2> QED
      BY <2>1, <2>2, <2>4 DEF ThereInv, Sound
  <1>3. ASSUME NEW o \in Operators,
               \/ Fetch(o) \/ FetchNotFound(o)
               \/ SecretFound(o) \/ SecretCreate(o) \/ SecretConflict(o)
               \/ ReconcileChildren(o) \/ ReconcileMonitoring(o)
               \/ MonitorRefused(o) \/ UpdateStatusConflict(o) \/ CallFails(o)
        PROVE  ThereInv'
    <2>1. UNCHANGED <<obs, services, cache>>
      BY <1>3 DEF Fetch, FetchNotFound, SecretFound, SecretCreate, SecretConflict,
                  ReconcileChildren, ReconcileMonitoring, MonitorRefused,
                  UpdateStatusConflict, CallFails
    <2> QED
      BY <2>1, ThereByTheRest
  <1>4. ASSUME NEW o \in Operators, NEW j \in Backends, ReconcileBackend(o, j)
        PROVE  ThereInv'
    <2>1. UNCHANGED <<obs, cache>>
      BY <1>4 DEF ReconcileBackend
    <2>2. \A i \in Backends : services[i].phase # "absent" => services'[i] = services[i]
      BY <1>4 DEF ReconcileBackend, Exists, Services
    <2>3. \A i \in Backends :
             /\ services[i].phase # "absent" => services'[i].phase # "absent"
             /\ services[i].phase = "published" => services'[i].phase = "published"
      BY <2>2
    <2> QED
      BY <2>1, <2>3, ThereByTheRest
  <1>5. ASSUME NEW o \in Operators, UpdateStatus(o)
        PROVE  ThereInv'
    BY <1>5, ThereByWriting DEF UpdateStatus, ThereInv
  <1>6. ASSUME NEW o \in Operators, UpdateStatusListFails(o)
        PROVE  ThereInv'
    <2>1. Sound([s \in Services |-> "absent"])
      BY DEF Sound, Services
    <2> QED
      BY <1>6, <2>1, ThereByWriting DEF UpdateStatusListFails
  <1>7. CASE CollectSecret \/ \E i \in Backends : CollectBackend(i)
    BY <1>7 DEF CollectSecret, CollectBackend, ThereInv
  <1>8. ASSUME NEW s \in Services, Publish(s)
        PROVE  ThereInv'
    <2>1. UNCHANGED <<obs, cache>>
      BY <1>8 DEF Publish
    <2>2. \A i \in Backends : services'[i].phase \in {services[i].phase, "published"}
      BY <1>8 DEF Publish, Services, ServiceType
    <2>3. \A i \in Backends :
             /\ services[i].phase # "absent" => services'[i].phase # "absent"
             /\ services[i].phase = "published" => services'[i].phase = "published"
      BY <2>2
    <2> QED
      BY <2>1, <2>3, ThereByTheRest
  <1>9. CASE Scale \/ Delete
    <2>1. (obs'.exists => obs.exists) /\ obs'.listed = obs.listed /\ UNCHANGED services
      BY <1>9 DEF Scale, Delete, ObjectType
    <2>2. \A o \in Operators : cache'[o].phases = cache[o].phases
      BY <1>9, OutdatedPhases DEF Scale, Delete
    <2> QED
      BY <2>1, <2>2, ThereByTheRest
  <1>10. CASE UNCHANGED vars
    BY <1>10, ThereByTheRest DEF vars
  <1> QED
    BY <1>1, <1>2, <1>3, <1>4, <1>5, <1>6, <1>7, <1>8, <1>9, <1>10
       DEF Next, Collect, Reconcile, Failure

(***************************************************************************)
(* The status of any number of operators, whatever their caches and their   *)
(* failures, lists only what is there: ListedAreThere.                      *)
(***************************************************************************)
THEOREM ListedAreThereHolds == Spec => []ListedAreThere
  <1>1. ASSUME Init PROVE ThereInv
    <2>1. \A o \in Operators : cache[o].phases = Listed.phases
      BY <1>1 DEF Init
    <2>2. \A i \in Backends : Listed.phases[i] = services[i].phase /\ obs.listed[i] = "absent"
      BY <1>1 DEF Init, Listed, Services
    <2> QED
      BY <2>1, <2>2 DEF ThereInv, Sound
  <1>2. TypeInv /\ ThereInv /\ [Next]_vars => TypeInv' /\ ThereInv'
    BY NextTypeInv, NextThereInv
  <1>3. ThereInv => ListedAreThere
    BY DEF ThereInv, Sound, ListedAreThere, Exists
  <1> QED
    BY <1>1, <1>2, <1>3, InitTypeInv, PTL DEF Spec

---------------------------------------------------------------------------
(* No backend that nobody asked for *)

(***************************************************************************)
(* No cache and no copy counts more backends than the spec.                 *)
(***************************************************************************)
CountsBehind ==
    \A o \in Operators : cache[o].backends <= obs.backends /\ copy[o].backends <= obs.backends

CountInv == obs.exists => NoSurplusBackends /\ CountsBehind

(***************************************************************************)
(* What Outdated leaves of the counts.                                      *)
(***************************************************************************)
LEMMA OutdatedCounts ==
    ASSUME TypeInv, NEW o \in Operators
    PROVE  /\ Outdated(copy)[o].backends = copy[o].backends
           /\ Outdated(cache)[o].backends = cache[o].backends
  BY DEF TypeInv, TypeOK, Outdated, CacheType, CopyType

(***************************************************************************)
(* Steps that create no backend, and after which the caches and copies      *)
(* count as before, as the spec does, or from the beginning.                *)
(***************************************************************************)
LEMMA CountsAsBefore ==
    ASSUME TypeInv, CountInv, obs'.exists => obs.exists, obs'.backends = obs.backends,
           obs'.exists => \A i \in Backends : Exists(i)' => Exists(i),
           \A o \in Operators :
              /\ cache'[o].backends \in {cache[o].backends, obs.backends}
              /\ copy'[o].backends \in {copy[o].backends, cache[o].backends, 1}
    PROVE  CountInv'
  <1>1. obs.backends \in Nat /\ 1 <= obs.backends
    BY DEF TypeInv, TypeOK, ObjectType, Backends
  <1> QED
    BY <1>1 DEF CountInv, NoSurplusBackends, CountsBehind

(***************************************************************************)
(* Every step keeps it.                                                     *)
(***************************************************************************)
LEMMA NextCountInv ==
    ASSUME TypeInv, CountInv, [Next]_vars, ~AllowScaleDown
    PROVE  CountInv'
  <1> USE DEF TypeInv, TypeOK
  <1>1. ASSUME NEW o \in Operators, SyncOBS(o) \/ SyncSecret(o) \/ SyncServices(o)
        PROVE  CountInv'
    <2>1. UNCHANGED <<obs, services, copy>>
      BY <1>1 DEF SyncOBS, SyncSecret, SyncServices
    <2>2. \A p \in Operators : cache'[p].backends \in {cache[p].backends, obs.backends}
      <3>1. CASE SyncOBS(o)
        BY <3>1 DEF SyncOBS, CacheType
      <3>2. CASE SyncSecret(o)
        BY <3>2 DEF SyncSecret, CacheType
      <3>3. CASE SyncServices(o)
        BY <3>3 DEF SyncServices, CacheType
      <3> QED
        BY <1>1, <3>1, <3>2, <3>3
    <2> QED
      BY <2>1, <2>2, CountsAsBefore DEF Exists
  <1>2. ASSUME NEW o \in Operators,
               \/ Fetch(o) \/ FetchNotFound(o)
               \/ SecretFound(o) \/ SecretCreate(o) \/ SecretConflict(o)
               \/ ReconcileChildren(o) \/ ReconcileMonitoring(o)
               \/ MonitorRefused(o) \/ UpdateStatusConflict(o) \/ CallFails(o)
        PROVE  CountInv'
    <2>1. UNCHANGED <<obs, services, cache>>
      BY <1>2 DEF Fetch, FetchNotFound, SecretFound, SecretCreate, SecretConflict,
                  ReconcileChildren, ReconcileMonitoring, MonitorRefused,
                  UpdateStatusConflict, CallFails
    <2>2. \A p \in Operators : copy'[p].backends \in {copy[p].backends, cache[p].backends, 1}
      BY <1>2 DEF Fetch, FetchNotFound, SecretFound, SecretCreate, SecretConflict,
                  ReconcileChildren, ReconcileMonitoring, MonitorRefused,
                  UpdateStatusConflict, CallFails, Requeue, NextBackend, CopyOf, NoCopy, CopyType
    <2> QED
      BY <2>1, <2>2, CountsAsBefore DEF Exists
  <1>3. ASSUME NEW o \in Operators, NEW j \in Backends, ReconcileBackend(o, j)
        PROVE  CountInv'
    <2>1. UNCHANGED <<obs, cache>>
      BY <1>3 DEF ReconcileBackend
    <2>2. \A p \in Operators : copy'[p].backends = copy[p].backends
      BY <1>3 DEF ReconcileBackend, NextBackend, CopyType
    <2>3. \A i \in Backends : i # j => services'[i] = services[i]
      BY <1>3 DEF ReconcileBackend, Services
    <2>4. obs.exists => j <= obs.backends
      <3>1. j <= copy[o].backends
        BY <1>3 DEF ReconcileBackend, LoopOK
      <3> QED
        BY <3>1 DEF CountInv, CountsBehind, ObjectType, CopyType, Backends
    <2> QED
      BY <2>1, <2>2, <2>3, <2>4 DEF CountInv, NoSurplusBackends, CountsBehind, Exists
  <1>4. ASSUME NEW o \in Operators, UpdateStatus(o) \/ UpdateStatusListFails(o)
        PROVE  CountInv'
    <2>1. PICK listing : WriteStatus(o, listing)
      BY <1>4 DEF UpdateStatus, UpdateStatusListFails
    <2>2. obs'.exists = obs.exists /\ obs'.backends = obs.backends /\ services' = services
      BY <2>1 DEF WriteStatus, ObjectType
    <2>3. \A p \in Operators : cache'[p].backends = cache[p].backends
      BY <2>1, OutdatedCounts DEF WriteStatus
    <2>4. \A p \in Operators : copy'[p].backends \in {copy[p].backends, 1}
      <3> SUFFICES ASSUME NEW p \in Operators
                   PROVE  copy'[p].backends \in {copy[p].backends, 1}
        OBVIOUS
      <3>1. copy'[p] \in {NoCopy, copy[p], Outdated(copy)[p]}
        BY <2>1 DEF WriteStatus, Outdated
      <3> QED
        BY <3>1, OutdatedCounts DEF NoCopy
    <2> QED
      BY <2>2, <2>3, <2>4, CountsAsBefore DEF Exists
  <1>5. ASSUME NEW o \in Operators, Restart(o)
        PROVE  CountInv'
    <2>1. UNCHANGED <<obs, services>>
      BY <1>5 DEF Restart
    <2>2. \A p \in Operators : /\ cache'[p] \in {cache[p], Listed}
                               /\ copy'[p] \in {copy[p], NoCopy}
      BY <1>5 DEF Restart
    <2>3. Listed.backends = obs.backends /\ NoCopy.backends = 1
      BY DEF Listed, NoCopy
    <2> QED
      BY <2>1, <2>2, <2>3, CountsAsBefore DEF Exists
  <1>6. CASE CollectSecret \/ \E i \in Backends : CollectBackend(i)
    BY <1>6 DEF CollectSecret, CollectBackend, CountInv
  <1>7. ASSUME NEW s \in Services, Publish(s)
        PROVE  CountInv'
    <2>1. UNCHANGED <<obs, cache, copy>>
      BY <1>7 DEF Publish
    <2>2. \A i \in Backends : Exists(i)' => Exists(i)
      BY <1>7 DEF Publish, Exists, Services, ServiceType
    <2> QED
      BY <2>1, <2>2, CountsAsBefore
  <1>8. CASE Scale
    <2>1. /\ UNCHANGED services /\ obs.exists
          /\ obs'.backends > obs.backends /\ obs'.backends \in Nat /\ obs.backends \in Nat
      BY <1>8 DEF Scale, ObjectType, Backends
    <2>2. cache' = Outdated(cache) /\ copy' = Outdated(copy)
      BY <1>8 DEF Scale
    <2>3. \A p \in Operators : cache[p].backends \in Nat /\ copy[p].backends \in Nat
      BY DEF CacheType, CopyType, Backends
    <2>4. CountsBehind'
      BY <2>1, <2>2, <2>3, OutdatedCounts DEF CountInv, CountsBehind
    <2>5. NoSurplusBackends'
      BY <2>1 DEF CountInv, NoSurplusBackends, Exists, Backends
    <2> QED
      BY <2>4, <2>5 DEF CountInv
  <1>9. CASE Delete
    <2>1. ~obs'.exists
      BY <1>9 DEF Delete, ObjectType
    <2> QED
      BY <2>1 DEF CountInv
  <1>10. CASE UNCHANGED vars
    BY <1>10, CountsAsBefore DEF vars, Exists
  <1> QED
    BY <1>1, <1>2, <1>3, <1>4, <1>5, <1>6, <1>7, <1>8, <1>9, <1>10
       DEF Next, Collect, Reconcile, Failure

(***************************************************************************)
(* As long as nobody scales down, no operator creates a backend that the    *)
(* spec does not ask for, whatever copy of it it works on:                  *)
(* NoSurplusBackends.                                                       *)
(***************************************************************************)
THEOREM NoSurplusBackendsHolds ==
    ASSUME ~AllowScaleDown
    PROVE  Spec => []NoSurplusBackends
  <1>1. ASSUME Init PROVE CountInv
    <2>1. obs.backends \in Nat /\ 1 <= obs.backends
      BY <1>1 DEF Init, Backends
    <2>2. \A o \in Operators : cache[o].backends = obs.backends /\ copy[o].backends = 1
      BY <1>1 DEF Init, Listed, NoCopy
    <2>3. NoSurplusBackends
      BY <1>1, ForeignAssumption DEF Init, NoSurplusBackends, Exists, Unmastered, Services, Backends
    <2> QED
      BY <2>1, <2>2, <2>3 DEF CountInv, CountsBehind
  <1>2. TypeInv /\ CountInv /\ [Next]_vars => TypeInv' /\ CountInv'
    BY NextTypeInv, NextCountInv
  <1>3. CountInv => NoSurplusBackends
    BY DEF CountInv, NoSurplusBackends
  <1> QED
    BY <1>1, <1>2, <1>3, InitTypeInv, PTL DEF Spec
=============================================================================
