--------------------- MODULE OnionBalancedServiceProofs ---------------------
(***************************************************************************)
(* The identity of an OnionBalancedService, for any number of operators,    *)
(* addresses, backends, failures and writes: types, the inductive invariant *)
(* behind MasterAgreement and PublishedAddressHasKeys, the stability of the *)
(* published address, and the refinement of MasterIdentity.                 *)
(***************************************************************************)
EXTENDS OnionBalancedService, TLAPS

(***************************************************************************)
(* The loop counter of reconcileBackends: it starts at 1 and stays within   *)
(* spec.backends of the copy as long as the loop runs, which the type of    *)
(* the counter depends on.                                                  *)
(***************************************************************************)
LoopOK ==
    \A o \in Operators :
        /\ pc[o] \in {"secret", "children"} => copy[o].idx = 1
        /\ pc[o] = "backends" => copy[o].idx <= copy[o].backends

TypeInv == TypeOK /\ LoopOK

(***************************************************************************)
(* The parts of the inductive invariant.  As long as the service exists     *)
(* nobody deletes or replaces its secret, so a secret found in a cache is   *)
(* the secret, and a reconcile past its first step holds its address.       *)
(***************************************************************************)
CachedSecretSound ==
    \A o \in Operators : cache[o].secret # NoSecret => cache[o].secret = secret.address

CopySound ==
    \A o \in Operators :
        pc[o] \in {"children", "backends", "monitoring", "status"} =>
            /\ secret.address # NoSecret
            /\ copy[o].hostname = secret.address

BackendSound ==
    \A i \in Backends : Exists(i) => /\ secret.address \in Addresses
                                     /\ services[i].master = secret.address

AbsentIsFree == \A i \in Backends : ~Exists(i) => services[i].master = NoAddress

IdentityInv ==
    /\ AbsentIsFree
    /\ obs.exists => CachedSecretSound /\ CopySound /\ BackendSound
    /\ PublishedAddressHasKeys

Inv == TypeInv /\ IdentityInv

---------------------------------------------------------------------------
(* Types *)

(***************************************************************************)
(* Initially everything has its type and no reconcile is under way.         *)
(***************************************************************************)
LEMMA InitTypeInv == Init => TypeInv
  <1> SUFFICES ASSUME Init PROVE TypeInv
    OBVIOUS
  <1> USE MaxBackendsAssumption, MaxGenerationAssumption, FaultsAssumption,
          InitialSecretsAssumption, InitialMonitorsAssumption
  <1>1. TypeOK
    BY DEF Init, TypeOK, ObjectType, SecretType, ServiceType, CacheType, CopyType,
           Steps, Listed, NoCopy, Unmastered, Services, Backends, Phases, SecretStates,
           Monitors
  <1>2. LoopOK
    BY DEF Init, LoopOK
  <1> QED
    BY <1>1, <1>2 DEF TypeInv

(***************************************************************************)
(* Outdating what the operators hold changes nothing but fresh.             *)
(***************************************************************************)
LEMMA OutdatedCopies ==
    ASSUME copy \in [Operators -> CopyType]
    PROVE  /\ Outdated(copy) \in [Operators -> CopyType]
           /\ \A o \in Operators : /\ Outdated(copy)[o].idx = copy[o].idx
                                   /\ Outdated(copy)[o].backends = copy[o].backends
                                   /\ Outdated(copy)[o].hostname = copy[o].hostname
  BY DEF Outdated, CopyType

LEMMA OutdatedCaches ==
    ASSUME cache \in [Operators -> CacheType]
    PROVE  /\ Outdated(cache) \in [Operators -> CacheType]
           /\ \A o \in Operators : Outdated(cache)[o].secret = cache[o].secret
  BY DEF Outdated, CacheType

LEMMA NoCopyType == NoCopy \in CopyType
  BY MaxBackendsAssumption DEF NoCopy, CopyType, Backends

LEMMA ListedType == TypeOK => Listed \in CacheType
  BY DEF TypeOK, Listed, ObjectType, SecretType, ServiceType, CacheType

(***************************************************************************)
(* A write of the status, with any listing, keeps the types and the loop.   *)
(***************************************************************************)
LEMMA WriteStatusTypeInv ==
    ASSUME TypeInv, NEW o \in Operators, NEW listing \in [Services -> Phases],
           WriteStatus(o, listing), faults' \in 0 .. MaxFaults
    PROVE  TypeInv'
  <1> USE OutdatedCopies, OutdatedCaches, NoCopyType DEF TypeInv
  <1>1. obs' \in ObjectType
    BY DEF TypeOK, WriteStatus, ObjectType, CopyType
  <1>2. cache' \in [Operators -> CacheType]
    BY DEF TypeOK, WriteStatus
  <1>3. copy' \in [Operators -> CopyType]
    BY DEF TypeOK, WriteStatus
  <1>4. queued' \in [Operators -> BOOLEAN] /\ pc' \in [Operators -> Steps]
    BY DEF TypeOK, WriteStatus, Steps
  <1>5. TypeOK'
    BY <1>1, <1>2, <1>3, <1>4 DEF TypeOK, WriteStatus
  <1>6. LoopOK'
    BY DEF TypeOK, LoopOK, WriteStatus, Steps
  <1> QED
    BY <1>5, <1>6

(***************************************************************************)
(* Every step keeps the types and the loop counter.                         *)
(***************************************************************************)
LEMMA NextTypeInv == TypeInv /\ [Next]_vars => TypeInv'
  <1> SUFFICES ASSUME TypeInv, [Next]_vars PROVE TypeInv'
    OBVIOUS
  <1> USE MaxBackendsAssumption, MaxGenerationAssumption, FaultsAssumption
      DEF TypeInv, TypeOK, LoopOK
  <1>1. ASSUME NEW o \in Operators,
               SyncOBS(o) \/ SyncSecret(o) \/ SyncServices(o)
        PROVE  TypeInv'
    <2>1. CASE SyncOBS(o)
      BY <2>1 DEF SyncOBS, CacheType, ObjectType
    <2>2. CASE SyncSecret(o)
      BY <2>2 DEF SyncSecret, CacheType, SecretType
    <2>3. CASE SyncServices(o)
      BY <2>3, ListedType DEF SyncServices, CacheType
    <2> QED
      BY <1>1, <2>1, <2>2, <2>3
  <1>2. ASSUME NEW o \in Operators, Reconcile(o)
        PROVE  TypeInv'
    <2>1. CASE Fetch(o)
      <3>1. CopyOf(o) \in CopyType
        BY DEF CopyOf, CacheType, CopyType, Backends
      <3> QED
        BY <2>1, <3>1 DEF Fetch, CopyOf, Steps
    <2>2. CASE FetchNotFound(o)
      BY <2>2 DEF FetchNotFound
    <2>3. CASE SecretFound(o)
      BY <2>3 DEF SecretFound, Goto, CacheType, CopyType, SecretStates, Steps
    <2>4. CASE SecretCreate(o)
      BY <2>4 DEF SecretCreate, Goto, SecretType, CopyType, SecretStates, Steps
    <2>5. CASE SecretConflict(o)
      BY <2>5, NoCopyType DEF SecretConflict, Requeue, Steps
    <2>6. CASE ReconcileChildren(o)
      BY <2>6 DEF ReconcileChildren, Goto, Steps, CopyType, Backends
    <2>7. ASSUME NEW i \in Backends, ReconcileBackend(o, i)
          PROVE  TypeInv'
      <3>1. services' \in [Services -> ServiceType]
        <4>1. NewBackend(o) \in ServiceType
          BY DEF NewBackend, ServiceType, CopyType, Phases
        <4> QED
          BY <2>7, <4>1 DEF ReconcileBackend, Services
      <3>2. copy' \in [Operators -> CopyType] /\ pc' \in [Operators -> Steps]
        BY <2>7 DEF ReconcileBackend, NextBackend, Goto, CopyType, Steps, Backends
      <3>3. LoopOK'
        BY <2>7 DEF ReconcileBackend, NextBackend, Goto, CopyType, Backends
      <3> QED
        BY <2>7, <3>1, <3>2, <3>3 DEF ReconcileBackend, NextBackend, Goto
    <2>8. CASE ReconcileMonitoring(o)
      BY <2>8 DEF ReconcileMonitoring, Goto, Steps, Monitors
    <2>9. CASE UpdateStatus(o)
      BY <2>9, WriteStatusTypeInv DEF UpdateStatus, CacheType
    <2>10. CASE UpdateStatusConflict(o)
      BY <2>10, NoCopyType DEF UpdateStatusConflict, Requeue, Steps
    <2>11. CASE MonitorRefused(o)
      BY <2>11, NoCopyType DEF MonitorRefused, Requeue, Steps
    <2> QED
      BY <1>2, <2>1, <2>2, <2>3, <2>4, <2>5, <2>6, <2>7, <2>8, <2>9, <2>10, <2>11
         DEF Reconcile
  <1>3. ASSUME NEW o \in Operators, Failure(o)
        PROVE  TypeInv'
    <2>1. CASE CallFails(o)
      <3>1. CASE pc[o] = "backends"
        <4>1. copy' \in [Operators -> CopyType] /\ pc' \in [Operators -> Steps]
          <5>1. copy[o].idx + 1 \in 1 .. MaxBackends + 1
            BY <3>1 DEF CopyType, Backends
          <5>2. NextBackend(o)
            BY <2>1, <3>1 DEF CallFails
          <5> QED
            BY <5>1, <5>2 DEF NextBackend, Goto, CopyType, Steps
        <4>2. LoopOK'
          BY <2>1, <3>1 DEF CallFails, NextBackend, Goto, CopyType, Backends
        <4> QED
          BY <2>1, <3>1, <4>1, <4>2 DEF CallFails, Fault, NextBackend, Goto
      <3>2. CASE pc[o] # "backends"
        <4>1. Requeue(o) /\ UNCHANGED <<obs, secret, services, monitor, cache>>
          BY <2>1, <3>2 DEF CallFails
        <4>2. faults' \in 0 .. MaxFaults
          BY <2>1 DEF CallFails, Fault
        <4> QED
          BY <4>1, <4>2, NoCopyType DEF Requeue, Steps
      <3> QED
        BY <3>1, <3>2
    <2>2. CASE UpdateStatusListFails(o)
      BY <2>2, WriteStatusTypeInv DEF UpdateStatusListFails, Fault, Phases
    <2>3. CASE Restart(o)
      BY <2>3, ListedType, NoCopyType DEF Restart, Fault, Steps, ObjectType
    <2> QED
      BY <1>3, <2>1, <2>2, <2>3 DEF Failure
  <1>4. CASE CollectSecret
    BY <1>4 DEF CollectSecret, SecretType, SecretStates
  <1>5. CASE \E i \in Backends : CollectBackend(i)
    BY <1>5 DEF CollectBackend, Unmastered, ServiceType, Phases, Services
  <1>6. CASE \E s \in Services : Publish(s)
    BY <1>6 DEF Publish, ServiceType, Phases
  <1>7. CASE Scale
    <2>1. obs' \in ObjectType
      <3>1. obs \in ObjectType
        OBVIOUS
      <3>2. obs.generation + 1 \in 1 .. MaxGeneration
        BY <1>7, <3>1 DEF Scale, ObjectType
      <3> QED
        BY <1>7, <3>1, <3>2 DEF Scale, ObjectType
    <2> QED
      BY <1>7, <2>1, OutdatedCopies, OutdatedCaches DEF Scale
  <1>8. CASE Delete
    <2>1. obs' \in ObjectType
      BY <1>8 DEF Delete, ObjectType
    <2> QED
      BY <1>8, <2>1, OutdatedCopies, OutdatedCaches DEF Delete
  <1>9. CASE UNCHANGED vars
    BY <1>9 DEF vars
  <1> QED
    BY <1>1, <1>2, <1>3, <1>4, <1>5, <1>6, <1>7, <1>8, <1>9 DEF Next, Collect

(***************************************************************************)
(* Everything keeps its type, TypeOK of OnionBalancedService.               *)
(***************************************************************************)
THEOREM TypeCorrect == Spec => []TypeOK
  <1>1. Spec => []TypeInv
    BY InitTypeInv, NextTypeInv, PTL DEF Spec
  <1>2. TypeInv => TypeOK
    BY DEF TypeInv
  <1> QED
    BY <1>1, <1>2, PTL

---------------------------------------------------------------------------
(* Identity *)

(***************************************************************************)
(* Initially nothing is published, no backend exists, and the caches hold   *)
(* what the API server holds.                                               *)
(***************************************************************************)
LEMMA InitIdentityInv == Init => IdentityInv
  <1> SUFFICES ASSUME Init PROVE IdentityInv
    OBVIOUS
  <1>1. AbsentIsFree /\ BackendSound
    BY ForeignAssumption
       DEF Init, AbsentIsFree, BackendSound, Exists, Unmastered, Backends, Services
  <1>2. CachedSecretSound /\ CopySound
    BY DEF Init, CachedSecretSound, CopySound, Listed
  <1>3. PublishedAddressHasKeys
    BY DEF Init, PublishedAddressHasKeys
  <1> QED
    BY <1>1, <1>2, <1>3 DEF IdentityInv

(***************************************************************************)
(* A write of the status publishes the address of the secret, or nothing    *)
(* when the secret holds none; caches and copies keep their addresses.      *)
(***************************************************************************)
LEMMA WriteStatusIdentity ==
    ASSUME Inv, NEW o \in Operators, NEW listing \in [Services -> Phases],
           pc[o] = "status", obs.exists, WriteStatus(o, listing)
    PROVE  /\ IdentityInv'
           /\ obs'.exists = obs.exists
           /\ obs'.hostname = secret.address
  <1> USE DEF Inv, TypeInv, IdentityInv
  <1>1. copy[o].hostname = secret.address
    BY DEF CopySound
  <1>2. obs'.exists = obs.exists /\ obs'.hostname = secret.address
    BY <1>1 DEF TypeOK, ObjectType, WriteStatus
  <1>3. AbsentIsFree' /\ BackendSound'
    BY DEF WriteStatus, AbsentIsFree, BackendSound, Exists
  <1>4. CachedSecretSound'
    BY OutdatedCaches DEF TypeOK, WriteStatus, CachedSecretSound
  <1>5. CopySound'
    BY OutdatedCopies DEF TypeOK, WriteStatus, CopySound
  <1>6. PublishedAddressHasKeys'
    BY <1>2 DEF WriteStatus, PublishedAddressHasKeys
  <1> QED
    BY <1>2, <1>3, <1>4, <1>5, <1>6

(***************************************************************************)
(* Every step keeps the identity invariant.                                 *)
(***************************************************************************)
LEMMA NextIdentityInv == Inv /\ [Next]_vars => IdentityInv'
  <1> SUFFICES ASSUME Inv, [Next]_vars PROVE IdentityInv'
    OBVIOUS
  <1> USE DEF Inv, TypeInv, IdentityInv
  <1> DEFINE SameObjects == UNCHANGED <<obs, secret, services>>
  <1>a. UNCHANGED <<services>> =>
           AbsentIsFree' /\ (UNCHANGED <<secret>> /\ BackendSound => BackendSound')
    BY DEF AbsentIsFree, BackendSound, Exists
  <1>b. SameObjects => PublishedAddressHasKeys'
    BY DEF PublishedAddressHasKeys
  <1>1. ASSUME NEW o \in Operators,
               SyncOBS(o) \/ SyncSecret(o) \/ SyncServices(o)
        PROVE  IdentityInv'
    <2>1. SameObjects /\ UNCHANGED <<pc, copy>>
      BY <1>1 DEF SyncOBS, SyncSecret, SyncServices
    <2>2. CachedSecretSound => CachedSecretSound'
      <3>1. CASE SyncOBS(o)
        BY <3>1 DEF TypeOK, CacheType, SyncOBS, CachedSecretSound
      <3>2. CASE SyncSecret(o)
        BY <3>2 DEF TypeOK, CacheType, SyncSecret, CachedSecretSound
      <3>3. CASE SyncServices(o)
        BY <3>3 DEF TypeOK, CacheType, SyncServices, CachedSecretSound
      <3> QED
        BY <1>1, <3>1, <3>2, <3>3
    <2>3. CopySound => CopySound'
      BY <2>1 DEF CopySound
    <2> QED
      BY <1>a, <1>b, <2>1, <2>2, <2>3
  <1>2. ASSUME NEW o \in Operators, Reconcile(o)
        PROVE  IdentityInv'
    <2>1. CASE \/ Fetch(o) \/ FetchNotFound(o) \/ SecretConflict(o)
               \/ MonitorRefused(o) \/ UpdateStatusConflict(o)
      <3>1. SameObjects /\ UNCHANGED <<cache>>
        BY <2>1 DEF Fetch, FetchNotFound, SecretConflict, MonitorRefused, UpdateStatusConflict
      <3>2. CachedSecretSound => CachedSecretSound'
        BY <3>1 DEF CachedSecretSound
      <3>3. CopySound => CopySound'
        BY <2>1 DEF TypeOK, Fetch, FetchNotFound, SecretConflict, MonitorRefused,
                    UpdateStatusConflict, Requeue, CopySound
      <3> QED
        BY <1>a, <1>b, <3>1, <3>2, <3>3
    <2>2. CASE SecretFound(o)
      <3>1. SameObjects /\ UNCHANGED <<cache>>
        BY <2>2 DEF SecretFound
      <3>2. CachedSecretSound => CachedSecretSound'
        BY <3>1 DEF CachedSecretSound
      <3>3. CachedSecretSound /\ CopySound => CopySound'
        BY <2>2 DEF TypeOK, CopyType, SecretFound, Goto, CachedSecretSound, CopySound
      <3> QED
        BY <1>a, <1>b, <3>1, <3>2, <3>3
    <2>3. CASE SecretCreate(o)
      <3>1. PICK a \in Addresses : /\ secret' = [address |-> a, owned |-> TRUE]
                                   /\ copy' = [copy EXCEPT ![o].hostname = a]
        BY <2>3 DEF SecretCreate
      <3>2. secret.address = NoSecret /\ UNCHANGED <<obs, services, cache>>
        BY <2>3 DEF SecretCreate
      <3>3. AbsentIsFree' /\ (BackendSound => BackendSound')
        BY <3>2, AddressAssumption DEF AbsentIsFree, BackendSound, Exists
      <3>4. CachedSecretSound => CachedSecretSound'
        BY <3>2 DEF CachedSecretSound
      <3>5. CopySound => CopySound'
        BY <2>3, <3>1, <3>2, AddressAssumption
           DEF TypeOK, CopyType, SecretCreate, Goto, CopySound
      <3>6. PublishedAddressHasKeys'
        BY <3>2, AddressAssumption DEF TypeOK, ObjectType, PublishedAddressHasKeys
      <3> QED
        BY <3>2, <3>3, <3>4, <3>5, <3>6
    <2>4. CASE ReconcileChildren(o) \/ ReconcileMonitoring(o)
      <3>1. SameObjects /\ UNCHANGED <<cache, copy>>
        BY <2>4 DEF ReconcileChildren, ReconcileMonitoring
      <3>2. CachedSecretSound => CachedSecretSound'
        BY <3>1 DEF CachedSecretSound
      <3>3. CopySound => CopySound'
        BY <2>4, <3>1 DEF TypeOK, ReconcileChildren, ReconcileMonitoring, Goto, CopySound
      <3> QED
        BY <1>a, <1>b, <3>1, <3>2, <3>3
    <2>5. ASSUME NEW i \in Backends, ReconcileBackend(o, i)
          PROVE  IdentityInv'
      <3>1. UNCHANGED <<obs, secret, cache>> /\ NextBackend(o) /\ pc[o] = "backends"
        BY <2>5 DEF ReconcileBackend
      <3>2. \/ UNCHANGED services
            \/ /\ services' = [services EXCEPT ![i] = NewBackend(o)]
               /\ copy[o].hostname # NoAddress
        BY <2>5 DEF ReconcileBackend
      <3>3. AbsentIsFree'
        BY <3>2 DEF TypeOK, AbsentIsFree, Exists, NewBackend, Services
      <3>4. CopySound /\ BackendSound => BackendSound'
        BY <3>1, <3>2 DEF TypeOK, SecretType, SecretStates, CopySound, BackendSound,
                          Exists, NewBackend, Services
      <3>5. CachedSecretSound => CachedSecretSound'
        BY <3>1 DEF CachedSecretSound
      <3>6. CopySound => CopySound'
        BY <3>1 DEF TypeOK, CopyType, NextBackend, Goto, CopySound
      <3>7. PublishedAddressHasKeys'
        BY <3>1 DEF PublishedAddressHasKeys
      <3> QED
        BY <3>1, <3>3, <3>4, <3>5, <3>6, <3>7
    <2>6. CASE UpdateStatus(o)
      BY <2>6, WriteStatusIdentity DEF UpdateStatus, TypeOK, CacheType
    <2> QED
      BY <1>2, <2>1, <2>2, <2>3, <2>4, <2>5, <2>6 DEF Reconcile
  <1>3. ASSUME NEW o \in Operators, Failure(o)
        PROVE  IdentityInv'
    <2>1. CASE CallFails(o)
      <3>1. SameObjects /\ UNCHANGED <<cache>>
        BY <2>1 DEF CallFails
      <3>2. CachedSecretSound => CachedSecretSound'
        BY <3>1 DEF CachedSecretSound
      <3>3. CopySound => CopySound'
        BY <2>1, <3>1 DEF TypeOK, CopyType, CallFails, Requeue, NextBackend, Goto, CopySound
      <3> QED
        BY <1>a, <1>b, <3>1, <3>2, <3>3
    <2>2. CASE UpdateStatusListFails(o)
      <3>1. [s \in Services |-> "absent"] \in [Services -> Phases]
        BY DEF Phases
      <3> QED
        BY <2>2, <3>1, WriteStatusIdentity DEF UpdateStatusListFails
    <2>3. CASE Restart(o)
      <3>1. SameObjects
        BY <2>3 DEF Restart
      <3>2. CachedSecretSound => CachedSecretSound'
        BY <2>3, <3>1 DEF TypeOK, Restart, Listed, CachedSecretSound
      <3>3. CopySound => CopySound'
        BY <2>3, <3>1 DEF TypeOK, Restart, CopySound
      <3> QED
        BY <1>a, <1>b, <3>1, <3>2, <3>3
    <2> QED
      BY <1>3, <2>1, <2>2, <2>3 DEF Failure
  <1>4. CASE CollectSecret
    BY <1>4, <1>a DEF CollectSecret, PublishedAddressHasKeys
  <1>5. ASSUME NEW i \in Backends, CollectBackend(i)
        PROVE  IdentityInv'
    <2>1. AbsentIsFree'
      BY <1>5 DEF TypeOK, CollectBackend, AbsentIsFree, Exists, Unmastered, Services
    <2> QED
      BY <1>5, <2>1 DEF CollectBackend, PublishedAddressHasKeys
  <1>6. ASSUME NEW s \in Services, Publish(s)
        PROVE  IdentityInv'
    <2>1. UNCHANGED <<obs, secret, cache, pc, copy>>
      BY <1>6 DEF Publish
    <2>2. \A i \in Backends : /\ Exists(i) <=> Exists(i)'
                              /\ services'[i].master = services[i].master
      BY <1>6 DEF TypeOK, ServiceType, Publish, Exists, Services
    <2>3. AbsentIsFree' /\ (BackendSound => BackendSound')
      BY <2>1, <2>2 DEF AbsentIsFree, BackendSound
    <2>4. (CachedSecretSound => CachedSecretSound') /\ (CopySound => CopySound')
      BY <2>1 DEF CachedSecretSound, CopySound
    <2> QED
      BY <2>1, <2>3, <2>4 DEF PublishedAddressHasKeys
  <1>7. CASE Scale \/ Delete
    <2>1. /\ UNCHANGED <<secret, services, pc>>
          /\ cache' = Outdated(cache) /\ copy' = Outdated(copy)
          /\ obs'.hostname = obs.hostname
          /\ obs'.exists => obs.exists
      BY <1>7 DEF Scale, Delete, TypeOK, ObjectType
    <2>2. CachedSecretSound => CachedSecretSound'
      BY <2>1, OutdatedCaches DEF TypeOK, CachedSecretSound
    <2>3. CopySound => CopySound'
      BY <2>1, OutdatedCopies DEF TypeOK, CopySound
    <2> QED
      BY <1>a, <2>1, <2>2, <2>3 DEF PublishedAddressHasKeys
  <1>8. CASE UNCHANGED vars
    BY <1>8 DEF vars, AbsentIsFree, BackendSound, Exists, CachedSecretSound, CopySound,
                PublishedAddressHasKeys
  <1> QED
    BY <1>1, <1>2, <1>3, <1>4, <1>5, <1>6, <1>7, <1>8 DEF Next, Collect

(***************************************************************************)
(* The inductive invariant holds in every reachable state.                  *)
(***************************************************************************)
THEOREM Invariance == Spec => []Inv
  <1>1. Init => Inv
    BY InitTypeInv, InitIdentityInv DEF Inv
  <1>2. Inv /\ [Next]_vars => Inv'
    BY NextTypeInv, NextIdentityInv DEF Inv
  <1> QED
    BY <1>1, <1>2, PTL DEF Spec

(***************************************************************************)
(* Every backend follows the address of the secret: MasterAgreement.        *)
(***************************************************************************)
THEOREM MasterAgreementHolds == Spec => []MasterAgreement
  <1>1. Inv => MasterAgreement
    BY DEF Inv, IdentityInv, BackendSound, MasterAgreement
  <1> QED
    BY <1>1, Invariance, PTL

(***************************************************************************)
(* The published address is one whose keys are stored.                      *)
(***************************************************************************)
THEOREM PublishedAddressHasKeysHolds == Spec => []PublishedAddressHasKeys
  <1>1. Inv => PublishedAddressHasKeys
    BY DEF Inv, IdentityInv
  <1> QED
    BY <1>1, Invariance, PTL

---------------------------------------------------------------------------
(* The steps seen from outside *)

Masters == [i \in Backends |-> services[i].master]

(***************************************************************************)
(* A step that touches neither the existence, the published hostname, the   *)
(* secret nor a master is not seen.                                         *)
(***************************************************************************)
LEMMA Unseen ==
    ASSUME obs'.exists = obs.exists, obs'.hostname = obs.hostname,
           secret'.address = secret.address, Masters' = Masters
    PROVE  UNCHANGED Identity!vars
  BY DEF Identity!vars, Masters

(***************************************************************************)
(* A write of the status publishes the address once, or is not seen.        *)
(***************************************************************************)
LEMMA WriteStatusSeen ==
    ASSUME Inv, NEW o \in Operators, NEW listing \in [Services -> Phases],
           pc[o] = "status", obs.exists, WriteStatus(o, listing)
    PROVE  Identity!Publish \/ UNCHANGED Identity!vars
  <1>1. obs'.exists = obs.exists /\ obs'.hostname = secret.address
    BY WriteStatusIdentity
  <1>2. UNCHANGED <<secret, services>>
    BY DEF WriteStatus
  <1>3. secret.address \in Addresses \cup {NoAddress}
    BY DEF Inv, TypeInv, TypeOK, SecretType, SecretStates, IdentityInv, CopySound
  <1>4. Masters' = Masters
    BY <1>2 DEF Masters
  <1>5. CASE obs.hostname = secret.address
    BY <1>1, <1>2, <1>4, <1>5, Unseen
  <1>6. CASE obs.hostname # secret.address
    <2>1. obs.hostname = NoAddress /\ secret.address \in Addresses
      BY <1>3, <1>6 DEF Inv, IdentityInv, PublishedAddressHasKeys
    <2> QED
      BY <1>1, <1>2, <1>4, <2>1 DEF Identity!Publish, Masters
  <1> QED
    BY <1>5, <1>6

(***************************************************************************)
(* Every step of the operators, the users and the cluster is a step of      *)
(* MasterIdentity or is not seen.                                           *)
(***************************************************************************)
LEMMA StepRefines == Inv /\ [Next]_vars => [Identity!Next]_Identity!vars
  <1> SUFFICES ASSUME Inv, [Next]_vars
               PROVE  Identity!Next \/ UNCHANGED Identity!vars
    BY DEF Identity!vars
  <1> USE DEF Inv, TypeInv
  <1>a. ASSUME UNCHANGED <<obs, secret, services>>
        PROVE  UNCHANGED Identity!vars
    BY <1>a, Unseen DEF Masters
  <1>b. ASSUME ~obs.exists, ~obs'.exists, obs'.hostname = obs.hostname
        PROVE  Identity!Next
    BY <1>b DEF Identity!Next, Identity!Gone
  <1>1. ASSUME NEW o \in Operators,
               \/ SyncOBS(o) \/ SyncSecret(o) \/ SyncServices(o)
               \/ Fetch(o) \/ FetchNotFound(o) \/ SecretFound(o) \/ SecretConflict(o)
               \/ ReconcileChildren(o) \/ ReconcileMonitoring(o)
               \/ MonitorRefused(o) \/ UpdateStatusConflict(o) \/ CallFails(o) \/ Restart(o)
        PROVE  UNCHANGED Identity!vars
    BY <1>1, <1>a DEF SyncOBS, SyncSecret, SyncServices, Fetch, FetchNotFound,
       SecretFound, SecretConflict, ReconcileChildren, ReconcileMonitoring,
       MonitorRefused, UpdateStatusConflict, CallFails, Restart
  <1>2. ASSUME NEW o \in Operators, SecretCreate(o)
        PROVE  Identity!Next
    <2>1. UNCHANGED <<obs, services>> /\ secret.address = NoSecret
      BY <1>2 DEF SecretCreate
    <2>2. secret'.address \in Addresses
      BY <1>2 DEF SecretCreate
    <2>3. CASE obs.exists
      BY <2>1, <2>2, <2>3 DEF Identity!Next, Identity!Choose
    <2> QED
      BY <1>b, <2>1, <2>3
  <1>3. ASSUME NEW o \in Operators, NEW i \in Backends, ReconcileBackend(o, i)
        PROVE  Identity!Next \/ UNCHANGED Identity!vars
    <2>1. UNCHANGED <<obs, secret>> /\ pc[o] = "backends"
      BY <1>3 DEF ReconcileBackend
    <2>2. CASE UNCHANGED services
      BY <2>1, <2>2, <1>a
    <2>3. CASE ~obs.exists
      BY <2>1, <2>3, <1>b
    <2>4. CASE obs.exists /\ ~UNCHANGED services
      <3>1. /\ services' = [services EXCEPT ![i] = NewBackend(o)]
            /\ copy[o].hostname # NoAddress /\ ~Exists(i)
        BY <1>3, <2>4 DEF ReconcileBackend
      <3>2. secret.address \in Addresses /\ copy[o].hostname = secret.address
        BY <2>1, <2>4, <3>1 DEF TypeOK, SecretType, SecretStates, IdentityInv, CopySound
      <3>3. Masters[i] = NoAddress
        BY <3>1 DEF Masters, IdentityInv, AbsentIsFree
      <3>4. Masters' = [Masters EXCEPT ![i] = secret.address]
        BY <3>1, <3>2 DEF Masters, NewBackend, TypeOK, Services
      <3>5. Identity!Join(i)
        BY <2>1, <2>4, <3>2, <3>3, <3>4 DEF Identity!Join, Masters
      <3> QED
        BY <3>5 DEF Identity!Next
    <2> QED
      BY <2>2, <2>3, <2>4
  <1>4. ASSUME NEW o \in Operators, UpdateStatus(o) \/ UpdateStatusListFails(o)
        PROVE  Identity!Next \/ UNCHANGED Identity!vars
    <2>1. PICK listing \in [Services -> Phases] : WriteStatus(o, listing)
      BY <1>4 DEF UpdateStatus, UpdateStatusListFails, TypeOK, CacheType, Phases
    <2>2. pc[o] = "status" /\ obs.exists
      BY <1>4 DEF UpdateStatus, UpdateStatusListFails
    <2> QED
      BY <2>1, <2>2, WriteStatusSeen DEF Identity!Next
  <1>5. CASE CollectSecret \/ \E i \in Backends : CollectBackend(i)
    BY <1>5, <1>b DEF CollectSecret, CollectBackend
  <1>6. ASSUME NEW s \in Services, Publish(s)
        PROVE  UNCHANGED Identity!vars
    <2>1. UNCHANGED <<obs, secret>>
      BY <1>6 DEF Publish
    <2>2. Masters' = Masters
      BY <1>6 DEF Publish, TypeOK, ServiceType, Services, Masters
    <2> QED
      BY <2>1, <2>2, Unseen
  <1>7. CASE Scale
    <2>1. obs'.exists = obs.exists /\ obs'.hostname = obs.hostname
      BY <1>7 DEF Scale, TypeOK, ObjectType
    <2> QED
      BY <1>7, <2>1, Unseen DEF Scale, Masters
  <1>8. CASE Delete
    <2>1. obs.exists /\ obs'.exists = FALSE /\ obs'.hostname = obs.hostname
      BY <1>8 DEF Delete, TypeOK, ObjectType
    <2> QED
      BY <1>8, <2>1 DEF Delete, Identity!Next, Identity!Delete
  <1>9. CASE UNCHANGED vars
    BY <1>9, <1>a DEF vars
  <1> QED
    BY <1>1, <1>2, <1>3, <1>4, <1>5, <1>6, <1>7, <1>8, <1>9
       DEF Next, Collect, Reconcile, Failure

(***************************************************************************)
(* The reconcilers implement MasterIdentity: ImplementsIdentity.            *)
(***************************************************************************)
THEOREM ImplementsIdentityHolds == Spec => ImplementsIdentity
  <1>1. Init => Identity!Init
    BY InitialSecretsAssumption
       DEF Init, Identity!Init, Unmastered, Services, Backends
  <1> QED
    BY <1>1, StepRefines, Invariance, PTL DEF Spec, ImplementsIdentity, Identity!Spec

(***************************************************************************)
(* A published address stays: AddressStable, by the refinement, since no    *)
(* step of MasterIdentity takes back what it published.                     *)
(***************************************************************************)
THEOREM AddressStableHolds == Spec => AddressStable
  <1>1. ASSUME Inv, [Next]_vars, obs.hostname # NoAddress
        PROVE  obs'.hostname = obs.hostname
    <2>1. Identity!Next \/ UNCHANGED Identity!vars
      BY <1>1, StepRefines
    <2> QED
      BY <1>1, <2>1 DEF Identity!Next, Identity!vars, Identity!Choose, Identity!Publish,
         Identity!Join, Identity!Delete, Identity!Gone
  <1>2. Inv /\ [Next]_vars =>
           [obs.hostname # NoAddress => obs'.hostname = obs.hostname]_vars
    BY <1>1
  <1> QED
    BY <1>2, Invariance, PTL DEF Spec, AddressStable
=============================================================================
