------------------------- MODULE ReconcilersProofs -------------------------
(***************************************************************************)
(* What the three reconcilers keep, for every choice of the constants: types,*)
(* the agreement on the password, the order in which a deployment and what  *)
(* its pods mount come about, the objects of others, the hostname.          *)
(***************************************************************************)
EXTENDS Reconcilers, TLAPS

---------------------------------------------------------------------------
(* The inductive invariant *)

\* "none" is the owner only of what is not there.
NoOwnerMeansAbsent ==
    \A c \in Children :
        /\ children[c].owner = "none" => children[c] = Absent
        /\ seen[c].owner = "none" => seen[c] = Absent

(***************************************************************************)
(* As long as the object exists, a cache that shows a child shows one that  *)
(* is still there under the same control, because nobody deletes children   *)
(* but the garbage collector, and the reconciler its monitor; and of a      *)
(* secret it shows the key.                                                 *)
(***************************************************************************)
SeenSound ==
    obj.exists =>
        /\ \A c \in Children \ {"monitor"} :
              /\ Ours(seen[c]) => Ours(children[c])
              /\ seen[c].owner = "other" => children[c].owner = "other"
        /\ seen["secret"] # Absent => seen["secret"].key = children["secret"].key

\* A copy without a resourceVersion conflict is the object.
FreshSound ==
    /\ cache.fresh => cache = Current
    /\ copy.fresh => copy.hostname = obj.hostname

\* A reconcile that has come past a child has seen to it.
SuppliesInTime ==
    obj.exists =>
        /\ kind = "OnionService" =>
              /\ pc \in {"secret", "serviceAccount", "role", "roleBinding", "service", "deployment"}
                     => children["auth"] # Absent
              /\ pc \in {"serviceAccount", "role", "roleBinding", "service", "deployment"}
                     => children["secret"] # Absent
              /\ pc \in {"role", "roleBinding", "service", "deployment"}
                     => children["serviceAccount"] # Absent
        /\ kind = "OnionBalancedService" =>
              /\ pc \in {"serviceAccount", "role", "roleBinding", "service", "configMap", "deployment"}
                     => children["secret"] # Absent
              /\ pc \in {"role", "roleBinding", "service", "configMap", "deployment"}
                     => children["serviceAccount"] # Absent
              /\ pc = "deployment" => children["configMap"] # Absent
        /\ kind = "Tor" =>
              /\ pc \in {"role", "roleBinding", "service", "secret", "configMap", "deployment"}
                     => children["serviceAccount"] # Absent
              /\ pc = "deployment" => children["configMap"] # Absent

\* The password on its way into the config map, if any, is one of the two, and
\* the secret is there by then, to stay.
PasswordSound ==
    kind = "Tor" /\ obj.exists =>
        /\ pc = "configMap" => /\ children["secret"] # Absent
                               /\ copy.key \in {NoKey, Given, children["secret"].key}
        /\ children["configMap"].owner = "Tor" =>
              /\ children["secret"] # Absent
              /\ children["configMap"].key \in {NoKey, Given, children["secret"].key}

Known == TypeOK /\ NoOwnerMeansAbsent /\ SeenSound /\ FreshSound

IInv == Known /\ SuppliesInTime /\ DeploymentSupplied /\ PasswordSound

\* What a step has to keep: the invariant, the objects of others, the hostname.
ForeignKept ==
    obj.exists => \A c \in Children \ {"monitor"} :
        children[c].owner = "other" => children'[c] = children[c]

HostnameStays == obj.hostname # NoKey => obj'.hostname = obj.hostname

Keeps == IInv' /\ ForeignKept /\ HostnameStays

---------------------------------------------------------------------------
(* What a step that deals with one child comes to *)

\* What a reconcile makes of a child.
OurChild == [owner : ControllerKinds, from : 0 .. obj.gen, key : Secrets]

\* What the pods mount or run as, and the children that are never updated.
Mountable == {"auth", "secret", "serviceAccount", "configMap"}
WrittenOnce == {"auth", "secret", "configMap"}

Places == {"idle", "rules", "status"} \cup Children

(***************************************************************************)
(* Nothing but child c and what the cache shows of it changes; what is      *)
(* there stays, what is another's is left alone, and the reconcile goes on  *)
(* only past a child that is there, or not to be mounted.                   *)
(***************************************************************************)
DealsWith(c, new, next) ==
    /\ UNCHANGED <<kind, obj, world, cache, halted>>
    /\ children' \in [Children -> ChildType]
    /\ seen' \in [Children -> ChildType]
    /\ faults' \in 0 .. MaxFaults
    /\ \A d \in Children : children'[d].from <= obj.gen
    /\ NoOwnerMeansAbsent' /\ SeenSound'
    /\ \A d \in Children \ {c} : children'[d] = children[d]
    /\ children'[c] \in {children[c], new, Absent}
    /\ obj.exists /\ c # "monitor" =>
          /\ children[c] # Absent => children'[c] # Absent
          /\ children[c].owner = "other" => children'[c] = children[c]
          /\ c \in WrittenOnce /\ children[c] # Absent => children'[c] = children[c]
    /\ \/ /\ pc' = next /\ UNCHANGED <<queued, copy>>
          /\ obj.exists /\ c \in Mountable => children'[c] # Absent
       \/ Requeue

(***************************************************************************)
(* A failure is counted.                                                    *)
(***************************************************************************)
LEMMA FaultType ==
    ASSUME faults \in 0 .. MaxFaults, NEW what, Fault(what)
    PROVE  faults' \in 0 .. MaxFaults
  BY BoundsAssumption DEF Fault

(***************************************************************************)
(* The cache returns a child that has its type, and shows it from then on.  *)
(***************************************************************************)
LEMMA GetShows ==
    ASSUME TypeOK, NoOwnerMeansAbsent, NEW c \in Children, NEW got \in Versions(c), Get(c, got)
    PROVE  /\ got \in ChildType
           /\ got = children[c] \/ got = seen[c]
           /\ got.owner = "none" => got = Absent
           /\ faults' \in 0 .. MaxFaults
           /\ seen' \in [Children -> ChildType]
           /\ seen'[c].owner = got.owner /\ seen'[c].key = got.key
           /\ got = Absent => seen'[c] = Absent
           /\ \A d \in Children \ {c} : seen'[d] = seen[d]
  <1>1. children \in [Children -> ChildType] /\ seen \in [Children -> ChildType]
    BY DEF TypeOK
  <1>2. got = children[c] \/ got = seen[c]
    BY DEF Versions
  <1>3. got \in ChildType /\ (got.owner = "none" => got = Absent)
    BY <1>1, <1>2 DEF NoOwnerMeansAbsent
  <1>4. faults' \in 0 .. MaxFaults
    BY FaultType DEF Get, TypeOK
  <1>5. seen' = [seen EXCEPT ![c] = [got EXCEPT !.from = 0]]
    BY DEF Get
  <1>6. [got EXCEPT !.from = 0] \in ChildType
    BY <1>3, BoundsAssumption DEF ChildType
  <1>7. got = Absent => [got EXCEPT !.from = 0] = Absent
    BY DEF Absent
  <1>8. [got EXCEPT !.from = 0].owner = got.owner /\ [got EXCEPT !.from = 0].key = got.key
    BY <1>3 DEF ChildType
  <1> QED
    BY <1>1, <1>2, <1>3, <1>4, <1>5, <1>6, <1>7, <1>8

(***************************************************************************)
(* What is left to show when child c, of which the cache has returned got,  *)
(* becomes x.                                                               *)
(***************************************************************************)
LEMMA BecomesDeals ==
    ASSUME Known, NEW c \in Children, NEW got \in Versions(c), Get(c, got),
           NEW STATE new, new \in OurChild, NEW STATE x, x \in {children[c], new, Absent},
           children' = [children EXCEPT ![c] = x],
           UNCHANGED <<kind, obj, world, cache, halted>>,
           c = "monitor" \/ x # Absent \/ children[c] = Absent,
           obj.exists /\ c # "monitor" =>
               /\ Ours(got) => Ours(x)
               /\ got.owner = "other" => x.owner = "other"
               /\ children[c].owner = "other" => x = children[c]
               /\ c \in WrittenOnce /\ children[c] # Absent => x = children[c],
           c = "secret" /\ obj.exists /\ got # Absent => got.key = x.key,
           NEW next,
           \/ /\ pc' = next /\ UNCHANGED <<queued, copy>>
              /\ obj.exists /\ c \in Mountable => x # Absent
           \/ Requeue
    PROVE  DealsWith(c, new, next)
  <1>1. /\ children \in [Children -> ChildType] /\ seen \in [Children -> ChildType]
        /\ obj.gen \in 1 .. MaxGeneration /\ \A d \in Children : children[d].from <= obj.gen
    BY DEF Known, TypeOK
  <1>2. x \in ChildType /\ x.from <= obj.gen /\ (x.owner = "none" => x = Absent)
    <2>1. CASE x = children[c]
      BY <1>1, <2>1 DEF Known, NoOwnerMeansAbsent
    <2>2. CASE x = new
      <3>1. new \in ChildType /\ new.from <= obj.gen
        BY <1>1, BoundsAssumption DEF OurChild, ChildType
      <3>2. new.owner # "none"
        BY DEF OurChild, ControllerKinds, ObjectKinds
      <3> QED
        BY <2>2, <3>1, <3>2
    <2>3. CASE x = Absent
      <3>1. Absent \in ChildType /\ Absent.from = 0
        BY BoundsAssumption DEF Absent, ChildType, Secrets
      <3> QED
        BY <1>1, <2>3, <3>1
    <2> QED
      BY <2>1, <2>2, <2>3
  <1>3. /\ got = Absent => seen'[c] = Absent
        /\ got.owner = "none" => got = Absent
        /\ seen'[c].owner = got.owner /\ seen'[c].key = got.key
        /\ seen' \in [Children -> ChildType]
        /\ \A d \in Children \ {c} : seen'[d] = seen[d]
        /\ faults' \in 0 .. MaxFaults
    BY GetShows DEF Known
  <1>4. /\ children' \in [Children -> ChildType]
        /\ children'[c] = x
        /\ \A d \in Children \ {c} : children'[d] = children[d]
    BY <1>1, <1>2
  <1>5. \A d \in Children : children'[d].from <= obj.gen
    BY <1>1, <1>2, <1>4
  <1>6. NoOwnerMeansAbsent'
    BY <1>2, <1>3, <1>4 DEF Known, NoOwnerMeansAbsent
  <1>7. SeenSound'
    <2> SUFFICES ASSUME obj.exists
                 PROVE  SeenSound'
      BY DEF SeenSound
    <2>1. SeenSound /\ "secret" \in Children
      BY DEF Known, Children
    <2>2. ASSUME NEW d \in Children \ {"monitor"}
          PROVE  /\ Ours(seen'[d]) => Ours(children'[d])
                 /\ seen'[d].owner = "other" => children'[d].owner = "other"
      BY <1>3, <1>4, <2>1, <2>2 DEF SeenSound, Ours
    <2>3. seen'["secret"] # Absent => seen'["secret"].key = children'["secret"].key
      BY <1>3, <1>4, <2>1 DEF SeenSound
    <2> QED
      BY <2>2, <2>3 DEF SeenSound, Ours
  <1> QED
    BY <1>3, <1>4, <1>5, <1>6, <1>7 DEF DealsWith
(***************************************************************************)
(* What the cache shows of a child is there, unless the object is not.      *)
(***************************************************************************)
LEMMA GetSound ==
    ASSUME Known, obj.exists, NEW c \in Children \ {"monitor"}, NEW got \in Versions(c)
    PROVE  /\ Ours(got) => Ours(children[c])
           /\ got.owner = "other" => children[c].owner = "other"
           /\ Ours(got) => got # Absent
           /\ got # Absent => children[c] # Absent
           /\ Ours(children[c]) => children[c] # Absent /\ children[c].owner # "other"
           /\ c = "secret" /\ got # Absent => got.key = children[c].key
  <1>1. got = children[c] \/ got = seen[c]
    BY DEF Versions
  <1>2. ~Ours(Absent) /\ Absent.owner = "none" /\ "other" \notin ControllerKinds
    BY DEF Ours, Absent, ControllerKinds, ObjectKinds
  <1>3. /\ Ours(got) => Ours(children[c])
        /\ got.owner = "other" => children[c].owner = "other"
        /\ c = "secret" /\ got # Absent => got.key = children[c].key
    BY <1>1 DEF Known, SeenSound
  <1>4. got # Absent => Ours(got) \/ got.owner = "other"
    BY <1>1 DEF Known, TypeOK, NoOwnerMeansAbsent, ChildType, Ours
  <1> QED
    BY <1>2, <1>3, <1>4 DEF Ours

(***************************************************************************)
(* A secret or a config map (e.g. reconcileSecret, onionservice_secret.go). *)
(***************************************************************************)
LEMMA CreateOnlyDeals ==
    ASSUME Known, NEW c \in WrittenOnce, NEW STATE new, new \in OurChild, NEW next,
           CreateOnly(c, new, next), new.owner # "none"
    PROVE  DealsWith(c, new, next)
  <1>1. c \in Children /\ c # "monitor"
    BY DEF WrittenOnce, Children
  <1>2. PICK got \in Versions(c) :
            /\ Get(c, got)
            /\ \/ got = Absent /\ Create(c, new, next)
               \/ got # Absent /\ Skip(next)
    BY DEF CreateOnly
  <1>3. UNCHANGED <<kind, obj, world, cache, halted>>
    BY DEF CreateOnly, others
  <1>4. children = [children EXCEPT ![c] = children[c]] /\ new # Absent
    BY DEF Known, TypeOK, Absent
  <1>5. Absent.owner = "none" /\ ~Ours(Absent)
    BY DEF Absent, Ours, ControllerKinds, ObjectKinds
  <1>6. CASE got = Absent /\ children[c] = Absent
    <2>1. children' = [children EXCEPT ![c] = new] /\ Goto(next)
      BY <1>2, <1>6 DEF Create
    <2> QED
      BY <1>1, <1>2, <1>3, <1>4, <1>5, <1>6, <2>1, BecomesDeals DEF Goto
  <1>7. CASE got = Absent /\ children[c] # Absent
    <2>1. UNCHANGED children /\ Requeue
      BY <1>2, <1>7 DEF Create
    <2> QED
      BY <1>1, <1>2, <1>3, <1>4, <1>5, <1>7, <2>1, BecomesDeals
  <1>8. CASE got # Absent
    <2>1. UNCHANGED children /\ Goto(next)
      BY <1>2, <1>8 DEF Skip
    <2> QED
      BY <1>1, <1>2, <1>3, <1>4, <1>5, <1>8, <2>1, GetSound, BecomesDeals DEF Goto
  <1> QED
    BY <1>6, <1>7, <1>8

(***************************************************************************)
(* A child that is updated, and created if it is wanted.                    *)
(***************************************************************************)
LEMMA CreateIfWantedDeals ==
    ASSUME Known, NEW c \in Children \ (WrittenOnce \cup {"monitor"}),
           NEW STATE new, new \in OurChild, NEW next, NEW STATE wanted,
           c \in Mountable => wanted,
           CreateIfWanted(c, new, wanted, next)
    PROVE  DealsWith(c, new, next)
  <1>1. PICK got \in Versions(c) :
            /\ Get(c, got)
            /\ \/ got = Absent /\ wanted /\ Create(c, new, next)
               \/ got = Absent /\ ~wanted /\ Skip(next)
               \/ got # Absent /\ ~Ours(got) /\ Skip(next)
               \/ Ours(got) /\ Update(c, new, next)
    BY DEF CreateIfWanted
  <1>2. UNCHANGED <<kind, obj, world, cache, halted>>
    BY DEF CreateIfWanted, others
  <1>3. children = [children EXCEPT ![c] = children[c]]
    BY DEF Known, TypeOK
  <1>4. /\ Absent.owner = "none" /\ ~Ours(Absent) /\ "other" \notin ControllerKinds
        /\ Ours(new) /\ new # Absent /\ c # "secret"
    BY DEF Absent, Ours, ControllerKinds, ObjectKinds, OurChild, WrittenOnce
  <1>5. CASE got = Absent /\ wanted /\ Create(c, new, next)
    <2>1. CASE children[c] = Absent
      <3>1. children' = [children EXCEPT ![c] = new] /\ Goto(next)
        BY <1>5, <2>1 DEF Create
      <3> QED
        BY <1>1, <1>2, <1>4, <1>5, <2>1, <3>1, BecomesDeals DEF Goto
    <2>2. CASE children[c] # Absent
      <3>1. UNCHANGED children /\ Requeue
        BY <1>5, <2>2 DEF Create
      <3> QED
        BY <1>1, <1>2, <1>3, <1>4, <1>5, <2>2, <3>1, BecomesDeals
    <2> QED
      BY <2>1, <2>2
  <1>6. CASE got = Absent /\ ~wanted /\ Skip(next)
    <2>1. UNCHANGED children /\ Goto(next) /\ c \notin Mountable
      BY <1>6 DEF Skip
    <2> QED
      BY <1>1, <1>2, <1>3, <1>4, <1>6, <2>1, BecomesDeals DEF Goto
  <1>7. CASE got # Absent /\ ~Ours(got) /\ Skip(next)
    <2>1. UNCHANGED children /\ Goto(next)
      BY <1>7 DEF Skip
    <2> QED
      BY <1>1, <1>2, <1>3, <1>4, <1>7, <2>1, GetSound, BecomesDeals DEF Goto
  <1>8. CASE Ours(got) /\ Update(c, new, next)
    <2>1. obj.exists => Ours(children[c]) /\ children[c] # Absent /\ children[c].owner # "other"
      BY <1>1, <1>8, GetSound
    <2>2. CASE children' = [children EXCEPT ![c] = new] /\ Goto(next)
      <3>1. got.owner # "other"
        BY <1>4, <1>8 DEF Ours
      <3> QED
        BY <1>1, <1>2, <1>4, <2>1, <2>2, <3>1, BecomesDeals DEF Goto
    <2>3. CASE children[c] = Absent /\ UNCHANGED children /\ Requeue
      BY <1>1, <1>2, <1>3, <1>4, <1>8, <2>1, <2>3, BecomesDeals
    <2> QED
      BY <1>8, <2>2, <2>3 DEF Update
  <1> QED
    BY <1>1, <1>5, <1>6, <1>7, <1>8

(***************************************************************************)
(* A child that is updated (e.g. reconcileRole, onionservice_role.go).      *)
(***************************************************************************)
LEMMA CreateOrUpdateDeals ==
    ASSUME Known, NEW c \in Children \ (WrittenOnce \cup {"monitor"}),
           NEW STATE new, new \in OurChild, NEW next,
           CreateOrUpdate(c, new, next)
    PROVE  DealsWith(c, new, next)
  <1>1. CreateIfWanted(c, new, TRUE, next)
    BY DEF CreateOrUpdate, CreateIfWanted
  <1> QED
    BY <1>1, CreateIfWantedDeals
(***************************************************************************)
(* The service monitor, the only child a reconcile may delete.              *)
(***************************************************************************)
LEMMA ServiceMonitorDeals ==
    ASSUME Known, NEW STATE new, new \in OurChild, NEW next, ServiceMonitor(new, next)
    PROVE  DealsWith("monitor", new, next)
  <1>1. "monitor" \in Children /\ "monitor" \notin Mountable /\ children \in [Children -> ChildType]
    BY DEF Children, Mountable, Known, TypeOK
  <1>2. UNCHANGED <<kind, obj, world, cache, halted>>
    BY DEF ServiceMonitor, others
  <1>3. children = [children EXCEPT !["monitor"] = children["monitor"]]
    BY <1>1
  <1>4. CASE Skip(next) /\ UNCHANGED <<seen, faults>>
    <2>1. UNCHANGED <<children, seen, faults>> /\ Goto(next)
      BY <1>4 DEF Skip
    <2>2. NoOwnerMeansAbsent' /\ SeenSound'
      BY <1>2, <2>1 DEF Known, NoOwnerMeansAbsent, SeenSound, Ours
    <2> QED
      BY <1>1, <1>2, <2>1, <2>2 DEF DealsWith, Known, TypeOK, Goto
  <1>5. ASSUME NEW got \in Versions("monitor"), Get("monitor", got),
               \/ Create("monitor", new, next) \/ Skip(next) \/ Remove("monitor", next)
               \/ UNCHANGED children /\ Requeue
        PROVE  DealsWith("monitor", new, next)
    <2>1. PICK x \in {children["monitor"], new, Absent} :
              children' = [children EXCEPT !["monitor"] = x]
      BY <1>3, <1>5 DEF Create, Skip, Remove
    <2>2. Goto(next) \/ Requeue
      BY <1>5 DEF Create, Skip, Remove
    <2> QED
      BY <1>1, <1>2, <1>5, <2>1, <2>2, BecomesDeals DEF Goto
  <1> QED
    BY <1>4, <1>5 DEF ServiceMonitor

---------------------------------------------------------------------------
(* A step that deals with a child keeps the invariant *)

(***************************************************************************)
(* Types, and what is known of caches and copies.                           *)
(***************************************************************************)
LEMMA DealingKeepsKnown ==
    ASSUME Known, NEW c \in Children, pc = c, NEW STATE new, NEW next \in Places,
           DealsWith(c, new, next)
    PROVE  Known'
  <1>1. NoCopy \in [gen : 0 .. cache.gen, spec : SpecType, fresh : BOOLEAN,
                    hostname : Keys \cup {NoKey}, key : Secrets]
    <2>1. cache.gen \in Nat
      BY DEF Known, TypeOK
    <2> QED
      BY <2>1 DEF NoCopy, NoSpec, SpecType, Secrets
  <1>2. NoCopy.fresh = FALSE /\ pc # "idle" /\ "idle" \in Places
    BY DEF NoCopy, Children, Places
  <1>3. UNCHANGED <<kind, obj, world, cache, halted>>
    BY DEF DealsWith
  <1>4. TypeOK'
    <2>1. pc' \in Places /\ queued' \in BOOLEAN
      BY <1>2 DEF DealsWith, Requeue, Known, TypeOK
    <2>2. copy' \in [gen : 0 .. cache.gen, spec : SpecType, fresh : BOOLEAN,
                     hostname : Keys \cup {NoKey}, key : Secrets]
      BY <1>1 DEF DealsWith, Requeue, Known, TypeOK
    <2>3. kind = "Tor" /\ pc' # "idle" => copy'.spec.ports \cap ClientOrServer # {}
      BY <1>2 DEF DealsWith, Requeue, Known, TypeOK
    <2>4. /\ children' \in [Children -> ChildType] /\ seen' \in [Children -> ChildType]
          /\ faults' \in 0 .. MaxFaults /\ \A d \in Children : children'[d].from <= obj.gen
      BY DEF DealsWith
    <2> QED
      BY <1>3, <2>1, <2>2, <2>3, <2>4 DEF Known, TypeOK, Places
  <1>5. FreshSound'
    BY <1>2, <1>3 DEF DealsWith, Requeue, Known, FreshSound, Current
  <1> QED
    BY <1>4, <1>5 DEF DealsWith, Known

(***************************************************************************)
(* While the object exists only the service monitor can go.                 *)
(***************************************************************************)
LEMMA DealingKeepsChildren ==
    ASSUME NEW c \in Children, NEW STATE new, NEW next, DealsWith(c, new, next),
           obj.exists, NEW d \in Children \ {"monitor"}
    PROVE  /\ children[d] # Absent => children'[d] # Absent
           /\ children[d].owner = "other" => children'[d] = children[d]
           /\ d \in WrittenOnce /\ children[d] # Absent => children'[d] = children[d]
  <1>1. CASE d = c
    BY <1>1 DEF DealsWith
  <1>2. CASE d # c
    BY <1>2 DEF DealsWith
  <1> QED
    BY <1>1, <1>2
(***************************************************************************)
(* The object is of one of the three kinds.                                 *)
(***************************************************************************)
LEMMA KindIsOne == ASSUME TypeOK PROVE kind \in ObjectKinds
  BY SpecsAssumption DEF TypeOK

(***************************************************************************)
(* A deployment comes when what its pods mount is there.                    *)
(***************************************************************************)
LEMMA DealingKeepsDeploymentSupplied ==
    ASSUME Known, SuppliesInTime, DeploymentSupplied,
           NEW c \in Children, pc = c, NEW STATE new, NEW next, DealsWith(c, new, next)
    PROVE  DeploymentSupplied'
  <1> SUFFICES ASSUME obj.exists, Ours(children'["deployment"])
               PROVE  Supplied'
    BY DEF DeploymentSupplied, DealsWith, Ours
  <1>1. kind' = kind /\ kind \in ObjectKinds
    BY KindIsOne DEF DealsWith, Known
  <1>2. /\ Mounts' = Mounts
        /\ Mounts \subseteq Children \ {"monitor"}
    BY <1>1 DEF Mounts, OSMounts, OBSMounts, TorMounts, ObjectKinds, Children
  <1>3. Supplied
    <2>1. CASE c = "deployment"
      BY <1>1, <2>1 DEF SuppliesInTime, Supplied, Mounts, OSMounts, OBSMounts, TorMounts, ObjectKinds
    <2>2. CASE c # "deployment"
      <3>1. children'["deployment"] = children["deployment"]
        BY <2>2 DEF DealsWith, Children
      <3> QED
        BY <3>1 DEF DeploymentSupplied
    <2> QED
      BY <2>1, <2>2
  <1> QED
    BY <1>2, <1>3, DealingKeepsChildren DEF Supplied

(***************************************************************************)
(* The orders in which the reconcilers go from child to child; the control  *)
(* secret of a Tor object has a step of its own.                            *)
(***************************************************************************)
OSOrder == {<<"auth", "secret">>, <<"secret", "serviceAccount">>, <<"serviceAccount", "role">>,
            <<"role", "roleBinding">>, <<"roleBinding", "service">>, <<"service", "deployment">>,
            <<"deployment", "metrics">>, <<"metrics", "monitor">>, <<"monitor", "status">>}

OBSOrder == {<<"secret", "serviceAccount">>, <<"serviceAccount", "role">>,
             <<"role", "roleBinding">>, <<"roleBinding", "service">>, <<"service", "configMap">>,
             <<"configMap", "deployment">>, <<"deployment", "metrics">>, <<"metrics", "monitor">>,
             <<"monitor", "status">>}

TorOrder == {<<"serviceAccount", "role">>, <<"role", "roleBinding">>, <<"roleBinding", "service">>,
             <<"service", "secret">>, <<"configMap", "deployment">>, <<"deployment", "metrics">>,
             <<"metrics", "monitor">>, <<"monitor", "status">>}

InOrder(c, next) ==
    \/ kind = "OnionService" /\ <<c, next>> \in OSOrder
    \/ kind = "OnionBalancedService" /\ <<c, next>> \in OBSOrder
    \/ kind = "Tor" /\ <<c, next>> \in TorOrder

(***************************************************************************)
(* What a reconcile makes: the key or password it has drawn in the secret,  *)
(* the hashed password in the config map of a Tor object, no key elsewhere; *)
(* and what follows the spec is made from that of the copy.                 *)
(***************************************************************************)
Suits(c, new) ==
    /\ new.owner \in ControllerKinds
    /\ c = "secret" => new.key \in Keys \cup Passwords
    /\ c = "configMap" => IF kind = "Tor" THEN new.key = Hashed /\ new.from = copy.gen
                                           ELSE new.owner # "Tor"
    /\ c \notin {"secret", "configMap"} => new.key = NoKey
    /\ IF c \in MadeFromSpec THEN new.from = copy.gen
       ELSE IF c \in WrittenOnce THEN new.from \in {0, copy.gen} ELSE new.from = 0

\* A call of a reconcile about one child, but for the control secret's.
Called ==
    \E c \in Children, next \in Places, new \in OurChild :
        pc = c /\ InOrder(c, next) /\ Suits(c, new) /\ DealsWith(c, new, next)

(***************************************************************************)
(* Whoever goes on in order has seen to the children before.                *)
(***************************************************************************)
LEMMA DealingKeepsOrder ==
    ASSUME Known, SuppliesInTime, NEW c \in Children, pc = c, NEW STATE new, NEW next,
           InOrder(c, next), DealsWith(c, new, next)
    PROVE  SuppliesInTime'
  <1> SUFFICES ASSUME obj.exists, pc' = next, obj.exists /\ c \in Mountable => children'[c] # Absent
               PROVE  SuppliesInTime'
    BY DEF SuppliesInTime, DealsWith, Requeue
  <1>1. kind' = kind /\ obj' = obj
    BY DEF DealsWith
  <1>2. \A d \in Mountable : children[d] # Absent => children'[d] # Absent
    BY DealingKeepsChildren DEF Mountable, Children
  <1>3. CASE kind = "OnionService" /\ <<c, next>> \in OSOrder
    BY <1>1, <1>2, <1>3 DEF SuppliesInTime, OSOrder, Mountable
  <1>4. CASE kind = "OnionBalancedService" /\ <<c, next>> \in OBSOrder
    BY <1>1, <1>2, <1>4 DEF SuppliesInTime, OBSOrder, Mountable
  <1>5. CASE kind = "Tor" /\ <<c, next>> \in TorOrder
    BY <1>1, <1>2, <1>5 DEF SuppliesInTime, TorOrder, Mountable
  <1> QED
    BY <1>3, <1>4, <1>5 DEF InOrder

(***************************************************************************)
(* The secret stays what it is, and what is hashed into a config map is the *)
(* password of the reconcile.                                               *)
(***************************************************************************)
LEMMA DealingKeepsPassword ==
    ASSUME Known, PasswordSound, NEW c \in Children, pc = c, NEW STATE new, NEW next,
           next # "configMap", kind = "Tor" /\ c = "configMap" => new.key \in {NoKey, copy.key},
           DealsWith(c, new, next)
    PROVE  PasswordSound'
  <1> SUFFICES ASSUME kind = "Tor", obj.exists
               PROVE  PasswordSound'
    BY DEF PasswordSound, DealsWith
  <1>1. pc' # "configMap" /\ kind' = kind /\ obj' = obj
    BY DEF DealsWith, Requeue
  <1>2. children["secret"] # Absent => children'["secret"] = children["secret"]
    BY DealingKeepsChildren DEF WrittenOnce, Children
  <1>3. CASE c = "configMap"
    BY <1>1, <1>2, <1>3 DEF PasswordSound, DealsWith, Absent
  <1>4. CASE c # "configMap"
    BY <1>1, <1>2, <1>4 DEF PasswordSound, DealsWith, Children
  <1> QED
    BY <1>3, <1>4

(***************************************************************************)
(* So a step that deals with a child keeps the invariant.                   *)
(***************************************************************************)
LEMMA CalledKeeps == ASSUME IInv, Called PROVE Keeps
  <1>1. PICK c \in Children, next \in Places, new \in OurChild :
            pc = c /\ InOrder(c, next) /\ Suits(c, new) /\ DealsWith(c, new, next)
    BY DEF Called
  <1>2. kind = "Tor" => next # "configMap"
    BY <1>1 DEF InOrder, OSOrder, OBSOrder, TorOrder
  <1>3. PasswordSound'
    <2>1. CASE kind = "Tor"
      BY <1>1, <1>2, <2>1, DealingKeepsPassword DEF IInv, Suits, Hashed
    <2>2. CASE kind # "Tor"
      BY <1>1, <2>2 DEF PasswordSound, DealsWith
    <2> QED
      BY <2>1, <2>2
  <1>4. IInv'
    BY <1>1, <1>3, DealingKeepsKnown, DealingKeepsOrder, DealingKeepsDeploymentSupplied DEF IInv
  <1>5. ForeignKept
    BY <1>1, DealingKeepsChildren DEF ForeignKept
  <1>6. HostnameStays
    BY <1>1 DEF HostnameStays, DealsWith
  <1> QED
    BY <1>4, <1>5, <1>6 DEF Keeps

---------------------------------------------------------------------------
(* The steps of the reconcilers *)

(***************************************************************************)
(* What the constructors make are children, and such as suit.               *)
(***************************************************************************)
LEMMA MadeChildren ==
    ASSUME TypeOK, NEW k \in ObjectKinds \cup {"onionbalancedservice"}
    PROVE  /\ Fixed(k) \in OurChild /\ Fixed(k).owner # "none"
           /\ FromSpec(k) \in OurChild /\ FromSpec(k).owner # "none"
           /\ \A key \in Secrets : /\ Keyed(k, key) \in OurChild
                                   /\ Keyed(k, key).owner # "none"
                                   /\ [FromSpec(k) EXCEPT !.key = key] \in OurChild
                                   /\ [FromSpec(k) EXCEPT !.key = key].owner # "none"
                                   /\ [FromSpec(k) EXCEPT !.key = key].key = key
  <1>1. copy.gen \in 0 .. obj.gen /\ 0 \in 0 .. obj.gen
    BY BoundsAssumption DEF TypeOK
  <1>2. k \in ControllerKinds /\ k # "none" /\ NoKey \in Secrets
    BY DEF ControllerKinds, ObjectKinds, Secrets
  <1> QED
    BY <1>1, <1>2 DEF OurChild, Fixed, FromSpec, Keyed

LEMMA MadeSuits ==
    ASSUME NEW k \in ObjectKinds \cup {"onionbalancedservice"}
    PROVE  /\ \A c \in Children \ (MadeFromSpec \cup {"secret", "configMap"}) : Suits(c, Fixed(k))
           /\ \A c \in MadeFromSpec \cup {"auth"} : Suits(c, FromSpec(k))
           /\ \A key \in Keys \cup Passwords : Suits("secret", Keyed(k, key))
           /\ kind # "Tor" /\ k # "Tor" => Suits("configMap", Fixed(k))
           /\ kind = "Tor" => Suits("configMap", [FromSpec(k) EXCEPT !.key = Hashed])
  BY DEF Suits, Fixed, FromSpec, Keyed, ControllerKinds, MadeFromSpec, WrittenOnce

LEMMA CallIs ==
    ASSUME NEW c \in Children, NEW STATE new, new \in OurChild, NEW next,
           pc = c, InOrder(c, next), Suits(c, new), DealsWith(c, new, next)
    PROVE  Called
  BY DEF Called, InOrder, OSOrder, OBSOrder, TorOrder, Places, Children

(***************************************************************************)
(* The children of an OnionService.                                         *)
(***************************************************************************)
LEMMA OSCallsDeal ==
    ASSUME IInv,
           \/ OSReconcileSecretAuthorizedClients
           \/ OSReconcileSecret
           \/ OSReconcileServiceAccount
           \/ OSReconcileRole
           \/ OSReconcileRolebinding
           \/ OSReconcileService
           \/ OSReconcileDeployment
           \/ OSReconcileMetricsService
           \/ OSReconcileServiceMonitor
    PROVE  Called
  <1>1. Known /\ TypeOK /\ "OnionService" \in ObjectKinds /\ Keys \cup Passwords \subseteq Secrets
    BY DEF IInv, Known, ObjectKinds, Secrets
  <1>2. CASE OSReconcileSecretAuthorizedClients
    <2>1. pc = "auth" /\ CreateOnly("auth", torOnionServiceSecretAuthorizedClients, "secret")
      BY <1>2 DEF OSReconcileSecretAuthorizedClients, At
    <2>2. torOnionServiceSecretAuthorizedClients \in OurChild /\ torOnionServiceSecretAuthorizedClients.owner # "none"
      BY <1>1, <2>1, MadeChildren DEF torOnionServiceSecretAuthorizedClients
    <2>3. DealsWith("auth", torOnionServiceSecretAuthorizedClients, "secret")
      BY <1>1, <2>1, <2>2, CreateOnlyDeals DEF Children, WrittenOnce
    <2>4. InOrder("auth", "secret")
      BY <1>2 DEF OSReconcileSecretAuthorizedClients, At, InOrder, OSOrder
    <2>5. Suits("auth", torOnionServiceSecretAuthorizedClients)
      BY <1>1, MadeSuits DEF torOnionServiceSecretAuthorizedClients, Children, MadeFromSpec, ObjectKinds
    <2> QED
      BY <2>1, <2>2, <2>3, <2>4, <2>5, CallIs DEF Children
  <1>3. CASE OSReconcileSecret
    <2>1. PICK key \in Keys : pc = "secret" /\ CreateOnly("secret", torOnionServiceSecret(key), "serviceAccount")
      BY <1>3 DEF OSReconcileSecret, At
    <2>2. torOnionServiceSecret(key) \in OurChild /\ torOnionServiceSecret(key).owner # "none"
      BY <1>1, <2>1, MadeChildren DEF torOnionServiceSecret
    <2>3. DealsWith("secret", torOnionServiceSecret(key), "serviceAccount")
      BY <1>1, <2>1, <2>2, CreateOnlyDeals DEF Children, WrittenOnce
    <2>4. InOrder("secret", "serviceAccount")
      BY <1>3 DEF OSReconcileSecret, At, InOrder, OSOrder
    <2>5. Suits("secret", torOnionServiceSecret(key))
      BY <1>1, <2>1, MadeSuits DEF torOnionServiceSecret, Children, MadeFromSpec, ObjectKinds
    <2> QED
      BY <2>1, <2>2, <2>3, <2>4, <2>5, CallIs DEF Children
  <1>4. CASE OSReconcileServiceAccount
    <2>1. pc = "serviceAccount" /\ CreateOrUpdate("serviceAccount", torOnionServiceAccount, "role")
      BY <1>4 DEF OSReconcileServiceAccount, At
    <2>2. torOnionServiceAccount \in OurChild /\ torOnionServiceAccount.owner # "none"
      BY <1>1, <2>1, MadeChildren DEF torOnionServiceAccount
    <2>3. DealsWith("serviceAccount", torOnionServiceAccount, "role")
      BY <1>1, <2>1, <2>2, CreateOrUpdateDeals DEF Children, WrittenOnce
    <2>4. InOrder("serviceAccount", "role")
      BY <1>4 DEF OSReconcileServiceAccount, At, InOrder, OSOrder
    <2>5. Suits("serviceAccount", torOnionServiceAccount)
      BY <1>1, MadeSuits DEF torOnionServiceAccount, Children, MadeFromSpec, ObjectKinds
    <2> QED
      BY <2>1, <2>2, <2>3, <2>4, <2>5, CallIs DEF Children
  <1>5. CASE OSReconcileRole
    <2>1. pc = "role" /\ CreateOrUpdate("role", torOnionRole, "roleBinding")
      BY <1>5 DEF OSReconcileRole, At
    <2>2. torOnionRole \in OurChild /\ torOnionRole.owner # "none"
      BY <1>1, <2>1, MadeChildren DEF torOnionRole
    <2>3. DealsWith("role", torOnionRole, "roleBinding")
      BY <1>1, <2>1, <2>2, CreateOrUpdateDeals DEF Children, WrittenOnce
    <2>4. InOrder("role", "roleBinding")
      BY <1>5 DEF OSReconcileRole, At, InOrder, OSOrder
    <2>5. Suits("role", torOnionRole)
      BY <1>1, MadeSuits DEF torOnionRole, Children, MadeFromSpec, ObjectKinds
    <2> QED
      BY <2>1, <2>2, <2>3, <2>4, <2>5, CallIs DEF Children
  <1>6. CASE OSReconcileRolebinding
    <2>1. pc = "roleBinding" /\ CreateOrUpdate("roleBinding", torOnionRolebinding, "service")
      BY <1>6 DEF OSReconcileRolebinding, At
    <2>2. torOnionRolebinding \in OurChild /\ torOnionRolebinding.owner # "none"
      BY <1>1, <2>1, MadeChildren DEF torOnionRolebinding
    <2>3. DealsWith("roleBinding", torOnionRolebinding, "service")
      BY <1>1, <2>1, <2>2, CreateOrUpdateDeals DEF Children, WrittenOnce
    <2>4. InOrder("roleBinding", "service")
      BY <1>6 DEF OSReconcileRolebinding, At, InOrder, OSOrder
    <2>5. Suits("roleBinding", torOnionRolebinding)
      BY <1>1, MadeSuits DEF torOnionRolebinding, Children, MadeFromSpec, ObjectKinds
    <2> QED
      BY <2>1, <2>2, <2>3, <2>4, <2>5, CallIs DEF Children
  <1>7. CASE OSReconcileService
    <2>1. pc = "service" /\ CreateOrUpdate("service", OnionServiceService, "deployment")
      BY <1>7 DEF OSReconcileService, At
    <2>2. OnionServiceService \in OurChild /\ OnionServiceService.owner # "none"
      BY <1>1, <2>1, MadeChildren DEF OnionServiceService
    <2>3. DealsWith("service", OnionServiceService, "deployment")
      BY <1>1, <2>1, <2>2, CreateOrUpdateDeals DEF Children, WrittenOnce
    <2>4. InOrder("service", "deployment")
      BY <1>7 DEF OSReconcileService, At, InOrder, OSOrder
    <2>5. Suits("service", OnionServiceService)
      BY <1>1, MadeSuits DEF OnionServiceService, Children, MadeFromSpec, ObjectKinds
    <2> QED
      BY <2>1, <2>2, <2>3, <2>4, <2>5, CallIs DEF Children
  <1>8. CASE OSReconcileDeployment
    <2>1. pc = "deployment" /\ CreateOrUpdate("deployment", torOnionServiceDeployment, "metrics")
      BY <1>8 DEF OSReconcileDeployment, At
    <2>2. torOnionServiceDeployment \in OurChild /\ torOnionServiceDeployment.owner # "none"
      BY <1>1, <2>1, MadeChildren DEF torOnionServiceDeployment
    <2>3. DealsWith("deployment", torOnionServiceDeployment, "metrics")
      BY <1>1, <2>1, <2>2, CreateOrUpdateDeals DEF Children, WrittenOnce
    <2>4. InOrder("deployment", "metrics")
      BY <1>8 DEF OSReconcileDeployment, At, InOrder, OSOrder
    <2>5. Suits("deployment", torOnionServiceDeployment)
      BY <1>1, MadeSuits DEF torOnionServiceDeployment, Children, MadeFromSpec, ObjectKinds
    <2> QED
      BY <2>1, <2>2, <2>3, <2>4, <2>5, CallIs DEF Children
  <1>9. CASE OSReconcileMetricsService
    <2>1. pc = "metrics" /\ CreateOrUpdate("metrics", osTorMetricsService, "monitor")
      BY <1>9 DEF OSReconcileMetricsService, At
    <2>2. osTorMetricsService \in OurChild /\ osTorMetricsService.owner # "none"
      BY <1>1, <2>1, MadeChildren DEF osTorMetricsService
    <2>3. DealsWith("metrics", osTorMetricsService, "monitor")
      BY <1>1, <2>1, <2>2, CreateOrUpdateDeals DEF Children, WrittenOnce
    <2>4. InOrder("metrics", "monitor")
      BY <1>9 DEF OSReconcileMetricsService, At, InOrder, OSOrder
    <2>5. Suits("metrics", osTorMetricsService)
      BY <1>1, MadeSuits DEF osTorMetricsService, Children, MadeFromSpec, ObjectKinds
    <2> QED
      BY <2>1, <2>2, <2>3, <2>4, <2>5, CallIs DEF Children
  <1>10. CASE OSReconcileServiceMonitor
    <2>1. pc = "monitor" /\ ServiceMonitor(osTorServiceMonitor, "status")
      BY <1>10 DEF OSReconcileServiceMonitor, At
    <2>2. osTorServiceMonitor \in OurChild /\ osTorServiceMonitor.owner # "none"
      BY <1>1, <2>1, MadeChildren DEF osTorServiceMonitor
    <2>3. DealsWith("monitor", osTorServiceMonitor, "status")
      BY <1>1, <2>1, <2>2, ServiceMonitorDeals DEF Children, WrittenOnce, Mountable
    <2>4. InOrder("monitor", "status")
      BY <1>10 DEF OSReconcileServiceMonitor, At, InOrder, OSOrder
    <2>5. Suits("monitor", osTorServiceMonitor)
      BY <1>1, MadeSuits DEF osTorServiceMonitor, Children, MadeFromSpec, ObjectKinds
    <2> QED
      BY <2>1, <2>2, <2>3, <2>4, <2>5, CallIs DEF Children
  <1> QED
    BY <1>2, <1>3, <1>4, <1>5, <1>6, <1>7, <1>8, <1>9, <1>10

(***************************************************************************)
(* The children of an OnionBalancedService.                                 *)
(***************************************************************************)
LEMMA OBSCallsDeal ==
    ASSUME IInv,
           \/ OBSReconcileSecret
           \/ OBSReconcileServiceAccount
           \/ OBSReconcileRole
           \/ OBSReconcileRolebinding
           \/ OBSReconcileService
           \/ OBSReconcileConfigMap
           \/ OBSReconcileDeployment
           \/ OBSReconcileMetricsService
           \/ OBSReconcileServiceMonitor
    PROVE  Called
  <1>1. Known /\ TypeOK /\ "OnionBalancedService" \in ObjectKinds /\ Keys \cup Passwords \subseteq Secrets
    BY DEF IInv, Known, ObjectKinds, Secrets
  <1>2. CASE OBSReconcileSecret
    <2>1. PICK key \in Keys : pc = "secret" /\ CreateOnly("secret", onionbalanceSecret(key), "serviceAccount")
      BY <1>2 DEF OBSReconcileSecret, At
    <2>2. onionbalanceSecret(key) \in OurChild /\ onionbalanceSecret(key).owner # "none"
      BY <1>1, <2>1, MadeChildren DEF onionbalanceSecret
    <2>3. DealsWith("secret", onionbalanceSecret(key), "serviceAccount")
      BY <1>1, <2>1, <2>2, CreateOnlyDeals DEF Children, WrittenOnce
    <2>4. InOrder("secret", "serviceAccount")
      BY <1>2 DEF OBSReconcileSecret, At, InOrder, OBSOrder
    <2>5. Suits("secret", onionbalanceSecret(key))
      BY <1>1, <2>1, MadeSuits DEF onionbalanceSecret, Children, MadeFromSpec, ObjectKinds
    <2> QED
      BY <2>1, <2>2, <2>3, <2>4, <2>5, CallIs DEF Children
  <1>3. CASE OBSReconcileServiceAccount
    <2>1. pc = "serviceAccount" /\ CreateOrUpdate("serviceAccount", onionbalanceServiceAccount, "role")
      BY <1>3 DEF OBSReconcileServiceAccount, At
    <2>2. onionbalanceServiceAccount \in OurChild /\ onionbalanceServiceAccount.owner # "none"
      BY <1>1, <2>1, MadeChildren DEF onionbalanceServiceAccount
    <2>3. DealsWith("serviceAccount", onionbalanceServiceAccount, "role")
      BY <1>1, <2>1, <2>2, CreateOrUpdateDeals DEF Children, WrittenOnce
    <2>4. InOrder("serviceAccount", "role")
      BY <1>3 DEF OBSReconcileServiceAccount, At, InOrder, OBSOrder
    <2>5. Suits("serviceAccount", onionbalanceServiceAccount)
      BY <1>1, MadeSuits DEF onionbalanceServiceAccount, Children, MadeFromSpec, ObjectKinds
    <2> QED
      BY <2>1, <2>2, <2>3, <2>4, <2>5, CallIs DEF Children
  <1>4. CASE OBSReconcileRole
    <2>1. pc = "role" /\ CreateOrUpdate("role", onionbalanceRole, "roleBinding")
      BY <1>4 DEF OBSReconcileRole, At
    <2>2. onionbalanceRole \in OurChild /\ onionbalanceRole.owner # "none"
      BY <1>1, <2>1, MadeChildren DEF onionbalanceRole
    <2>3. DealsWith("role", onionbalanceRole, "roleBinding")
      BY <1>1, <2>1, <2>2, CreateOrUpdateDeals DEF Children, WrittenOnce
    <2>4. InOrder("role", "roleBinding")
      BY <1>4 DEF OBSReconcileRole, At, InOrder, OBSOrder
    <2>5. Suits("role", onionbalanceRole)
      BY <1>1, MadeSuits DEF onionbalanceRole, Children, MadeFromSpec, ObjectKinds
    <2> QED
      BY <2>1, <2>2, <2>3, <2>4, <2>5, CallIs DEF Children
  <1>5. CASE OBSReconcileRolebinding
    <2>1. pc = "roleBinding" /\ CreateOrUpdate("roleBinding", onionbalanceRolebinding, "service")
      BY <1>5 DEF OBSReconcileRolebinding, At
    <2>2. onionbalanceRolebinding \in OurChild /\ onionbalanceRolebinding.owner # "none"
      BY <1>1, <2>1, MadeChildren DEF onionbalanceRolebinding
    <2>3. DealsWith("roleBinding", onionbalanceRolebinding, "service")
      BY <1>1, <2>1, <2>2, CreateOrUpdateDeals DEF Children, WrittenOnce
    <2>4. InOrder("roleBinding", "service")
      BY <1>5 DEF OBSReconcileRolebinding, At, InOrder, OBSOrder
    <2>5. Suits("roleBinding", onionbalanceRolebinding)
      BY <1>1, MadeSuits DEF onionbalanceRolebinding, Children, MadeFromSpec, ObjectKinds
    <2> QED
      BY <2>1, <2>2, <2>3, <2>4, <2>5, CallIs DEF Children
  <1>6. CASE OBSReconcileService
    <2>1. pc = "service" /\ CreateOrUpdate("service", onionbalanceService, "configMap")
      BY <1>6 DEF OBSReconcileService, At
    <2>2. onionbalanceService \in OurChild /\ onionbalanceService.owner # "none"
      BY <1>1, <2>1, MadeChildren DEF onionbalanceService
    <2>3. DealsWith("service", onionbalanceService, "configMap")
      BY <1>1, <2>1, <2>2, CreateOrUpdateDeals DEF Children, WrittenOnce
    <2>4. InOrder("service", "configMap")
      BY <1>6 DEF OBSReconcileService, At, InOrder, OBSOrder
    <2>5. Suits("service", onionbalanceService)
      BY <1>1, MadeSuits DEF onionbalanceService, Children, MadeFromSpec, ObjectKinds
    <2> QED
      BY <2>1, <2>2, <2>3, <2>4, <2>5, CallIs DEF Children
  <1>7. CASE OBSReconcileConfigMap
    <2>1. pc = "configMap" /\ CreateOnly("configMap", onionbalanceTorConfigMap, "deployment")
      BY <1>7 DEF OBSReconcileConfigMap, At
    <2>2. onionbalanceTorConfigMap \in OurChild /\ onionbalanceTorConfigMap.owner # "none"
      BY <1>1, <2>1, MadeChildren DEF onionbalanceTorConfigMap
    <2>3. DealsWith("configMap", onionbalanceTorConfigMap, "deployment")
      BY <1>1, <2>1, <2>2, CreateOnlyDeals DEF Children, WrittenOnce
    <2>4. InOrder("configMap", "deployment")
      BY <1>7 DEF OBSReconcileConfigMap, At, InOrder, OBSOrder
    <2>5. Suits("configMap", onionbalanceTorConfigMap)
      BY <1>1, <1>7, MadeSuits DEF onionbalanceTorConfigMap, Children, MadeFromSpec, ObjectKinds, OBSReconcileConfigMap, At
    <2> QED
      BY <2>1, <2>2, <2>3, <2>4, <2>5, CallIs DEF Children
  <1>8. CASE OBSReconcileDeployment
    <2>1. pc = "deployment" /\ CreateOrUpdate("deployment", onionbalanceDeployment, "metrics")
      BY <1>8 DEF OBSReconcileDeployment, At
    <2>2. onionbalanceDeployment \in OurChild /\ onionbalanceDeployment.owner # "none"
      BY <1>1, <2>1, MadeChildren DEF onionbalanceDeployment
    <2>3. DealsWith("deployment", onionbalanceDeployment, "metrics")
      BY <1>1, <2>1, <2>2, CreateOrUpdateDeals DEF Children, WrittenOnce
    <2>4. InOrder("deployment", "metrics")
      BY <1>8 DEF OBSReconcileDeployment, At, InOrder, OBSOrder
    <2>5. Suits("deployment", onionbalanceDeployment)
      BY <1>1, MadeSuits DEF onionbalanceDeployment, Children, MadeFromSpec, ObjectKinds
    <2> QED
      BY <2>1, <2>2, <2>3, <2>4, <2>5, CallIs DEF Children
  <1>9. CASE OBSReconcileMetricsService
    <2>1. pc = "metrics" /\ CreateOrUpdate("metrics", obsTorMetricsService, "monitor")
      BY <1>9 DEF OBSReconcileMetricsService, At
    <2>2. obsTorMetricsService \in OurChild /\ obsTorMetricsService.owner # "none"
      BY <1>1, <2>1, MadeChildren DEF obsTorMetricsService
    <2>3. DealsWith("metrics", obsTorMetricsService, "monitor")
      BY <1>1, <2>1, <2>2, CreateOrUpdateDeals DEF Children, WrittenOnce
    <2>4. InOrder("metrics", "monitor")
      BY <1>9 DEF OBSReconcileMetricsService, At, InOrder, OBSOrder
    <2>5. Suits("metrics", obsTorMetricsService)
      BY <1>1, MadeSuits DEF obsTorMetricsService, Children, MadeFromSpec, ObjectKinds
    <2> QED
      BY <2>1, <2>2, <2>3, <2>4, <2>5, CallIs DEF Children
  <1>10. CASE OBSReconcileServiceMonitor
    <2>1. pc = "monitor" /\ ServiceMonitor(obsTorServiceMonitor, "status")
      BY <1>10 DEF OBSReconcileServiceMonitor, At
    <2>2. obsTorServiceMonitor \in OurChild /\ obsTorServiceMonitor.owner # "none"
      BY <1>1, <2>1, MadeChildren DEF obsTorServiceMonitor
    <2>3. DealsWith("monitor", obsTorServiceMonitor, "status")
      BY <1>1, <2>1, <2>2, ServiceMonitorDeals DEF Children, WrittenOnce, Mountable
    <2>4. InOrder("monitor", "status")
      BY <1>10 DEF OBSReconcileServiceMonitor, At, InOrder, OBSOrder
    <2>5. Suits("monitor", obsTorServiceMonitor)
      BY <1>1, MadeSuits DEF obsTorServiceMonitor, Children, MadeFromSpec, ObjectKinds
    <2> QED
      BY <2>1, <2>2, <2>3, <2>4, <2>5, CallIs DEF Children
  <1> QED
    BY <1>2, <1>3, <1>4, <1>5, <1>6, <1>7, <1>8, <1>9, <1>10

(***************************************************************************)
(* The children of a Tor object but for the control secret.                 *)
(***************************************************************************)
LEMMA TorCallsDeal ==
    ASSUME IInv,
           \/ TorReconcileServiceAccount
           \/ TorReconcileRole
           \/ TorReconcileRolebinding
           \/ TorReconcileService
           \/ TorReconcileConfigMap
           \/ TorReconcileDeployment
           \/ TorReconcileMetricsService
           \/ TorReconcileServiceMonitor
    PROVE  Called
  <1>1. Known /\ TypeOK /\ "Tor" \in ObjectKinds /\ Keys \cup Passwords \subseteq Secrets
    BY DEF IInv, Known, ObjectKinds, Secrets
  <1>2. CASE TorReconcileServiceAccount
    <2>1. pc = "serviceAccount" /\ CreateOrUpdate("serviceAccount", torServiceAccount, "role")
      BY <1>2 DEF TorReconcileServiceAccount, At
    <2>2. torServiceAccount \in OurChild /\ torServiceAccount.owner # "none"
      BY <1>1, <2>1, MadeChildren DEF torServiceAccount
    <2>3. DealsWith("serviceAccount", torServiceAccount, "role")
      BY <1>1, <2>1, <2>2, CreateOrUpdateDeals DEF Children, WrittenOnce
    <2>4. InOrder("serviceAccount", "role")
      BY <1>2 DEF TorReconcileServiceAccount, At, InOrder, TorOrder
    <2>5. Suits("serviceAccount", torServiceAccount)
      BY <1>1, MadeSuits DEF torServiceAccount, Children, MadeFromSpec, ObjectKinds
    <2> QED
      BY <2>1, <2>2, <2>3, <2>4, <2>5, CallIs DEF Children
  <1>3. CASE TorReconcileRole
    <2>1. pc = "role" /\ CreateOrUpdate("role", torRole, "roleBinding")
      BY <1>3 DEF TorReconcileRole, At
    <2>2. torRole \in OurChild /\ torRole.owner # "none"
      BY <1>1, <2>1, MadeChildren DEF torRole
    <2>3. DealsWith("role", torRole, "roleBinding")
      BY <1>1, <2>1, <2>2, CreateOrUpdateDeals DEF Children, WrittenOnce
    <2>4. InOrder("role", "roleBinding")
      BY <1>3 DEF TorReconcileRole, At, InOrder, TorOrder
    <2>5. Suits("role", torRole)
      BY <1>1, MadeSuits DEF torRole, Children, MadeFromSpec, ObjectKinds
    <2> QED
      BY <2>1, <2>2, <2>3, <2>4, <2>5, CallIs DEF Children
  <1>4. CASE TorReconcileRolebinding
    <2>1. pc = "roleBinding" /\ CreateOrUpdate("roleBinding", torRolebinding, "service")
      BY <1>4 DEF TorReconcileRolebinding, At
    <2>2. torRolebinding \in OurChild /\ torRolebinding.owner # "none"
      BY <1>1, <2>1, MadeChildren DEF torRolebinding
    <2>3. DealsWith("roleBinding", torRolebinding, "service")
      BY <1>1, <2>1, <2>2, CreateOrUpdateDeals DEF Children, WrittenOnce
    <2>4. InOrder("roleBinding", "service")
      BY <1>4 DEF TorReconcileRolebinding, At, InOrder, TorOrder
    <2>5. Suits("roleBinding", torRolebinding)
      BY <1>1, MadeSuits DEF torRolebinding, Children, MadeFromSpec, ObjectKinds
    <2> QED
      BY <2>1, <2>2, <2>3, <2>4, <2>5, CallIs DEF Children
  <1>5. CASE TorReconcileService
    <2>1. pc = "service" /\ CreateIfWanted("service", torService, copy.spec.ports # {}, "secret")
      BY <1>5 DEF TorReconcileService, At
    <2>2. torService \in OurChild /\ torService.owner # "none"
      BY <1>1, <2>1, MadeChildren DEF torService
    <2>3. DealsWith("service", torService, "secret")
      BY <1>1, <2>1, <2>2, CreateIfWantedDeals DEF Children, WrittenOnce, Mountable
    <2>4. InOrder("service", "secret")
      BY <1>5 DEF TorReconcileService, At, InOrder, TorOrder
    <2>5. Suits("service", torService)
      BY <1>1, MadeSuits DEF torService, Children, MadeFromSpec, ObjectKinds
    <2> QED
      BY <2>1, <2>2, <2>3, <2>4, <2>5, CallIs DEF Children
  <1>6. CASE TorReconcileConfigMap
    <2>1. pc = "configMap" /\ CreateOnly("configMap", torConfigMap, "deployment")
      BY <1>6 DEF TorReconcileConfigMap, At
    <2>2. torConfigMap \in OurChild /\ torConfigMap.owner # "none"
      <3>1. Hashed \in Secrets
        BY <1>1 DEF Hashed, Secrets, TypeOK
      <3> QED
        BY <1>1, <3>1, MadeChildren DEF torConfigMap
    <2>3. DealsWith("configMap", torConfigMap, "deployment")
      BY <1>1, <2>1, <2>2, CreateOnlyDeals DEF Children, WrittenOnce
    <2>4. InOrder("configMap", "deployment")
      BY <1>6 DEF TorReconcileConfigMap, At, InOrder, TorOrder
    <2>5. Suits("configMap", torConfigMap)
      BY <1>1, <1>6, MadeSuits DEF torConfigMap, Children, MadeFromSpec, ObjectKinds, TorReconcileConfigMap, At
    <2> QED
      BY <2>1, <2>2, <2>3, <2>4, <2>5, CallIs DEF Children
  <1>7. CASE TorReconcileDeployment
    <2>1. pc = "deployment" /\ CreateOrUpdate("deployment", torDeployment, "metrics")
      BY <1>7 DEF TorReconcileDeployment, At
    <2>2. torDeployment \in OurChild /\ torDeployment.owner # "none"
      BY <1>1, <2>1, MadeChildren DEF torDeployment
    <2>3. DealsWith("deployment", torDeployment, "metrics")
      BY <1>1, <2>1, <2>2, CreateOrUpdateDeals DEF Children, WrittenOnce
    <2>4. InOrder("deployment", "metrics")
      BY <1>7 DEF TorReconcileDeployment, At, InOrder, TorOrder
    <2>5. Suits("deployment", torDeployment)
      BY <1>1, MadeSuits DEF torDeployment, Children, MadeFromSpec, ObjectKinds
    <2> QED
      BY <2>1, <2>2, <2>3, <2>4, <2>5, CallIs DEF Children
  <1>8. CASE TorReconcileMetricsService
    <2>1. pc = "metrics" /\ CreateIfWanted("metrics", torMetricsService, "metrics" \in copy.spec.ports, "monitor")
      BY <1>8 DEF TorReconcileMetricsService, At
    <2>2. torMetricsService \in OurChild /\ torMetricsService.owner # "none"
      BY <1>1, <2>1, MadeChildren DEF torMetricsService
    <2>3. DealsWith("metrics", torMetricsService, "monitor")
      BY <1>1, <2>1, <2>2, CreateIfWantedDeals DEF Children, WrittenOnce, Mountable
    <2>4. InOrder("metrics", "monitor")
      BY <1>8 DEF TorReconcileMetricsService, At, InOrder, TorOrder
    <2>5. Suits("metrics", torMetricsService)
      BY <1>1, MadeSuits DEF torMetricsService, Children, MadeFromSpec, ObjectKinds
    <2> QED
      BY <2>1, <2>2, <2>3, <2>4, <2>5, CallIs DEF Children
  <1>9. CASE TorReconcileServiceMonitor
    <2>1. pc = "monitor" /\ ServiceMonitor(torServiceMonitor, "status")
      BY <1>9 DEF TorReconcileServiceMonitor, At
    <2>2. torServiceMonitor \in OurChild /\ torServiceMonitor.owner # "none"
      BY <1>1, <2>1, MadeChildren DEF torServiceMonitor
    <2>3. DealsWith("monitor", torServiceMonitor, "status")
      BY <1>1, <2>1, <2>2, ServiceMonitorDeals DEF Children, WrittenOnce, Mountable
    <2>4. InOrder("monitor", "status")
      BY <1>9 DEF TorReconcileServiceMonitor, At, InOrder, TorOrder
    <2>5. Suits("monitor", torServiceMonitor)
      BY <1>1, MadeSuits DEF torServiceMonitor, Children, MadeFromSpec, ObjectKinds
    <2> QED
      BY <2>1, <2>2, <2>3, <2>4, <2>5, CallIs DEF Children
  <1> QED
    BY <1>2, <1>3, <1>4, <1>5, <1>6, <1>7, <1>8, <1>9

(***************************************************************************)
(* reconcileControlSecret: whichever password was drawn, the one the        *)
(* reconcile goes on with, if any, is the user's or the stored one.         *)
(***************************************************************************)
LEMMA TorControlSecretKeeps ==
    ASSUME IInv, TorReconcileControlSecret
    PROVE  Keeps
  <1> DEFINE stored(got, password) == IF got = Absent THEN password ELSE got.key
             refused(got) == got = Absent /\ children["secret"] # Absent
             used(got, password) == InUse(stored(got, password))
             on(got, password) == /\ pc' = "configMap" /\ UNCHANGED queued
                                  /\ copy' = [copy EXCEPT !.key = used(got, password)]
  <1>1. PICK got \in Versions("secret"), password \in Passwords :
            /\ Get("secret", got)
            /\ children' = IF got = Absent /\ ~refused(got)
                           THEN [children EXCEPT !["secret"] = torSecret(password)] ELSE children
            /\ \/ (refused(got) \/ Dangling) /\ Requeue
               \/ ~refused(got) /\ ~Dangling /\ on(got, password)
    BY DEF TorReconcileControlSecret
  <1>2. /\ kind = "Tor" /\ pc = "secret" /\ UNCHANGED <<kind, obj, world, cache, halted>>
        /\ "secret" \in Children \ {"monitor"} /\ "secret" \notin {"configMap", "deployment"}
    BY DEF TorReconcileControlSecret, At, others, Children
  <1>3. Known /\ TypeOK /\ NoOwnerMeansAbsent /\ SeenSound
    BY DEF IInv, Known
  <1>4. /\ got \in ChildType
        /\ seen' \in [Children -> ChildType] /\ faults' \in 0 .. MaxFaults
        /\ seen'["secret"].owner = got.owner /\ seen'["secret"].key = got.key
        /\ got = Absent => seen'["secret"] = Absent
        /\ got.owner = "none" => got = Absent
        /\ \A d \in Children \ {"secret"} : seen'[d] = seen[d]
    BY <1>1, <1>2, <1>3, GetShows
  <1>5. /\ torSecret(password) \in ChildType
        /\ torSecret(password).owner = "Tor" /\ torSecret(password).key = password
        /\ torSecret(password).from = 0
    BY BoundsAssumption DEF torSecret, Keyed, ChildType, ControllerKinds, ObjectKinds, Secrets
  <1>6. /\ children' \in [Children -> ChildType]
        /\ \A d \in Children \ {"secret"} : children'[d] = children[d]
        /\ children["secret"] # Absent => children'["secret"] = children["secret"]
        /\ children'["secret"] \in {children["secret"], torSecret(password)}
    BY <1>1, <1>2, <1>3, <1>5 DEF TypeOK
  <1>7. NoOwnerMeansAbsent'
    BY <1>3, <1>4, <1>5, <1>6 DEF NoOwnerMeansAbsent
  <1>8. SeenSound'
    <2> SUFFICES ASSUME obj.exists
                 PROVE  SeenSound'
      BY <1>2 DEF SeenSound
    <2>1. /\ Ours(got) => Ours(children["secret"])
          /\ got.owner = "other" => children["secret"].owner = "other"
          /\ got # Absent => children["secret"] # Absent /\ got.key = children["secret"].key
      BY <1>1, <1>2, <1>3, GetSound
    <2>2. ~Ours(Absent) /\ Absent.owner # "other"
      BY DEF Ours, Absent, ControllerKinds, ObjectKinds
    <2>3. ASSUME NEW d \in Children \ {"monitor"}
          PROVE  /\ Ours(seen'[d]) => Ours(children'[d])
                 /\ seen'[d].owner = "other" => children'[d].owner = "other"
      <3>1. CASE d = "secret"
        BY <1>4, <1>6, <2>1, <2>2, <3>1 DEF Ours
      <3>2. CASE d # "secret"
        BY <1>3, <1>4, <1>6, <2>3, <3>2 DEF SeenSound, Ours
      <3> QED
        BY <3>1, <3>2
    <2>4. seen'["secret"] # Absent => seen'["secret"].key = children'["secret"].key
      BY <1>4, <1>6, <2>1
    <2> QED
      BY <1>2, <2>3, <2>4 DEF SeenSound, Ours
  <1>9. /\ NoCopy \in [gen : 0 .. cache.gen, spec : SpecType, fresh : BOOLEAN,
                       hostname : Keys \cup {NoKey}, key : Secrets]
        /\ NoCopy.fresh = FALSE
    <2>1. cache.gen \in Nat
      BY <1>3 DEF TypeOK
    <2> QED
      BY <2>1 DEF NoCopy, NoSpec, SpecType, Secrets
  <1>10. TypeOK'
    <2>1. /\ pc' \in {"idle", "configMap"} /\ queued' \in BOOLEAN
          /\ copy' \in [gen : 0 .. cache.gen, spec : SpecType, fresh : BOOLEAN,
                        hostname : Keys \cup {NoKey}, key : Secrets]
          /\ pc' # "idle" => copy'.spec.ports \cap ClientOrServer # {}
      <3>1. CASE Requeue
        BY <1>9, <3>1 DEF Requeue
      <3>2. CASE on(got, password)
        <4>1. used(got, password) \in Secrets
          BY <1>4 DEF ChildType, Secrets, InUse
        <4>2. copy.spec.ports \cap ClientOrServer # {}
          BY <1>2, <1>3 DEF TypeOK
        <4> QED
          BY <1>3, <3>2, <4>1, <4>2 DEF TypeOK
      <3> QED
        BY <1>1, <3>1, <3>2
    <2>2. \A d \in Children : children'[d].from <= obj.gen
      BY <1>3, <1>5, <1>6 DEF TypeOK
    <2> QED
      BY <1>2, <1>3, <1>4, <1>6, <2>1, <2>2 DEF TypeOK, Children
  <1>11. FreshSound'
    <2>1. copy'.fresh => copy'.hostname = copy.hostname /\ copy.fresh
      <3>1. CASE Requeue
        BY <1>9, <3>1 DEF Requeue
      <3>2. CASE on(got, password)
        BY <1>3, <3>2 DEF TypeOK
      <3> QED
        BY <1>1, <3>1, <3>2
    <2> QED
      BY <1>2, <2>1 DEF FreshSound, Current, IInv, Known
  <1>12. SuppliesInTime'
    BY <1>1, <1>2, <1>6 DEF SuppliesInTime, IInv, Requeue, Children
  <1>13. DeploymentSupplied'
    BY <1>2, <1>6 DEF DeploymentSupplied, Supplied, Mounts, TorMounts, Ours, IInv, Children
  <1>14. PasswordSound'
    <2> SUFFICES ASSUME obj.exists
                 PROVE  PasswordSound'
      BY <1>2 DEF PasswordSound
    <2>1. ASSUME pc' = "configMap"
          PROVE  /\ children'["secret"] # Absent
                 /\ copy'.key \in {NoKey, Given, children'["secret"].key}
      <3>1. ~refused(got) /\ on(got, password)
        BY <1>1, <2>1 DEF Requeue
      <3>2. copy'.key \in {NoKey, Given, stored(got, password)}
        BY <1>3, <3>1 DEF TypeOK, InUse
      <3>3. CASE got = Absent
        <4>1. children'["secret"] = torSecret(password)
          BY <1>1, <1>2, <1>3, <3>1, <3>3 DEF TypeOK
        <4> QED
          BY <1>5, <3>2, <3>3, <4>1 DEF Absent
      <3>4. CASE got # Absent
        BY <1>1, <1>2, <1>3, <1>6, <3>2, <3>4, GetSound
      <3> QED
        BY <3>3, <3>4
    <2>2. children'["configMap"].owner = "Tor" =>
              /\ children'["secret"] # Absent
              /\ children'["configMap"].key \in {NoKey, Given, children'["secret"].key}
      BY <1>2, <1>6 DEF PasswordSound, IInv, Children
    <2> QED
      BY <1>2, <2>1, <2>2 DEF PasswordSound
  <1>15. ForeignKept
    BY <1>6, <1>3 DEF ForeignKept, Absent
  <1>16. HostnameStays
    BY <1>2 DEF HostnameStays
  <1> QED
    BY <1>7, <1>8, <1>10, <1>11, <1>12, <1>13, <1>14, <1>15, <1>16 DEF Keeps, IInv, Known

(***************************************************************************)
(* Steps that leave the children alone, and begin or end a reconcile or     *)
(* leave it where it is.                                                    *)
(***************************************************************************)
LEMMA ChildrenLeftAlone ==
    ASSUME IInv, UNCHANGED <<kind, children>>, obj'.exists => obj.exists,
           \/ pc' \in {"idle", "rules", "auth", "status", FirstStep[kind]}
           \/ pc' = pc /\ copy'.key = copy.key
    PROVE  SuppliesInTime' /\ DeploymentSupplied' /\ PasswordSound'
  <1>1. /\ kind' = kind /\ children' = children /\ kind \in ObjectKinds
        /\ Mounts' = Mounts
    BY KindIsOne DEF IInv, Known, Mounts
  <1>2. SuppliesInTime'
    BY <1>1 DEF IInv, SuppliesInTime, FirstStep, ObjectKinds
  <1>3. DeploymentSupplied'
    BY <1>1 DEF IInv, DeploymentSupplied, Supplied, Ours
  <1>4. PasswordSound'
    BY <1>1 DEF IInv, PasswordSound, FirstStep, ObjectKinds
  <1> QED
    BY <1>2, <1>3, <1>4

(***************************************************************************)
(* Steps that leave children and caches of children alone.                  *)
(***************************************************************************)
LEMMA CachesLeftAlone ==
    ASSUME Known, UNCHANGED <<children, seen>>, obj'.exists => obj.exists
    PROVE  NoOwnerMeansAbsent' /\ SeenSound'
  BY DEF Known, NoOwnerMeansAbsent, SeenSound, Ours

(***************************************************************************)
(* The cache is asked for a child that is left alone.                       *)
(***************************************************************************)
LEMMA LookedUp ==
    ASSUME Known, NEW c \in Children \ {"monitor"}, NEW got \in Versions(c), Get(c, got),
           UNCHANGED children, obj'.exists => obj.exists
    PROVE  /\ NoOwnerMeansAbsent' /\ SeenSound'
           /\ seen' \in [Children -> ChildType] /\ faults' \in 0 .. MaxFaults
  <1>1. TypeOK /\ NoOwnerMeansAbsent /\ SeenSound
    BY DEF Known
  <1>2. /\ seen' \in [Children -> ChildType] /\ faults' \in 0 .. MaxFaults
        /\ seen'[c].owner = got.owner /\ seen'[c].key = got.key
        /\ got = Absent => seen'[c] = Absent
        /\ got.owner = "none" => got = Absent
        /\ \A d \in Children \ {c} : seen'[d] = seen[d]
    BY <1>1, GetShows
  <1>3. NoOwnerMeansAbsent'
    BY <1>1, <1>2 DEF NoOwnerMeansAbsent
  <1>4. SeenSound'
    <2> SUFFICES ASSUME obj'.exists
                 PROVE  SeenSound'
      BY DEF SeenSound
    <2>1. /\ Ours(got) => Ours(children[c])
          /\ got.owner = "other" => children[c].owner = "other"
          /\ c = "secret" /\ got # Absent => got.key = children[c].key
      BY GetSound
    <2>2. ASSUME NEW d \in Children \ {"monitor"}
          PROVE  /\ Ours(seen'[d]) => Ours(children'[d])
                 /\ seen'[d].owner = "other" => children'[d].owner = "other"
      BY <1>1, <1>2, <2>1, <2>2 DEF SeenSound, Ours
    <2>3. seen'["secret"] # Absent => seen'["secret"].key = children'["secret"].key
      BY <1>1, <1>2, <2>1 DEF SeenSound, Children
    <2> QED
      BY <2>2, <2>3 DEF SeenSound, Ours
  <1> QED
    BY <1>2, <1>3, <1>4

(***************************************************************************)
(* The copy of no reconcile.                                                *)
(***************************************************************************)
CopyType == [gen : 0 .. cache.gen, spec : SpecType, fresh : BOOLEAN,
             hostname : Keys \cup {NoKey}, key : Secrets]

LEMMA NoCopyType ==
    ASSUME cache.gen \in Nat
    PROVE  NoCopy \in CopyType /\ NoCopy.fresh = FALSE
  BY DEF NoCopy, NoSpec, SpecType, Secrets, CopyType

(***************************************************************************)
(* The status is written from a copy that is not outdated: it takes nothing *)
(* back that others have written.                                           *)
(***************************************************************************)
LEMMA StatusUpdateKeeps ==
    ASSUME IInv, NEW STATE new, StatusUpdate(new), Done \/ Requeue,
           new = [obj EXCEPT !.target = new.target, !.hostname = new.hostname, !.listed = new.listed],
           new.target \in {"default", "real"}, new.hostname \in {obj.hostname, copy.hostname},
           new.listed \in BOOLEAN,
           NEW got \in Versions("service"), Get("service", got),
           UNCHANGED <<kind, world, children, halted>>
    PROVE  Keeps
  <1>1. Known /\ TypeOK /\ FreshSound
    BY DEF IInv, Known
  <1>2. /\ obj.exists /\ copy.fresh /\ obj' = new
        /\ cache' = [cache EXCEPT !.fresh = @ /\ new = obj]
        /\ pc' = "idle" /\ copy' = NoCopy /\ queued' \in BOOLEAN
    BY <1>1 DEF StatusUpdate, Done, Requeue, TypeOK
  <1>3. new.hostname = obj.hostname
    BY <1>1, <1>2 DEF FreshSound
  <1>4. /\ obj'.exists = obj.exists /\ obj'.gen = obj.gen /\ obj'.spec = obj.spec
        /\ obj'.hostname = obj.hostname
        /\ obj' \in [exists : BOOLEAN, gen : 1 .. MaxGeneration, spec : SpecType,
                     target : {"unset", "default", "real"}, hostname : Keys \cup {NoKey},
                     listed : BOOLEAN]
    BY <1>1, <1>2, <1>3 DEF TypeOK
  <1>5. /\ cache' \in [exists : BOOLEAN, gen : 1 .. obj.gen, spec : SpecType, fresh : BOOLEAN,
                       hostname : Keys \cup {NoKey}]
        /\ cache'.gen = cache.gen /\ cache'.exists = cache.exists /\ cache'.spec = cache.spec
        /\ cache'.hostname = cache.hostname /\ cache'.fresh = (cache.fresh /\ new = obj)
        /\ cache'.gen \in Nat
    <2> DEFINE still == cache.fresh /\ new = obj
    <2>1. still \in BOOLEAN /\ cache' = [cache EXCEPT !.fresh = still]
      BY <1>1, <1>2, Zenon DEF TypeOK
    <2>2. cache \in [exists : BOOLEAN, gen : 1 .. obj.gen, spec : SpecType, fresh : BOOLEAN,
                     hostname : Keys \cup {NoKey}] /\ obj.gen \in Nat
      BY <1>1 DEF TypeOK
    <2> HIDE DEF still
    <2>3. /\ cache' \in [exists : BOOLEAN, gen : 1 .. obj.gen, spec : SpecType, fresh : BOOLEAN,
                         hostname : Keys \cup {NoKey}]
          /\ cache'.gen = cache.gen /\ cache'.exists = cache.exists /\ cache'.spec = cache.spec
          /\ cache'.hostname = cache.hostname /\ cache'.fresh = still
          /\ cache'.gen \in Nat
      BY <2>1, <2>2
    <2> QED
      BY <2>3 DEF still
  <1>6. copy' \in CopyType' /\ copy'.fresh = FALSE
    BY <1>2, <1>5, NoCopyType DEF CopyType, NoCopy, NoSpec, SpecType, Secrets
  <1>7. FreshSound'
    <2>1. ASSUME cache'.fresh
          PROVE  cache' = Current'
      <3>1. cache.fresh /\ new = obj
        BY <1>5, <2>1
      <3>2. cache' = cache
        BY <1>1, <1>2, <3>1 DEF TypeOK
      <3> QED
        BY <1>1, <1>2, <3>1, <3>2 DEF FreshSound, Current
    <2> QED
      BY <1>6, <2>1 DEF FreshSound
  <1>8. /\ NoOwnerMeansAbsent' /\ SeenSound'
        /\ seen' \in [Children -> ChildType] /\ faults' \in 0 .. MaxFaults
    BY <1>1, <1>4, LookedUp DEF Children
  <1>9. TypeOK'
    BY <1>1, <1>2, <1>4, <1>5, <1>6, <1>8 DEF TypeOK, CopyType
  <1>10. SuppliesInTime' /\ DeploymentSupplied' /\ PasswordSound'
    BY <1>2, <1>4, ChildrenLeftAlone
  <1> QED
    BY <1>4, <1>7, <1>8, <1>9, <1>10 DEF Keeps, ForeignKept, HostnameStays, IInv, Known

(***************************************************************************)
(* The hostname of an OnionService is in the copy (reconcile's last lines,  *)
(* onionservice_controller.go).                                             *)
(***************************************************************************)
LEMMA OSStatusKeeps == ASSUME IInv, OSReportStatus PROVE Keeps
  <1>1. PICK got \in Versions("service") :
            /\ Get("service", got)
            /\ StatusUpdate([obj EXCEPT !.target = IF got = Absent THEN "default" ELSE "real",
                                        !.hostname = copy.hostname])
    BY DEF OSReportStatus
  <1> DEFINE new == [obj EXCEPT !.target = IF got = Absent THEN "default" ELSE "real",
                                !.hostname = copy.hostname]
  <1>2. /\ new = [obj EXCEPT !.target = new.target, !.hostname = new.hostname,
                             !.listed = new.listed]
        /\ new.target \in {"default", "real"} /\ new.hostname = copy.hostname
        /\ new.listed \in BOOLEAN
    BY DEF IInv, Known, TypeOK
  <1> HIDE DEF new
  <1>3. StatusUpdate(new)
    BY <1>1 DEF new
  <1>4. Done /\ UNCHANGED <<kind, world, children, halted>>
    BY DEF OSReportStatus
  <1> QED
    BY <1>1, <1>2, <1>3, <1>4, StatusUpdateKeeps

(***************************************************************************)
(* The status of an OnionBalancedService, complete or to be written again.  *)
(***************************************************************************)
LEMMA OBSStatusKeeps == ASSUME IInv, OBSReportStatus PROVE Keeps
  <1>1. PICK got \in Versions("service") :
            /\ Get("service", got)
            /\ StatusUpdate([obj EXCEPT !.target = IF got = Absent THEN "default" ELSE "real",
                                        !.listed = world.published])
            /\ IF world.published THEN Done ELSE Requeue
    BY DEF OBSReportStatus
  <1> DEFINE new == [obj EXCEPT !.target = IF got = Absent THEN "default" ELSE "real",
                                !.listed = world.published]
  <1>2. /\ new = [obj EXCEPT !.target = new.target, !.hostname = new.hostname,
                             !.listed = new.listed]
        /\ new.target \in {"default", "real"} /\ new.hostname = obj.hostname
        /\ new.listed \in BOOLEAN
    BY DEF IInv, Known, TypeOK
  <1> HIDE DEF new
  <1>3. StatusUpdate(new)
    BY <1>1 DEF new
  <1>4. (Done \/ Requeue) /\ UNCHANGED <<kind, world, children, halted>>
    BY <1>1 DEF OBSReportStatus
  <1> QED
    BY <1>1, <1>2, <1>3, <1>4, StatusUpdateKeeps

(***************************************************************************)
(* The status of a Tor object, once the cache shows its service.            *)
(***************************************************************************)
LEMMA TorStatusKeeps == ASSUME IInv, TorReportStatus PROVE Keeps
  <1>1. PICK got \in Versions("service") : Get("service", got)
    BY DEF TorReportStatus
  <1> DEFINE new == [obj EXCEPT !.target = "real"]
  <1>2. /\ new = [obj EXCEPT !.target = new.target, !.hostname = new.hostname,
                             !.listed = new.listed]
        /\ new.target \in {"default", "real"} /\ new.hostname = obj.hostname
        /\ new.listed \in BOOLEAN
    BY DEF IInv, Known, TypeOK
  <1> HIDE DEF new
  <1>3. StatusUpdate(new)
    BY DEF new, TorReportStatus
  <1>4. Done /\ UNCHANGED <<kind, world, children, halted>>
    BY DEF TorReportStatus
  <1> QED
    BY <1>1, <1>2, <1>3, <1>4, StatusUpdateKeeps

(***************************************************************************)
(* A reconcile that ends, passes the check of the rules, or stays where it  *)
(* is, without a change of anything at the API server.                      *)
(***************************************************************************)
LEMMA NothingWrittenKeeps ==
    ASSUME IInv, UNCHANGED <<kind, obj, world, children, cache>>,
           NoOwnerMeansAbsent', SeenSound', seen' \in [Children -> ChildType],
           faults' \in 0 .. MaxFaults, halted' \in BOOLEAN, queued' \in BOOLEAN,
           \/ pc' = "idle" /\ copy' = NoCopy
           \/ kind = "OnionService" /\ pc' = "auth" /\ copy' = copy
           \/ UNCHANGED <<pc, copy>>
    PROVE  Keeps
  <1>1. Known /\ TypeOK /\ FreshSound
    BY DEF IInv, Known
  <1>2. cache.gen \in Nat /\ copy \in CopyType
    BY <1>1 DEF TypeOK, CopyType
  <1>3. copy' \in CopyType /\ (copy'.fresh => copy' = copy)
    BY <1>2, NoCopyType
  <1>4. TypeOK'
    BY <1>1, <1>3 DEF TypeOK, CopyType, Children
  <1>5. FreshSound'
    BY <1>1, <1>3 DEF FreshSound, Current
  <1>6. SuppliesInTime' /\ DeploymentSupplied' /\ PasswordSound'
    BY ChildrenLeftAlone
  <1> QED
    BY <1>4, <1>5, <1>6 DEF Keeps, ForeignKept, HostnameStays, IInv, Known

(***************************************************************************)
(* The check of the rules, whatever it finds.                               *)
(***************************************************************************)
LEMMA RulesKeep == ASSUME IInv, OSTargetMissing \/ OSPortMissing \/ OSRulesHold PROVE Keeps
  <1>1. Known /\ TypeOK
    BY DEF IInv, Known
  <1>2. UNCHANGED <<kind, obj, world, children, seen, cache, faults>>
    BY DEF OSTargetMissing, OSPortMissing, OSRulesHold
  <1>3. NoOwnerMeansAbsent' /\ SeenSound'
    BY <1>1, <1>2, CachesLeftAlone
  <1>4. /\ halted' \in BOOLEAN /\ queued' \in BOOLEAN
        /\ \/ pc' = "idle" /\ copy' = NoCopy
           \/ kind = "OnionService" /\ pc' = "auth" /\ copy' = copy
    BY <1>1 DEF OSTargetMissing, OSPortMissing, OSRulesHold, Done, Requeue, Goto, At, TypeOK
  <1>5. seen' \in [Children -> ChildType] /\ faults' \in 0 .. MaxFaults
    BY <1>1, <1>2 DEF TypeOK
  <1> QED
    BY <1>2, <1>3, <1>4, <1>5, NothingWrittenKeeps

(***************************************************************************)
(* The service of a Tor object is not in the cache when its status is due.  *)
(***************************************************************************)
LEMMA TorServiceMissingKeeps == ASSUME IInv, TorServiceMissing PROVE Keeps
  <1>1. Known /\ TypeOK /\ "service" \in Children \ {"monitor"}
    BY DEF IInv, Known, Children
  <1>2. /\ UNCHANGED <<kind, obj, world, children, cache, halted>>
        /\ Absent \in Versions("service") /\ Get("service", Absent)
        /\ pc' = "idle" /\ copy' = NoCopy /\ queued' = TRUE
    BY DEF TorServiceMissing, Requeue
  <1>3. /\ NoOwnerMeansAbsent' /\ SeenSound'
        /\ seen' \in [Children -> ChildType] /\ faults' \in 0 .. MaxFaults
    BY <1>1, <1>2, LookedUp
  <1>4. halted' \in BOOLEAN
    BY <1>1, <1>2 DEF TypeOK
  <1> QED
    BY <1>2, <1>3, <1>4, NothingWrittenKeeps

(***************************************************************************)
(* A reconcile that fails, at its status or anywhere, and a request for an  *)
(* object that is gone.                                                     *)
(***************************************************************************)
LEMMA FailureKeeps ==
    ASSUME IInv, StatusConflict \/ CallFails \/ FetchNotFound \/ UNCHANGED vars
    PROVE  Keeps
  <1>1. Known /\ TypeOK
    BY DEF IInv, Known
  <1>2. /\ UNCHANGED <<kind, obj, world, children, seen, cache, halted>>
        /\ \/ pc' = "idle" /\ copy' = NoCopy
           \/ UNCHANGED <<pc, copy>>
    BY DEF StatusConflict, CallFails, FetchNotFound, Requeue, vars
  <1>3. queued' \in BOOLEAN
    BY <1>1 DEF StatusConflict, CallFails, FetchNotFound, Requeue, vars, TypeOK
  <1>4. faults' \in 0 .. MaxFaults
    BY <1>1, FaultType DEF StatusConflict, CallFails, FetchNotFound, vars, TypeOK
  <1>5. NoOwnerMeansAbsent' /\ SeenSound'
    BY <1>1, <1>2, CachesLeftAlone
  <1>6. seen' \in [Children -> ChildType] /\ halted' \in BOOLEAN
    BY <1>1, <1>2 DEF TypeOK
  <1> QED
    BY <1>2, <1>3, <1>4, <1>5, <1>6, NothingWrittenKeeps

---------------------------------------------------------------------------
(* The other steps of the operator *)

(***************************************************************************)
(* What the informer delivers has the types of a cache.                     *)
(***************************************************************************)
LEMMA CurrentType ==
    ASSUME TypeOK
    PROVE  /\ Current \in [exists : BOOLEAN, gen : 1 .. obj.gen, spec : SpecType,
                            fresh : BOOLEAN, hostname : Keys \cup {NoKey}]
           /\ Current.gen = obj.gen /\ obj.gen \in Nat
           /\ \A n \in 0 .. cache.gen : n \in 0 .. obj.gen
  <1>1. obj.gen \in 1 .. obj.gen /\ obj.gen \in Nat
    BY DEF TypeOK
  <1>2. cache.gen \in 1 .. obj.gen
    BY DEF TypeOK
  <1> QED
    BY <1>1, <1>2 DEF Current, TypeOK

(***************************************************************************)
(* The informer catches up.                                                 *)
(***************************************************************************)
LEMMA SyncKeeps == ASSUME IInv, Sync PROVE Keeps
  <1>1. Known /\ TypeOK /\ FreshSound
    BY DEF IInv, Known
  <1>2. cache' = Current /\ UNCHANGED <<kind, obj, world, children, seen, pc, copy, halted, faults>>
    BY DEF Sync
  <1>3. queued' \in BOOLEAN
    BY DEF Sync
  <1>4. copy' \in CopyType'
    BY <1>1, <1>2, CurrentType DEF TypeOK, CopyType
  <1>5. TypeOK'
    BY <1>1, <1>2, <1>3, <1>4, CurrentType DEF TypeOK, CopyType
  <1>6. FreshSound'
    BY <1>1, <1>2 DEF FreshSound, Current
  <1>7. NoOwnerMeansAbsent' /\ SeenSound'
    BY <1>1, <1>2, CachesLeftAlone
  <1>8. SuppliesInTime' /\ DeploymentSupplied' /\ PasswordSound'
    BY <1>2, ChildrenLeftAlone
  <1> QED
    BY <1>2, <1>5, <1>6, <1>7, <1>8 DEF Keeps, ForeignKept, HostnameStays, IInv, Known

(***************************************************************************)
(* With its defaults a Tor object has a client or server port.              *)
(***************************************************************************)
LEMMA DefaultsServe ==
    ASSUME NEW ports \in SUBSET (ClientOrServer \cup {"control", "metrics"})
    PROVE  /\ SetTorDefaults(ports) \in SUBSET (ClientOrServer \cup {"control", "metrics"})
           /\ SetTorDefaults(ports) \cap ClientOrServer # {}
  BY DEF SetTorDefaults, ClientOrServer

(***************************************************************************)
(* A reconcile begins with a copy of what the cache shows.                  *)
(***************************************************************************)
LEMMA FetchKeeps == ASSUME IInv, Fetch PROVE Keeps
  <1>1. Known /\ TypeOK /\ FreshSound /\ kind \in ObjectKinds
    BY KindIsOne DEF IInv, Known
  <1> DEFINE spec == IF kind = "Tor" THEN [cache.spec EXCEPT !.ports = SetTorDefaults(@)]
                                     ELSE cache.spec
  <1>2. /\ pc' = FirstStep[kind] /\ queued' = FALSE
        /\ UNCHANGED <<kind, obj, world, children, seen, cache, faults>>
        /\ copy' = [gen |-> cache.gen, fresh |-> cache.fresh, hostname |-> cache.hostname,
                    key |-> NoKey, spec |-> spec]
        /\ halted' = FALSE
    BY DEF Fetch
  <1>3. spec \in SpecType /\ (kind = "Tor" => spec.ports \cap ClientOrServer # {})
    <2>1. cache.spec \in SpecType
      BY <1>1 DEF TypeOK
    <2>2. CASE kind = "Tor"
      <3>1. cache.spec.ports \in SUBSET (ClientOrServer \cup {"control", "metrics"})
        BY <2>1 DEF SpecType
      <3>2. spec = [cache.spec EXCEPT !.ports = SetTorDefaults(cache.spec.ports)]
        BY <2>2
      <3> QED
        BY <2>1, <3>1, <3>2, DefaultsServe DEF SpecType
    <2> QED
      BY <2>1, <2>2
  <1> HIDE DEF spec
  <1>4. copy' \in CopyType
    BY <1>1, <1>2, <1>3 DEF TypeOK, CopyType, Secrets
  <1>5. pc' \in {"rules", "secret", "serviceAccount"}
    BY <1>1, <1>2 DEF FirstStep, ObjectKinds
  <1>6. TypeOK'
    <2>1. copy' \in CopyType' /\ copy'.spec = spec
      BY <1>2, <1>4 DEF CopyType
    <2>2. kind' = "Tor" /\ pc' # "idle" => copy'.spec.ports \cap ClientOrServer # {}
      BY <1>2, <1>3, <2>1
    <2>3. pc' \in {"idle", "rules", "status"} \cup Children
      BY <1>5 DEF Children
    <2>4. queued' \in BOOLEAN /\ halted' \in BOOLEAN
      BY <1>2
    <2>5. TypeOK
      BY <1>1
    <2> QED
      BY <1>2, <2>1, <2>2, <2>3, <2>4, <2>5 DEF TypeOK, CopyType
  <1>7. FreshSound'
    BY <1>1, <1>2 DEF FreshSound, Current
  <1>8. NoOwnerMeansAbsent' /\ SeenSound'
    BY <1>1, <1>2, CachesLeftAlone
  <1>9. SuppliesInTime' /\ DeploymentSupplied' /\ PasswordSound'
    BY <1>2, ChildrenLeftAlone
  <1> QED
    BY <1>2, <1>6, <1>7, <1>8, <1>9 DEF Keeps, ForeignKept, HostnameStays, IInv, Known

(***************************************************************************)
(* After a restart the caches show everything as it is.                     *)
(***************************************************************************)
LEMMA CrashKeeps == ASSUME IInv, Crash PROVE Keeps
  <1>1. Known /\ TypeOK
    BY DEF IInv, Known
  <1>2. /\ seen' = children /\ cache' = Current /\ queued' = obj.exists
        /\ pc' = "idle" /\ copy' = NoCopy /\ halted' = FALSE
        /\ UNCHANGED <<kind, obj, world, children>>
    BY DEF Crash
  <1>3. faults' \in 0 .. MaxFaults
    BY <1>1, FaultType DEF Crash, TypeOK
  <1>4. copy' \in CopyType' /\ ~copy'.fresh
    <2>1. cache'.gen \in Nat
      BY <1>1, <1>2, CurrentType
    <2> QED
      BY <1>2, <2>1 DEF CopyType, NoCopy, NoSpec, SpecType, Secrets
  <1>5. TypeOK'
    <2>1. obj.exists \in BOOLEAN
      BY <1>1 DEF TypeOK
    <2>2. queued' \in BOOLEAN
      BY <1>2, <2>1, Zenon
    <2>3. /\ cache' \in [exists : BOOLEAN, gen : 1 .. obj.gen, spec : SpecType,
                         fresh : BOOLEAN, hostname : Keys \cup {NoKey}]
          /\ pc' = "idle" /\ halted' = FALSE /\ seen' = children
      BY <1>1, <1>2, CurrentType
    <2>4. UNCHANGED <<kind, obj, world, children>>
      BY <1>2
    <2> QED
      BY <1>1, <1>3, <1>4, <2>2, <2>3, <2>4 DEF TypeOK, CopyType
  <1>6. FreshSound'
    BY <1>2, <1>4 DEF FreshSound, Current
  <1>7. NoOwnerMeansAbsent' /\ SeenSound'
    BY <1>1, <1>2 DEF Known, NoOwnerMeansAbsent, SeenSound, Ours
  <1>8. SuppliesInTime' /\ DeploymentSupplied' /\ PasswordSound'
    BY <1>2, ChildrenLeftAlone
  <1> QED
    BY <1>2, <1>5, <1>6, <1>7, <1>8 DEF Keeps, ForeignKept, HostnameStays, IInv, Known

---------------------------------------------------------------------------
(* The steps of everybody else *)

ObjType == [exists : BOOLEAN, gen : 1 .. MaxGeneration, spec : SpecType,
            target : {"unset", "default", "real"}, hostname : Keys \cup {NoKey},
            listed : BOOLEAN]

(***************************************************************************)
(* Whoever writes the object outdates the cache and the copy.               *)
(***************************************************************************)
LEMMA OutdatedKeeps ==
    ASSUME IInv, Outdate, UNCHANGED <<kind, world, children, seen, queued, pc, halted, faults>>,
           obj' \in ObjType, obj.gen <= obj'.gen, obj'.exists => obj.exists, HostnameStays
    PROVE  Keeps
  <1>1. Known /\ TypeOK
    BY DEF IInv, Known
  <1>2. /\ cache' \in [exists : BOOLEAN, gen : 1 .. obj'.gen, spec : SpecType,
                       fresh : BOOLEAN, hostname : Keys \cup {NoKey}]
        /\ cache'.gen = cache.gen /\ cache'.fresh = FALSE
    <2>1. cache.gen \in 1 .. obj'.gen
      BY <1>1 DEF TypeOK, ObjType
    <2> QED
      BY <1>1, <2>1 DEF TypeOK, Outdate
  <1>3. copy' \in CopyType' /\ copy'.fresh = FALSE /\ copy'.spec = copy.spec /\ copy'.key = copy.key
    BY <1>1, <1>2 DEF TypeOK, Outdate, CopyType
  <1>4. \A c \in Children : children'[c].from <= obj'.gen
    BY <1>1 DEF TypeOK, ObjType, ChildType
  <1>5. TypeOK'
    BY <1>1, <1>2, <1>3, <1>4 DEF TypeOK, CopyType, ObjType
  <1>6. FreshSound'
    BY <1>2, <1>3 DEF FreshSound
  <1>7. NoOwnerMeansAbsent' /\ SeenSound'
    BY <1>1, CachesLeftAlone
  <1>8. SuppliesInTime' /\ DeploymentSupplied' /\ PasswordSound'
    BY <1>3, ChildrenLeftAlone
  <1> QED
    BY <1>5, <1>6, <1>7, <1>8 DEF Keeps, ForeignKept, IInv, Known

(***************************************************************************)
(* A user writes the spec or deletes the object.                            *)
(***************************************************************************)
LEMMA UserKeeps == ASSUME IInv, EditSpec \/ Delete PROVE Keeps
  <1>1. TypeOK /\ obj \in ObjType
    BY DEF IInv, Known, TypeOK, ObjType
  <1>2. CASE EditSpec
    <2>1. PICK spec \in Specs[kind] : obj' = [obj EXCEPT !.gen = @ + 1, !.spec = spec]
      BY <1>2 DEF EditSpec
    <2>2. spec \in SpecType
      BY <1>1, <2>1, SpecsAssumption DEF TypeOK
    <2>3. obj.gen \in Nat /\ obj.gen + 1 \in 1 .. MaxGeneration
      <3>1. obj.gen \in 1 .. MaxGeneration
        BY <1>1 DEF ObjType
      <3>2. obj.gen < MaxGeneration
        BY <1>2 DEF EditSpec
      <3> QED
        BY <3>1, <3>2, BoundsAssumption
    <2>4. /\ obj' \in ObjType /\ obj'.gen = obj.gen + 1
          /\ obj'.exists = obj.exists /\ obj'.hostname = obj.hostname
      BY <1>1, <2>1, <2>2, <2>3 DEF ObjType
    <2>5. obj.gen <= obj'.gen
      BY <2>3, <2>4
    <2>6. Outdate /\ UNCHANGED <<kind, world, children, seen, queued, pc, halted, faults>>
      BY <1>2 DEF EditSpec
    <2> QED
      BY <2>4, <2>5, <2>6, OutdatedKeeps DEF HostnameStays
  <1>3. CASE Delete
    <2>1. /\ obj' \in ObjType /\ obj'.gen = obj.gen /\ obj.gen \in Nat
          /\ obj'.exists = FALSE /\ obj'.hostname = obj.hostname
      <3>1. obj' = [obj EXCEPT !.exists = FALSE]
        BY <1>3 DEF Delete
      <3>2. obj' \in ObjType
        BY <1>1, <3>1 DEF ObjType
      <3>3. obj'.gen = obj.gen /\ obj'.exists = FALSE /\ obj'.hostname = obj.hostname
        BY <1>1, <3>1 DEF ObjType
      <3>4. obj.gen \in Nat
        BY <1>1, BoundsAssumption DEF ObjType
      <3> QED
        BY <3>2, <3>3, <3>4
    <2>2. Outdate /\ UNCHANGED <<kind, world, children, seen, queued, pc, halted, faults>>
      BY <1>3 DEF Delete
    <2> QED
      BY <2>1, <2>2, OutdatedKeeps DEF HostnameStays
  <1> QED
    BY <1>2, <1>3

(***************************************************************************)
(* The agent publishes the hostname where there is none.                    *)
(***************************************************************************)
LEMMA AgentPublishesKeeps == ASSUME IInv, AgentPublishes PROVE Keeps
  <1>1. obj \in ObjType
    BY DEF IInv, Known, TypeOK, ObjType
  <1>2. /\ obj' = [obj EXCEPT !.hostname = children["secret"].key]
        /\ children["secret"].key \in Keys /\ obj.hostname = NoKey
        /\ Outdate /\ UNCHANGED <<kind, world, children, seen, queued, pc, halted, faults>>
    BY DEF AgentPublishes
  <1>3. obj' \in ObjType /\ obj'.exists = obj.exists /\ obj'.gen = obj.gen /\ obj.gen \in Nat
    BY <1>1, <1>2 DEF ObjType
  <1> QED
    BY <1>2, <1>3, OutdatedKeeps DEF HostnameStays

(***************************************************************************)
(* What the object refers to comes, changes or goes.                        *)
(***************************************************************************)
LEMMA WorldKeeps ==
    ASSUME IInv, ChangeTarget \/ ChangeRef \/ BackendsPublish
    PROVE  Keeps
  <1>1. Known /\ TypeOK /\ FreshSound
    BY DEF IInv, Known
  <1> DEFINE WorldType == [target : Targets \cup {NoTarget}, ref : RefTypes, crd : BOOLEAN,
                           published : BOOLEAN]
  <1>2. UNCHANGED <<kind, obj, children, seen, cache, queued, pc, copy, halted>>
    BY DEF ChangeTarget, ChangeRef, BackendsPublish, ChangeWorld
  <1>3. faults' \in 0 .. MaxFaults
    BY <1>1, FaultType DEF ChangeTarget, ChangeRef, BackendsPublish, TypeOK
  <1>4. world' \in WorldType
    <2>1. world \in WorldType
      BY <1>1 DEF TypeOK
    <2>2. CASE ChangeTarget
      BY <2>1, <2>2 DEF ChangeTarget, ChangeWorld
    <2>3. CASE ChangeRef
      BY <2>1, <2>3 DEF ChangeRef, ChangeWorld
    <2>4. CASE BackendsPublish
      BY <2>1, <2>4 DEF BackendsPublish, ChangeWorld
    <2> QED
      BY <2>2, <2>3, <2>4
  <1>5. TypeOK'
    BY <1>1, <1>2, <1>3, <1>4 DEF TypeOK
  <1>6. FreshSound'
    BY <1>1, <1>2 DEF FreshSound, Current
  <1>7. NoOwnerMeansAbsent' /\ SeenSound'
    BY <1>1, <1>2, CachesLeftAlone
  <1>8. SuppliesInTime' /\ DeploymentSupplied' /\ PasswordSound'
    BY <1>2, ChildrenLeftAlone
  <1> QED
    BY <1>2, <1>5, <1>6, <1>7, <1>8 DEF Keeps, ForeignKept, HostnameStays, IInv, Known

(***************************************************************************)
(* The garbage collector: nothing is promised of what it collects.          *)
(***************************************************************************)
LEMMA CollectKeeps == ASSUME IInv, Collect PROVE Keeps
  <1>1. Known /\ TypeOK /\ FreshSound
    BY DEF IInv, Known
  <1>2. /\ ~obj.exists
        /\ children' = [c \in Children |-> IF c \in Collectable THEN Absent ELSE children[c]]
        /\ UNCHANGED <<kind, obj, world, seen, cache, queued, pc, copy, halted, faults>>
    BY DEF Collect
  <1>3. Absent \in ChildType /\ Absent.from = 0
    BY BoundsAssumption DEF Absent, ChildType, Secrets
  <1>4. /\ children' \in [Children -> ChildType]
        /\ \A c \in Children : children'[c].from <= obj.gen
        /\ \A c \in Children : children'[c] \in {children[c], Absent}
    BY <1>1, <1>2, <1>3 DEF TypeOK
  <1>5. TypeOK'
    BY <1>1, <1>2, <1>4 DEF TypeOK
  <1>6. NoOwnerMeansAbsent'
    BY <1>1, <1>2, <1>4 DEF Known, NoOwnerMeansAbsent
  <1>7. FreshSound'
    BY <1>1, <1>2 DEF FreshSound, Current
  <1>8. SeenSound' /\ SuppliesInTime' /\ DeploymentSupplied' /\ PasswordSound'
    BY <1>2 DEF SeenSound, SuppliesInTime, DeploymentSupplied, PasswordSound
  <1> QED
    BY <1>2, <1>5, <1>6, <1>7, <1>8 DEF Keeps, ForeignKept, HostnameStays, IInv, Known

(***************************************************************************)
(* Somebody takes the name of a child that is not there.                    *)
(***************************************************************************)
LEMMA TakeNameKeeps == ASSUME IInv, NEW c \in Children, TakeName(c) PROVE Keeps
  <1>1. /\ Known /\ TypeOK /\ FreshSound /\ NoOwnerMeansAbsent /\ SeenSound
        /\ kind \in ObjectKinds
    BY KindIsOne DEF IInv, Known
  <1>2. /\ obj.exists /\ children[c] = Absent
        /\ UNCHANGED <<kind, obj, world, seen, cache, queued, pc, copy, halted>>
    BY DEF TakeName
  <1>3. faults' \in 0 .. MaxFaults
    BY <1>1, FaultType DEF TakeName, TypeOK
  <1>4. PICK new \in ChildType :
            /\ new.owner = "other" /\ new.from = 0
            /\ children' = [children EXCEPT ![c] = new]
    <2>1. SomeKey \in Secrets /\ NoKey \in Secrets
      BY KeysAssumption DEF SomeKey, Secrets
    <2>2. /\ Foreign(SomeKey) \in ChildType /\ Foreign(NoKey) \in ChildType
          /\ Foreign(SomeKey).owner = "other" /\ Foreign(NoKey).owner = "other"
          /\ Foreign(SomeKey).from = 0 /\ Foreign(NoKey).from = 0
      BY <2>1, BoundsAssumption DEF Foreign, ChildType
    <2> QED
      BY <2>2 DEF TakeName
  <1>5. /\ Absent.owner = "none" /\ ~Ours(Absent) /\ new # Absent /\ ~Ours(new)
        /\ "other" \notin ControllerKinds
    BY <1>4 DEF Absent, Ours, ControllerKinds, ObjectKinds
  <1>6. /\ children' \in [Children -> ChildType] /\ children'[c] = new
        /\ \A d \in Children \ {c} : children'[d] = children[d]
        /\ \A d \in Children : children'[d].from <= obj.gen
    BY <1>1, <1>4 DEF TypeOK
  <1>7. \A d \in Children : children[d] # Absent => d # c /\ children'[d] = children[d]
    BY <1>2, <1>6
  <1>8. TypeOK'
    BY <1>1, <1>2, <1>3, <1>6 DEF TypeOK
  <1>9. NoOwnerMeansAbsent'
    BY <1>1, <1>2, <1>4, <1>6 DEF NoOwnerMeansAbsent
  <1>10. SeenSound'
    <2>1. ASSUME NEW d \in Children \ {"monitor"}
          PROVE  /\ Ours(seen[d]) => Ours(children'[d])
                 /\ seen[d].owner = "other" => children'[d].owner = "other"
      BY <1>1, <1>2, <1>4, <1>5, <1>6 DEF SeenSound
    <2>2. ASSUME seen["secret"] # Absent
          PROVE  seen["secret"].key = children'["secret"].key
      <3>1. "secret" \in Children \ {"monitor"}
        BY DEF Children
      <3>2. seen["secret"].owner # "none" /\ seen["secret"] \in ChildType
        BY <1>1, <2>2, <3>1 DEF NoOwnerMeansAbsent, TypeOK
      <3>3. Ours(seen["secret"]) \/ seen["secret"].owner = "other"
        BY <3>2 DEF Ours, ChildType
      <3>4. children["secret"] # Absent
        BY <1>1, <1>2, <1>5, <3>1, <3>3 DEF SeenSound
      <3> QED
        BY <1>1, <1>2, <1>7, <2>2, <3>1, <3>4 DEF SeenSound
    <2> QED
      BY <1>2, <2>1, <2>2 DEF SeenSound, Ours
  <1>11. FreshSound'
    BY <1>1, <1>2 DEF FreshSound, Current
  <1>12. \A d \in Children : children[d] # Absent => children'[d] # Absent
    BY <1>7
  <1>13. SuppliesInTime'
    BY <1>2, <1>12 DEF IInv, SuppliesInTime, Children
  <1>14. DeploymentSupplied'
    <2>1. Mounts' = Mounts /\ Mounts \subseteq Children /\ "deployment" \in Children
      BY <1>1, <1>2 DEF Mounts, OSMounts, OBSMounts, TorMounts, Children, ObjectKinds
    <2>2. Ours(children'["deployment"]) => Ours(children["deployment"])
      BY <1>5, <1>6, <2>1
    <2> QED
      BY <1>2, <1>12, <2>1, <2>2 DEF IInv, DeploymentSupplied, Supplied, Ours
  <1>15. PasswordSound'
    <2>1. "secret" \in Children /\ "configMap" \in Children
      BY DEF Children
    <2>2. children'["configMap"].owner = "Tor" => children'["configMap"] = children["configMap"]
      BY <1>4, <1>6, <2>1
    <2> QED
      BY <1>2, <1>7, <2>1, <2>2 DEF IInv, PasswordSound
  <1>16. ForeignKept
    BY <1>5, <1>7 DEF ForeignKept
  <1> QED
    BY <1>2, <1>8, <1>9, <1>10, <1>11, <1>13, <1>14, <1>15, <1>16
    DEF Keeps, HostnameStays, IInv, Known

---------------------------------------------------------------------------
(* The password follows the spec *)

WithDefaults(spec) == [spec EXCEPT !.ports = SetTorDefaults(@)]

(***************************************************************************)
(* A cache and a copy of the last generation hold the last spec, the copy   *)
(* with the defaults.  What goes into the config map of a Tor object whose  *)
(* spec refers to no secret is the password that the spec lists, and else   *)
(* the stored one.                                                          *)
(***************************************************************************)
Chosen(spec) == IF spec.inline THEN Given ELSE children["secret"].key

PasswordFollows ==
    kind = "Tor" /\ obj.exists =>
        /\ cache.gen = obj.gen => cache.spec = obj.spec
        /\ pc # "idle" /\ copy.gen = obj.gen => copy.spec = WithDefaults(obj.spec)
        /\ pc = "configMap" /\ ~copy.spec.ref => copy.key = Chosen(copy.spec)
        /\ /\ children["configMap"].owner = "Tor" /\ children["configMap"].from = obj.gen
           /\ "control" \in obj.spec.ports /\ ~obj.spec.ref
           => children["configMap"].key = Chosen(obj.spec)

(***************************************************************************)
(* Steps that write neither the spec nor the config map, and neither begin  *)
(* a reconcile nor take it to the config map.                               *)
(***************************************************************************)
LEMMA PasswordLeftAlone ==
    ASSUME IInv, PasswordFollows, UNCHANGED kind, obj'.exists => obj.exists,
           obj'.gen = obj.gen, obj'.spec = obj.spec,
           \/ cache'.spec = obj.spec
           \/ cache'.gen = cache.gen /\ cache'.spec = cache.spec,
           children["secret"] # Absent => children'["secret"] = children["secret"],
           children'["configMap"] = children["configMap"] \/ children'["configMap"].owner # "Tor",
           \/ pc' = "idle"
           \/ /\ pc # "idle" /\ (pc' = pc \/ pc' # "configMap")
              /\ copy'.gen = copy.gen /\ copy'.spec = copy.spec /\ copy'.key = copy.key
    PROVE  PasswordFollows'
  <1> SUFFICES ASSUME kind = "Tor", obj.exists, obj'.exists
               PROVE  PasswordFollows'
    BY DEF PasswordFollows
  <1>1. /\ pc = "configMap" => children'["secret"] = children["secret"]
        /\ children["configMap"].owner = "Tor" => children'["secret"] = children["secret"]
    BY DEF IInv, PasswordSound
  <1>2. cache'.gen = obj'.gen => cache'.spec = obj'.spec
    BY DEF PasswordFollows
  <1>3. pc' # "idle" /\ copy'.gen = obj'.gen => copy'.spec = WithDefaults(obj'.spec)
    BY DEF PasswordFollows, WithDefaults
  <1>4. pc' = "configMap" /\ ~copy'.spec.ref => copy'.key = Chosen(copy.spec)'
    BY <1>1 DEF PasswordFollows, Chosen
  <1>5. /\ children'["configMap"].owner = "Tor" /\ children'["configMap"].from = obj'.gen
        /\ "control" \in obj'.spec.ports /\ ~obj'.spec.ref
        => children'["configMap"].key = Chosen(obj.spec)'
    BY <1>1 DEF PasswordFollows, Chosen
  <1> QED
    BY <1>2, <1>3, <1>4, <1>5 DEF PasswordFollows, WithDefaults, Chosen

(***************************************************************************)
(* The defaults are about the ports, and disable none.                      *)
(***************************************************************************)
LEMMA DefaultsAdd ==
    ASSUME NEW spec \in SpecType
    PROVE  /\ WithDefaults(spec).ref = spec.ref /\ WithDefaults(spec).inline = spec.inline
           /\ spec.ports \subseteq WithDefaults(spec).ports
  BY DEF WithDefaults, SetTorDefaults, SpecType

(***************************************************************************)
(* The calls of a reconcile; of a Tor's, one makes the config map.          *)
(***************************************************************************)
LEMMA CalledFollows == ASSUME IInv, PasswordFollows, Called PROVE PasswordFollows'
  <1>1. PICK c \in Children, next \in Places, new \in OurChild :
            pc = c /\ InOrder(c, next) /\ Suits(c, new) /\ DealsWith(c, new, next)
    BY DEF Called
  <1>2. /\ UNCHANGED <<kind, obj, cache>>
        /\ \A d \in Children \ {c} : children'[d] = children[d]
        /\ "secret" \in Children /\ "configMap" \in Children /\ c # "idle"
        /\ \/ pc' = next /\ copy' = copy
           \/ pc' = "idle"
    BY <1>1 DEF DealsWith, Requeue, Children
  <1> SUFFICES ASSUME kind = "Tor", obj.exists
               PROVE  PasswordFollows'
    BY <1>2 DEF PasswordFollows
  <1>3. next # "configMap"
    BY <1>1 DEF InOrder, TorOrder
  <1>4. children["secret"] # Absent => children'["secret"] = children["secret"]
    BY <1>1, DealingKeepsChildren DEF WrittenOnce, Children
  <1>5. CASE c # "configMap" \/ children["configMap"] # Absent \/ children'["configMap"] = Absent
    <2>1. children'["configMap"] = children["configMap"] \/ children'["configMap"].owner # "Tor"
      BY <1>1, <1>2, <1>5 DEF DealsWith, WrittenOnce, Absent
    <2> QED
      BY <1>1, <1>2, <1>3, <1>4, <2>1, PasswordLeftAlone
  <1>6. CASE c = "configMap" /\ children["configMap"] = Absent /\ children'["configMap"] # Absent
    <2>1. children'["configMap"] = new /\ new.key = Hashed /\ new.from = copy.gen
      BY <1>1, <1>6 DEF DealsWith, Suits
    <2>2. children'["secret"] = children["secret"]
      BY <1>2, <1>6
    <2>3. ASSUME new.from = obj.gen, "control" \in obj.spec.ports, ~obj.spec.ref
          PROVE  new.key = Chosen(obj.spec)
      <3>1. copy.spec = WithDefaults(obj.spec) /\ obj.spec \in SpecType
        BY <1>1, <1>2, <1>6, <2>1, <2>3 DEF PasswordFollows, IInv, Known, TypeOK
      <3>2. /\ copy.spec.ref = obj.spec.ref /\ copy.spec.inline = obj.spec.inline
            /\ "control" \in copy.spec.ports
        BY <2>3, <3>1, DefaultsAdd
      <3>3. ~copy.spec.ref
        BY <2>3, <3>2, Zenon
      <3>4. copy.key = Chosen(copy.spec)
        BY <1>1, <1>6, <3>3 DEF PasswordFollows
      <3>5. Chosen(copy.spec) = Chosen(obj.spec)
        BY <3>2, Zenon DEF Chosen
      <3> QED
        BY <2>1, <3>2, <3>4, <3>5 DEF Hashed
    <2>4. cache'.gen = obj'.gen => cache'.spec = obj'.spec
      BY <1>2 DEF PasswordFollows
    <2>5. pc' # "idle" /\ copy'.gen = obj'.gen => copy'.spec = WithDefaults(obj'.spec)
      BY <1>1, <1>2 DEF PasswordFollows
    <2>6. Chosen(obj.spec)' = Chosen(obj.spec)
      BY <1>2, <2>2 DEF Chosen
    <2> QED
      BY <1>2, <1>3, <2>1, <2>3, <2>4, <2>5, <2>6 DEF PasswordFollows, WithDefaults
  <1> QED
    BY <1>5, <1>6

(***************************************************************************)
(* The control secret: the reconcile goes on with the password that follows *)
(* its copy of the spec.                                                    *)
(***************************************************************************)
LEMMA ControlSecretFollows ==
    ASSUME IInv, PasswordFollows, TorReconcileControlSecret
    PROVE  PasswordFollows'
  <1> DEFINE stored(got, password) == IF got = Absent THEN password ELSE got.key
  <1>1. PICK got \in Versions("secret"), password \in Passwords :
            /\ Get("secret", got)
            /\ \/ children' = children
               \/ /\ children["secret"] = Absent
                  /\ children' = [children EXCEPT !["secret"] = torSecret(password)]
            /\ \/ Requeue
               \/ /\ pc' = "configMap" /\ copy' = [copy EXCEPT !.key = InUse(stored(got, password))]
                  /\ IF got = Absent
                     THEN /\ children["secret"] = Absent
                          /\ children' = [children EXCEPT !["secret"] = torSecret(password)]
                     ELSE children' = children
    BY DEF TorReconcileControlSecret
  <1>2. /\ kind = "Tor" /\ pc = "secret" /\ UNCHANGED <<kind, obj, world, cache, halted>>
        /\ "secret" \in Children \ {"monitor"} /\ "configMap" \in Children
    BY DEF TorReconcileControlSecret, At, others, Children
  <1>3. Known /\ children \in [Children -> ChildType] /\ copy \in CopyType
    BY DEF IInv, Known, TypeOK, CopyType
  <1>4. /\ children["secret"] # Absent => children'["secret"] = children["secret"]
        /\ children'["configMap"] = children["configMap"]
    BY <1>1, <1>2, <1>3
  <1>5. CASE pc' = "idle"
    BY <1>2, <1>4, <1>5, PasswordLeftAlone
  <1>6. CASE pc' # "idle" /\ obj.exists
    <2>1. /\ pc' = "configMap" /\ copy' = [copy EXCEPT !.key = InUse(stored(got, password))]
          /\ IF got = Absent
             THEN children' = [children EXCEPT !["secret"] = torSecret(password)]
             ELSE children' = children
      BY <1>1, <1>6 DEF Requeue
    <2>2. children'["secret"].key = stored(got, password)
      <3>1. CASE got = Absent
        BY <1>2, <1>3, <2>1, <3>1 DEF torSecret, Keyed
      <3>2. CASE got # Absent
        BY <1>1, <1>2, <1>3, <1>6, <2>1, <3>2, GetSound
      <3> QED
        BY <3>1, <3>2
    <2>3. copy'.gen = copy.gen /\ copy'.spec = copy.spec /\ copy'.key = InUse(stored(got, password))
      BY <1>3, <2>1 DEF CopyType
    <2>4. ~copy'.spec.ref => copy'.key = Chosen(copy.spec)'
      <3> SUFFICES ASSUME ~copy.spec.ref
                   PROVE  copy'.key = Chosen(copy.spec)'
        BY <2>3
      <3> QED
        BY <2>2, <2>3 DEF InUse, Chosen
    <2>5. children["configMap"].owner = "Tor" => children'["secret"] = children["secret"]
      BY <1>2, <1>4, <1>6 DEF IInv, PasswordSound
    <2>6. /\ cache'.gen = obj'.gen => cache'.spec = obj'.spec
          /\ copy'.gen = obj'.gen => copy'.spec = WithDefaults(obj'.spec)
      BY <1>2, <1>6, <2>3 DEF PasswordFollows
    <2>7. /\ children'["configMap"].owner = "Tor" /\ children'["configMap"].from = obj'.gen
          /\ "control" \in obj'.spec.ports /\ ~obj'.spec.ref
          => children'["configMap"].key = Chosen(obj.spec)'
      BY <1>2, <1>4, <1>6, <2>5 DEF PasswordFollows, Chosen
    <2> QED
      BY <2>4, <2>6, <2>7 DEF PasswordFollows, WithDefaults, Chosen
  <1> QED
    BY <1>2, <1>5, <1>6 DEF PasswordFollows

(***************************************************************************)
(* A reconcile begins with the cache's spec and its defaults.               *)
(***************************************************************************)
LEMMA FetchFollows == ASSUME IInv, PasswordFollows, Fetch PROVE PasswordFollows'
  <1> SUFFICES ASSUME kind = "Tor", obj.exists
               PROVE  PasswordFollows'
    BY DEF PasswordFollows, Fetch
  <1>1. /\ UNCHANGED <<kind, obj, children, cache>> /\ pc' = "serviceAccount"
        /\ copy'.gen = cache.gen /\ copy'.spec = WithDefaults(cache.spec)
    BY DEF Fetch, FirstStep, WithDefaults
  <1>2. copy'.gen = obj'.gen => copy'.spec = WithDefaults(obj'.spec)
    BY <1>1 DEF PasswordFollows
  <1>3. /\ children'["configMap"].owner = "Tor" /\ children'["configMap"].from = obj'.gen
        /\ "control" \in obj'.spec.ports /\ ~obj'.spec.ref
        => children'["configMap"].key = Chosen(obj.spec)'
    BY <1>1 DEF PasswordFollows, Chosen
  <1> QED
    BY <1>1, <1>2, <1>3 DEF PasswordFollows, WithDefaults, Chosen

(***************************************************************************)
(* A new spec is of a generation that nothing was made from yet.            *)
(***************************************************************************)
LEMMA EditFollows == ASSUME IInv, PasswordFollows, EditSpec PROVE PasswordFollows'
  <1>1. TypeOK /\ obj.gen \in Nat /\ cache.gen \in Nat /\ copy.gen \in Nat
    BY DEF IInv, Known, TypeOK
  <1>2. /\ UNCHANGED <<kind, children, pc>> /\ obj'.gen = obj.gen + 1 /\ obj.exists
        /\ cache'.gen = cache.gen /\ copy'.gen = copy.gen
        /\ copy'.spec = copy.spec /\ copy'.key = copy.key
    <2>1. PICK spec \in Specs[kind] : obj' = [obj EXCEPT !.gen = @ + 1, !.spec = spec]
      BY DEF EditSpec
    <2> QED
      BY <1>1, <2>1 DEF EditSpec, Outdate, TypeOK
  <1>3. /\ cache'.gen # obj'.gen /\ copy'.gen # obj'.gen
        /\ children'["configMap"].from # obj'.gen
    <2>1. cache.gen <= obj.gen /\ copy.gen <= cache.gen
      BY <1>1 DEF TypeOK
    <2>2. children["configMap"].from <= obj.gen /\ children["configMap"].from \in Nat
      BY <1>1 DEF TypeOK, ChildType, Children
    <2> QED
      BY <1>1, <1>2, <2>1, <2>2
  <1>4. pc' = "configMap" /\ ~copy'.spec.ref /\ kind = "Tor" => copy'.key = Chosen(copy.spec)'
    BY <1>2 DEF PasswordFollows, Chosen
  <1> QED
    BY <1>2, <1>3, <1>4 DEF PasswordFollows

(***************************************************************************)
(* Somebody takes a name, maybe the config map's.                           *)
(***************************************************************************)
LEMMA TakeNameFollows ==
    ASSUME IInv, PasswordFollows, NEW c \in Children, TakeName(c)
    PROVE  PasswordFollows'
  <1>1. /\ children \in [Children -> ChildType] /\ children[c] = Absent
        /\ UNCHANGED <<kind, obj, cache, pc, copy>>
        /\ "secret" \in Children /\ "configMap" \in Children
    BY DEF TakeName, IInv, Known, TypeOK, Children
  <1>2. PICK key : children' = [children EXCEPT ![c] = Foreign(key)]
    BY DEF TakeName
  <1>3. /\ children["secret"] # Absent => children'["secret"] = children["secret"]
        /\ children'["configMap"] = children["configMap"] \/ children'["configMap"].owner # "Tor"
    BY <1>1, <1>2 DEF Foreign
  <1> QED
    BY <1>1, <1>3, PasswordLeftAlone DEF PasswordFollows

(***************************************************************************)
(* A status is written: nothing of the spec.                                *)
(***************************************************************************)
LEMMA StatusFollows ==
    ASSUME IInv, PasswordFollows, TorReportStatus
    PROVE  PasswordFollows'
  <1>1. obj \in ObjType /\ TypeOK
    BY DEF IInv, Known, TypeOK, ObjType
  <1>2. /\ obj' = [obj EXCEPT !.target = "real"]
        /\ UNCHANGED <<kind, children>> /\ pc' = "idle"
        /\ \E fresh : cache' = [cache EXCEPT !.fresh = fresh]
    BY DEF TorReportStatus, StatusUpdate, Done
  <1>3. obj'.gen = obj.gen /\ obj'.spec = obj.spec /\ obj'.exists = obj.exists
    BY <1>1, <1>2 DEF ObjType
  <1>4. cache'.gen = cache.gen /\ cache'.spec = cache.spec
    BY <1>1, <1>2 DEF TypeOK
  <1> QED
    BY <1>2, <1>3, <1>4, PasswordLeftAlone

(***************************************************************************)
(* Steps that the reconcile does not take part in, or that end it.          *)
(***************************************************************************)
LEMMA OthersFollow ==
    ASSUME IInv, PasswordFollows,
           \/ Sync \/ FetchNotFound \/ StatusConflict \/ CallFails \/ Crash \/ TorServiceMissing
           \/ Delete \/ Collect \/ ChangeTarget \/ ChangeRef \/ BackendsPublish
           \/ AgentPublishes \/ UNCHANGED vars
    PROVE  PasswordFollows'
  <1>1. CASE Sync \/ Crash
    <2>1. /\ UNCHANGED <<kind, obj, children>> /\ cache' = Current
          /\ pc' = "idle" \/ UNCHANGED <<pc, copy>>
      BY <1>1 DEF Sync, Crash
    <2>2. cache'.spec = obj.spec
      BY <2>1 DEF Current
    <2> QED
      BY <2>1, <2>2, PasswordLeftAlone
  <1>2. CASE \/ FetchNotFound \/ StatusConflict \/ CallFails \/ TorServiceMissing
             \/ ChangeTarget \/ ChangeRef \/ BackendsPublish \/ UNCHANGED vars
    <2>1. /\ UNCHANGED <<kind, obj, children, cache>>
          /\ pc' = "idle" \/ UNCHANGED <<pc, copy>>
      BY <1>2 DEF FetchNotFound, StatusConflict, CallFails, TorServiceMissing, ChangeTarget,
         ChangeRef, BackendsPublish, ChangeWorld, Requeue, vars
    <2> QED
      BY <2>1, PasswordLeftAlone
  <1>3. CASE Delete
    <2>1. kind' = kind /\ ~obj'.exists
      BY <1>3 DEF Delete, IInv, Known, TypeOK
    <2> QED
      BY <2>1 DEF PasswordFollows
  <1>4. CASE Collect
    BY <1>4 DEF Collect, PasswordFollows
  <1>5. CASE AgentPublishes
    BY <1>5 DEF AgentPublishes, PasswordFollows
  <1> QED
    BY <1>1, <1>2, <1>3, <1>4, <1>5

(***************************************************************************)
(* Every step keeps the password that follows the spec.                     *)
(***************************************************************************)
LEMMA NextFollows == ASSUME IInv, PasswordFollows, [Next]_vars PROVE PasswordFollows'
  <1>1. CASE OSReconcile
    <2>1. CASE OSTargetMissing \/ OSPortMissing \/ OSRulesHold \/ OSReportStatus
      BY <2>1 DEF OSTargetMissing, OSPortMissing, OSRulesHold, OSReportStatus, At, PasswordFollows
    <2> QED
      BY <1>1, <2>1, OSCallsDeal, CalledFollows DEF OSReconcile
  <1>2. CASE OBSReconcile
    <2>1. CASE OBSReportStatus
      BY <2>1 DEF OBSReportStatus, At, PasswordFollows
    <2> QED
      BY <1>2, <2>1, OBSCallsDeal, CalledFollows DEF OBSReconcile
  <1>3. CASE TorReconcile
    BY <1>3, TorCallsDeal, CalledFollows, ControlSecretFollows, OthersFollow, StatusFollows
    DEF TorReconcile
  <1>4. CASE Fetch
    BY <1>4, FetchFollows
  <1>5. CASE EditSpec
    BY <1>5, EditFollows
  <1>6. ASSUME NEW c \in Names \cap ChildrenOf(kind), TakeName(c)
        PROVE  PasswordFollows'
    BY <1>6, NamesAssumption, TakeNameFollows
  <1> QED
    BY <1>1, <1>2, <1>3, <1>4, <1>5, <1>6, OthersFollow DEF Next, Reconcile

---------------------------------------------------------------------------
(* The theorems *)

(***************************************************************************)
(* The invariant holds before the first reconcile.                          *)
(***************************************************************************)
LEMMA InitIInv == ASSUME Init PROVE IInv
  <1>1. /\ kind \in DOMAIN Specs /\ children = [c \in Children |-> Absent] /\ seen = children
        /\ cache = Current /\ queued = TRUE /\ pc = "idle" /\ copy = NoCopy
        /\ halted = FALSE /\ faults = MaxFaults
    BY DEF Init
  <1>2. PICK spec \in Specs[kind] :
            obj = [exists |-> TRUE, gen |-> 1, spec |-> spec, target |-> "unset",
                   hostname |-> NoKey, listed |-> FALSE]
    BY DEF Init
  <1>3. obj \in ObjType /\ obj.gen = 1
    BY <1>1, <1>2, SpecsAssumption, BoundsAssumption DEF ObjType
  <1>4. world \in [target : Targets \cup {NoTarget}, ref : RefTypes, crd : BOOLEAN,
                   published : BOOLEAN]
    <2>1. PICK target \in Targets \cup {NoTarget}, crd \in Installed, ref \in RefTypes :
              world = [target |-> target, ref |-> ref, crd |-> crd, published |-> FALSE]
      BY DEF Init, RefTypes
    <2>2. crd \in BOOLEAN
      BY <2>1, InstalledAssumption
    <2> QED
      BY <2>1, <2>2
  <1>5. /\ cache \in [exists : BOOLEAN, gen : 1 .. obj.gen, spec : SpecType,
                       fresh : BOOLEAN, hostname : Keys \cup {NoKey}]
        /\ cache.gen = 1
    BY <1>1, <1>3 DEF Current, ObjType
  <1>6. copy \in CopyType /\ ~copy.fresh
    <2>1. cache.gen \in Nat
      BY <1>5
    <2> QED
      BY <1>1, <2>1, NoCopyType
  <1>7. /\ children \in [Children -> ChildType] /\ seen \in [Children -> ChildType]
        /\ \A c \in Children : children[c] = Absent /\ children[c].from <= obj.gen
    BY <1>1, <1>3, BoundsAssumption DEF Absent, ChildType, Secrets
  <1>8. TypeOK
    <2>1. pc \in {"idle", "rules", "status"} \cup Children /\ ~(kind = "Tor" /\ pc # "idle")
      BY <1>1
    <2>2. queued \in BOOLEAN /\ halted \in BOOLEAN
      BY <1>1, Zenon
    <2>3. kind \in DOMAIN Specs
      BY <1>1
    <2>4. faults \in 0 .. MaxFaults
      BY <1>1, BoundsAssumption
    <2> QED
      BY <1>3, <1>4, <1>5, <1>6, <1>7, <2>1, <2>2, <2>3, <2>4 DEF TypeOK, ObjType, CopyType
  <1>9. /\ NoOwnerMeansAbsent /\ SeenSound /\ FreshSound
    BY <1>1, <1>6, <1>7 DEF NoOwnerMeansAbsent, SeenSound, FreshSound, Absent, Ours, ControllerKinds, ObjectKinds
  <1>10. SuppliesInTime /\ DeploymentSupplied /\ PasswordSound
    BY <1>1, <1>7 DEF SuppliesInTime, DeploymentSupplied, PasswordSound, Absent, Ours, ControllerKinds,
       ObjectKinds, Children
  <1> QED
    BY <1>8, <1>9, <1>10 DEF IInv, Known

(***************************************************************************)
(* Every step keeps the invariant, the objects of others, the hostname.     *)
(***************************************************************************)
LEMMA NextKeeps == ASSUME IInv, [Next]_vars PROVE Keeps
  <1>1. CASE OSReconcile
    BY <1>1, RulesKeep, OSCallsDeal, CalledKeeps, OSStatusKeeps DEF OSReconcile
  <1>2. CASE OBSReconcile
    BY <1>2, OBSCallsDeal, CalledKeeps, OBSStatusKeeps DEF OBSReconcile
  <1>3. CASE TorReconcile
    BY <1>3, TorCallsDeal, CalledKeeps, TorControlSecretKeeps, TorServiceMissingKeeps, TorStatusKeeps
    DEF TorReconcile
  <1>4. CASE Fetch \/ FetchNotFound \/ StatusConflict \/ Sync \/ CallFails \/ Crash
    BY <1>4, FetchKeeps, FailureKeeps, SyncKeeps, CrashKeeps
  <1>5. CASE EditSpec \/ Delete \/ ChangeTarget \/ ChangeRef \/ BackendsPublish \/ AgentPublishes
    BY <1>5, UserKeeps, WorldKeeps, AgentPublishesKeeps
  <1>6. CASE Collect
    BY <1>6, CollectKeeps
  <1>7. ASSUME NEW c \in Names \cap ChildrenOf(kind), TakeName(c)
        PROVE  Keeps
    BY <1>7, NamesAssumption, TakeNameKeeps
  <1>8. CASE UNCHANGED vars
    BY <1>8, FailureKeeps
  <1> QED
    BY <1>1, <1>2, <1>3, <1>4, <1>5, <1>6, <1>7, <1>8 DEF Next, Reconcile

(***************************************************************************)
(* The invariant holds throughout, whatever fails, restarts or is read from *)
(* a cache that is behind.                                                  *)
(***************************************************************************)
THEOREM Invariant == Spec => []IInv
  <1>1. Init => IInv
    BY InitIInv
  <1>2. IInv /\ [Next]_vars => IInv'
    BY NextKeeps DEF Keeps
  <1> QED
    BY <1>1, <1>2, PTL DEF Spec

(***************************************************************************)
(* The types; among them, that no child is made from a spec that was not    *)
(* written yet and that a Tor object under reconcile serves some port.      *)
(***************************************************************************)
THEOREM TypeCorrect == Spec => []TypeOK
  <1>1. IInv => TypeOK
    BY DEF IInv, Known
  <1> QED
    BY <1>1, Invariant, PTL

(***************************************************************************)
(* What the pods of a deployment mount is there when the deployment is      *)
(* (the order of the calls in each Reconcile).                              *)
(***************************************************************************)
THEOREM DeploymentIsSupplied == Spec => []DeploymentSupplied
  <1>1. IInv => DeploymentSupplied
    BY DEF IInv
  <1> QED
    BY <1>1, Invariant, PTL

(***************************************************************************)
(* The password in the torrc, if any, is one that its user has or can look  *)
(* up, and it follows the spec that the torrc was made from, unless that    *)
(* refers to secrets (tor_secret.go and tor_configmap.go).                  *)
(***************************************************************************)
THEOREM PasswordIsAgreed == Spec => []PasswordAgreed
  <1>1. Init => PasswordFollows
    <2> SUFFICES ASSUME Init
                 PROVE  PasswordFollows
      OBVIOUS
    <2>1. cache.spec = obj.spec /\ pc = "idle" /\ children["configMap"].owner # "Tor"
      BY DEF Init, Current, Absent, Children
    <2> QED
      BY <2>1 DEF PasswordFollows
  <1>2. IInv /\ PasswordFollows /\ [Next]_vars => PasswordFollows'
    BY NextFollows
  <1>3. IInv /\ PasswordFollows => PasswordAgreed
    BY DEF IInv, PasswordSound, PasswordFollows, Chosen, PasswordAgreed
  <1> QED
    BY <1>1, <1>2, <1>3, Invariant, PTL DEF Spec

(***************************************************************************)
(* No reconcile changes what somebody else controls ("already exists and is *)
(* not controlled by").                                                     *)
(***************************************************************************)
THEOREM ForeignIsUntouched == Spec => ForeignUntouched
  <1>1. IInv /\ [Next]_vars =>
            [obj.exists => \A c \in Children \ {"monitor"} :
                 children[c].owner = "other" => children'[c] = children[c]]_vars
    BY NextKeeps DEF Keeps, ForeignKept
  <1> QED
    BY <1>1, Invariant, PTL DEF Spec, ForeignUntouched

(***************************************************************************)
(* A hostname that has been published stays in the status.                  *)
(***************************************************************************)
THEOREM HostnameIsKept == Spec => HostnameKept
  <1>1. IInv /\ [Next]_vars => [obj.hostname # NoKey => obj'.hostname = obj.hostname]_vars
    BY NextKeeps DEF Keeps, HostnameStays
  <1> QED
    BY <1>1, Invariant, PTL DEF Spec, HostnameKept
=============================================================================
