----------------------- MODULE ReconcilersRestProofs -----------------------
(***************************************************************************)
(* The operator only rests on an object whose children reflect its last     *)
(* spec: RestsOnlyWhenReflected, for every choice of the constants.         *)
(***************************************************************************)
EXTENDS ReconcilersProofs

---------------------------------------------------------------------------
(* The inductive invariant *)

(***************************************************************************)
(* How far each reconciler is at each of its places.                        *)
(***************************************************************************)
OSRank == [idle |-> 0, rules |-> 0, auth |-> 1, secret |-> 2, serviceAccount |-> 3, role |-> 4,
           roleBinding |-> 5, service |-> 6, deployment |-> 7, metrics |-> 8, monitor |-> 9,
           status |-> 10]

OBSRank == [idle |-> 0, secret |-> 1, serviceAccount |-> 2, role |-> 3, roleBinding |-> 4,
            service |-> 5, configMap |-> 6, deployment |-> 7, metrics |-> 8, monitor |-> 9,
            status |-> 10]

TorRank == [idle |-> 0, serviceAccount |-> 1, role |-> 2, roleBinding |-> 3, service |-> 4,
            secret |-> 5, configMap |-> 6, deployment |-> 7, metrics |-> 8, monitor |-> 9,
            status |-> 10]

Past(c, place) ==
    CASE kind = "OnionService" -> OSRank[c] < OSRank[place]
      [] kind = "OnionBalancedService" -> OBSRank[c] < OBSRank[place]
      [] kind = "Tor" -> TorRank[c] < TorRank[place]

\* A copy without a conflict holds the last spec, with the defaults.
CopyCurrent ==
    copy.fresh => /\ copy.gen = obj.gen
                  /\ copy.spec.monitor = obj.spec.monitor
                  /\ obj.spec.ports \subseteq copy.spec.ports

\* A stranger's monitor that the cache shows is still there: the reconciler
\* deletes one only when the cache shows its own.
MonitorSeen ==
    seen["monitor"].owner = "other" => children["monitor"].owner = "other"

\* A reconcile with such a copy leaves each child as the spec wants it.
Progress ==
    copy.fresh => \A c \in ChildrenOf(kind) : Past(c, pc) => Reflects(c)

Rested ==
    pc = "idle" /\ ~queued /\ cache.exists /\ cache.gen = obj.gen => Reflected \/ halted

RestInv == obj.exists => CopyCurrent /\ MonitorSeen /\ Progress /\ Rested

---------------------------------------------------------------------------
(* When a child reflects the spec *)

(***************************************************************************)
(* What a child is and what it is to be decide whether it reflects the spec.*)
(***************************************************************************)
LEMMA ReflectsSame ==
    ASSUME NEW c, UNCHANGED kind, world'.crd = world.crd,
           obj'.spec = obj.spec, obj'.gen = obj.gen,
           children'[c] = children[c], seen'[c] = seen[c],
           Reflects(c)
    PROVE  Reflects(c)'
  BY DEF Reflects, Ours

(***************************************************************************)
(* What is another's is as it should be, and so is what the operator has    *)
(* made, a monitor only if it is wanted.                                    *)
(***************************************************************************)
LEMMA OthersReflect ==
    ASSUME NEW c, children'[c].owner = "other"
    PROVE  Reflects(c)'
  BY DEF Reflects

LEMMA MadeReflects ==
    ASSUME NEW c \in Children \ {"monitor"}, children'[c] # Absent,
           Ours(children'[c]), c \in MadeFromSpec => children'[c].from = obj'.gen
    PROVE  Reflects(c)'
  BY DEF Reflects

LEMMA UnwantedMetricsReflect ==
    ASSUME kind' = "Tor", "metrics" \notin obj'.spec.ports
    PROVE  Reflects("metrics")'
  BY DEF Reflects

LEMMA MonitorReflects ==
    ASSUME world'.crd => IF obj'.spec.monitor THEN children'["monitor"] # Absent
                         ELSE Absent \in {children'["monitor"], seen'["monitor"]}
    PROVE  Reflects("monitor")'
  BY DEF Reflects

---------------------------------------------------------------------------
(* Steps that leave the children as they are *)

(***************************************************************************)
(* If neither what the spec wants nor the children change, all that matters *)
(* is what becomes of the reconcile.                                        *)
(***************************************************************************)
LEMMA ChildrenAsBefore ==
    ASSUME UNCHANGED <<kind, children>>, world'.crd = world.crd,
           obj'.spec = obj.spec, obj'.gen = obj.gen,
           seen'["monitor"] = seen["monitor"]
    PROVE  /\ MonitorSeen => MonitorSeen'
           /\ \A c \in ChildrenOf(kind) : Reflects(c) => Reflects(c)'
           /\ Reflected => Reflected'
  <1>1. MonitorSeen => MonitorSeen'
    BY DEF MonitorSeen
  <1>2. \A c \in ChildrenOf(kind) : Reflects(c) => Reflects(c)'
    <2> SUFFICES ASSUME NEW c \in ChildrenOf(kind), Reflects(c) PROVE Reflects(c)'
      OBVIOUS
    <2>1. CASE c = "monitor"
      BY <2>1, ReflectsSame
    <2>2. CASE c # "monitor"
      BY <2>2 DEF Reflects, Ours
    <2> QED
      BY <2>1, <2>2
  <1> QED
    BY <1>1, <1>2 DEF Reflected

(***************************************************************************)
(* Steps of others, and of the cache, during which the reconcile stands.    *)
(***************************************************************************)
LEMMA StandingKeepsRest ==
    ASSUME RestInv, UNCHANGED <<kind, children, seen, pc, halted>>, world'.crd = world.crd,
           obj'.exists => obj.exists, obj'.spec = obj.spec, obj'.gen = obj.gen,
           copy'.fresh => copy' = copy,
           ~queued' /\ cache'.exists /\ cache'.gen = obj.gen
               => ~queued /\ cache.exists /\ cache.gen = obj.gen
    PROVE  RestInv'
  <1> SUFFICES ASSUME obj.exists PROVE CopyCurrent' /\ MonitorSeen' /\ Progress' /\ Rested'
    BY DEF RestInv
  <1>1. CopyCurrent /\ MonitorSeen /\ Progress /\ Rested
    BY DEF RestInv
  <1>2. CopyCurrent'
    BY <1>1 DEF CopyCurrent
  <1>3. MonitorSeen'
    BY <1>1 DEF MonitorSeen
  <1>4. /\ \A c \in ChildrenOf(kind) : Reflects(c) => Reflects(c)'
        /\ Reflected => Reflected'
    BY ChildrenAsBefore
  <1>5. Progress'
    BY <1>1, <1>4 DEF Progress, Past, ChildrenOf
  <1>6. Rested'
    BY <1>1, <1>4 DEF Rested
  <1> QED
    BY <1>2, <1>3, <1>5, <1>6

(***************************************************************************)
(* The reconcile ends and the request comes back.                           *)
(***************************************************************************)
LEMMA RequeueKeepsRest ==
    ASSUME obj'.exists => MonitorSeen', copy' = NoCopy, queued'
    PROVE  RestInv'
  <1>1. ~copy'.fresh
    BY DEF NoCopy
  <1> QED
    BY <1>1 DEF RestInv, CopyCurrent, Progress, Rested

---------------------------------------------------------------------------
(* Calls that go on past a child leave it as the spec wants it *)

(***************************************************************************)
(* Only child c may change, and the reconcile ends or goes on past c, which *)
(* then reflects the spec if the copy does.                                 *)
(***************************************************************************)
Passes(c, next) ==
    /\ UNCHANGED <<kind, obj, world, cache, halted>>
    /\ \A d \in Children \ {c} : children'[d] = children[d] /\ seen'[d] = seen[d]
    /\ MonitorSeen'
    /\ \/ Requeue
       \/ /\ pc' = next /\ queued' = queued
          /\ copy'.fresh = copy.fresh /\ copy'.gen = copy.gen /\ copy'.spec = copy.spec
          /\ copy.fresh => Reflects(c)'

(***************************************************************************)
(* Reads that leave the other children alone.                               *)
(***************************************************************************)
LEMMA GetLeavesOthers ==
    ASSUME TypeOK, MonitorSeen, NEW c \in Children \ {"monitor"}, NEW got, Get(c, got),
           NEW x, children' = [children EXCEPT ![c] = x]
    PROVE  /\ \A d \in Children \ {c} : children'[d] = children[d] /\ seen'[d] = seen[d]
           /\ MonitorSeen'
  BY DEF TypeOK, Get, MonitorSeen, Children

(***************************************************************************)
(* A child that is there is of an owner.                                    *)
(***************************************************************************)
LEMMA PresentIsOwned ==
    ASSUME TypeOK, NoOwnerMeansAbsent, NEW c \in Children, children[c] # Absent
    PROVE  Ours(children[c]) \/ children[c].owner = "other"
  BY DEF TypeOK, NoOwnerMeansAbsent, ChildType, Ours

LEMMA CreateOnlyPasses ==
    ASSUME Known, MonitorSeen, obj.exists, NEW c \in WrittenOnce,
           NEW STATE new, new.owner \in ControllerKinds, NEW next, CreateOnly(c, new, next)
    PROVE  Passes(c, next)
  <1>1. c \in Children \ {"monitor"} /\ c \notin MadeFromSpec
    BY DEF WrittenOnce, Children, MadeFromSpec
  <1>2. PICK got \in Versions(c) :
            /\ Get(c, got)
            /\ \/ got = Absent /\ Create(c, new, next)
               \/ got # Absent /\ Skip(next)
    BY DEF CreateOnly
  <1>3. UNCHANGED <<kind, obj, world, cache, halted>>
    BY DEF CreateOnly, others
  <1>4. /\ TypeOK /\ children = [children EXCEPT ![c] = children[c]]
        /\ new # Absent /\ Ours(new)
    BY DEF Known, TypeOK, Absent, Ours, ControllerKinds, ObjectKinds
  <1>5. CASE got = Absent /\ children[c] = Absent
    <2>1. children' = [children EXCEPT ![c] = new] /\ Goto(next)
      BY <1>2, <1>5 DEF Create
    <2>2. children'[c] = new
      BY <1>1, <1>4, <2>1 DEF TypeOK
    <2>3. Reflects(c)'
      BY <1>1, <1>4, <2>2, MadeReflects
    <2> QED
      BY <1>1, <1>2, <1>3, <1>4, <2>1, <2>3, GetLeavesOthers DEF Passes, Goto
  <1>6. CASE got = Absent /\ children[c] # Absent
    <2>1. UNCHANGED children /\ Requeue
      BY <1>2, <1>6 DEF Create
    <2> QED
      BY <1>1, <1>2, <1>3, <1>4, <2>1, GetLeavesOthers DEF Passes
  <1>7. CASE got # Absent
    <2>1. UNCHANGED children /\ Goto(next)
      BY <1>2, <1>7 DEF Skip
    <2>2. children[c] # Absent
      BY <1>1, <1>7, GetSound
    <2>3. Reflects(c)'
      BY <1>1, <2>1, <2>2, PresentIsOwned, OthersReflect, MadeReflects DEF Known
    <2> QED
      BY <1>1, <1>2, <1>3, <1>4, <2>1, <2>3, GetLeavesOthers DEF Passes, Goto
  <1> QED
    BY <1>5, <1>6, <1>7

LEMMA CreateIfWantedPasses ==
    ASSUME Known, MonitorSeen, CopyCurrent, obj.exists,
           NEW c \in Children \ (WrittenOnce \cup {"monitor"}),
           NEW STATE new, new.owner \in ControllerKinds, c \in MadeFromSpec => new.from = copy.gen,
           NEW next, NEW STATE wanted,
           wanted \/ (c = "metrics" /\ kind = "Tor" /\ "metrics" \notin copy.spec.ports),
           CreateIfWanted(c, new, wanted, next)
    PROVE  Passes(c, next)
  <1>1. PICK got \in Versions(c) :
            /\ Get(c, got)
            /\ \/ got = Absent /\ wanted /\ Create(c, new, next)
               \/ got = Absent /\ ~wanted /\ Skip(next)
               \/ got # Absent /\ ~Ours(got) /\ Skip(next)
               \/ Ours(got) /\ Update(c, new, next)
    BY DEF CreateIfWanted
  <1>2. UNCHANGED <<kind, obj, world, cache, halted>>
    BY DEF CreateIfWanted, others
  <1>3. /\ TypeOK /\ children = [children EXCEPT ![c] = children[c]]
        /\ new # Absent /\ Ours(new)
    BY DEF Known, TypeOK, Absent, Ours, ControllerKinds, ObjectKinds
  <1>4. ASSUME children' = [children EXCEPT ![c] = new], Goto(next)
        PROVE  Passes(c, next)
    <2>1. children'[c] = new
      BY <1>3, <1>4 DEF TypeOK
    <2>2. copy.fresh => Reflects(c)'
      BY <1>2, <1>3, <2>1, MadeReflects DEF CopyCurrent
    <2> QED
      BY <1>1, <1>2, <1>3, <1>4, <2>2, GetLeavesOthers DEF Passes, Goto
  <1>5. ASSUME UNCHANGED children, Requeue
        PROVE  Passes(c, next)
    BY <1>1, <1>2, <1>3, <1>5, GetLeavesOthers DEF Passes
  <1>6. ASSUME got # Absent, ~Ours(got), Skip(next)
        PROVE  Passes(c, next)
    <2>1. UNCHANGED children /\ Goto(next)
      BY <1>6 DEF Skip
    <2>2. got.owner = "other"
      <3>1. got \in ChildType /\ (got.owner = "none" => got = Absent)
        BY <1>1, <1>3, GetShows DEF Known
      <3> QED
        BY <1>6, <3>1 DEF ChildType, Ours
    <2>3. Reflects(c)'
      BY <2>1, <2>2, GetSound, OthersReflect
    <2> QED
      BY <1>1, <1>2, <1>3, <2>1, <2>3, GetLeavesOthers DEF Passes, Goto
  <1>7. ASSUME ~wanted, Skip(next)
        PROVE  Passes(c, next)
    <2>1. UNCHANGED children /\ Goto(next)
      BY <1>7 DEF Skip
    <2>2. copy.fresh => Reflects(c)'
      BY <1>2, <1>7, UnwantedMetricsReflect DEF CopyCurrent
    <2> QED
      BY <1>1, <1>2, <1>3, <2>1, <2>2, GetLeavesOthers DEF Passes, Goto
  <1> QED
    BY <1>1, <1>4, <1>5, <1>6, <1>7 DEF Create, Update

LEMMA CreateOrUpdatePasses ==
    ASSUME Known, MonitorSeen, CopyCurrent, obj.exists,
           NEW c \in Children \ (WrittenOnce \cup {"monitor"}),
           NEW STATE new, new.owner \in ControllerKinds, c \in MadeFromSpec => new.from = copy.gen,
           NEW next, CreateOrUpdate(c, new, next)
    PROVE  Passes(c, next)
  <1>1. CreateIfWanted(c, new, TRUE, next)
    BY DEF CreateOrUpdate, CreateIfWanted
  <1> QED
    BY <1>1, CreateIfWantedPasses

LEMMA ServiceMonitorPasses ==
    ASSUME Known, MonitorSeen, CopyCurrent, obj.exists,
           NEW STATE new, new.owner \in ControllerKinds, NEW next, ServiceMonitor(new, next)
    PROVE  Passes("monitor", next)
  <1>1. /\ UNCHANGED <<kind, obj, world, cache, halted>>
        /\ TypeOK /\ NoOwnerMeansAbsent /\ "monitor" \in Children
        /\ new # Absent /\ Ours(new) /\ new.owner # "other" /\ ~Ours(Absent)
    BY DEF ServiceMonitor, others, Known, Absent, Ours, ControllerKinds, ObjectKinds, Children
  <1>2. CASE ~world.crd /\ Skip(next) /\ UNCHANGED <<seen, faults>>
    <2>1. UNCHANGED <<children, seen>> /\ Goto(next)
      BY <1>2 DEF Skip
    <2>2. Reflects("monitor")'
      BY <1>1, <1>2, MonitorReflects
    <2> QED
      BY <1>1, <2>1, <2>2 DEF Passes, Goto, MonitorSeen
  <1>3. ASSUME NEW got \in Versions("monitor"), Get("monitor", got),
               \/ got = Absent /\ copy.spec.monitor /\ Create("monitor", new, next)
               \/ got = Absent /\ ~copy.spec.monitor /\ Skip(next)
               \/ got # Absent /\ ~Ours(got) /\ Skip(next)
               \/ Ours(got) /\ ~copy.spec.monitor /\ Remove("monitor", next)
               \/ Ours(got) /\ copy.spec.monitor /\ UNCHANGED children /\ Requeue
        PROVE  Passes("monitor", next)
    <2>1. /\ got = children["monitor"] \/ got = seen["monitor"]
          /\ got \in ChildType /\ (got.owner = "none" => got = Absent)
          /\ seen'["monitor"].owner = got.owner /\ (got = Absent => seen'["monitor"] = Absent)
          /\ \A d \in Children \ {"monitor"} : seen'[d] = seen[d]
      BY <1>1, <1>3, GetShows
    <2>2. /\ got.owner = "other" => children["monitor"].owner = "other"
          /\ Absent.owner # "other" /\ (Ours(got) => got.owner # "other")
      BY <2>1 DEF MonitorSeen, Absent, Ours, ControllerKinds, ObjectKinds
    <2>3. ASSUME NEW x, children' = [children EXCEPT !["monitor"] = x]
          PROVE  /\ children'["monitor"] = x
                 /\ \A d \in Children \ {"monitor"} : children'[d] = children[d]
      BY <1>1, <2>3 DEF TypeOK
    <2>4. CASE got = Absent /\ copy.spec.monitor /\ Create("monitor", new, next)
      <3>1. CASE children["monitor"] = Absent
        <4>1. children' = [children EXCEPT !["monitor"] = new] /\ Goto(next)
          BY <2>4, <3>1 DEF Create
        <4>2. children'["monitor"] = new
          BY <2>3, <4>1
        <4>3. copy.fresh => Reflects("monitor")'
          BY <1>1, <2>4, <4>2, MonitorReflects DEF CopyCurrent
        <4>4. MonitorSeen'
          BY <2>1, <2>2, <2>4 DEF MonitorSeen
        <4> QED
          BY <1>1, <2>1, <2>3, <4>1, <4>3, <4>4 DEF Passes, Goto
      <3>2. CASE children["monitor"] # Absent
        BY <1>1, <2>1, <2>2, <2>4, <3>2 DEF Create, Passes, MonitorSeen
      <3> QED
        BY <3>1, <3>2
    <2>5. CASE got = Absent /\ ~copy.spec.monitor /\ Skip(next)
      <3>1. UNCHANGED children /\ Goto(next) /\ seen'["monitor"] = Absent
        BY <2>1, <2>5 DEF Skip
      <3>2. copy.fresh => Reflects("monitor")'
        BY <1>1, <2>5, <3>1, MonitorReflects DEF CopyCurrent
      <3> QED
        BY <1>1, <2>1, <2>2, <3>1, <3>2 DEF Passes, Goto, MonitorSeen
    <2>6. CASE got # Absent /\ ~Ours(got) /\ Skip(next)
      <3>1. UNCHANGED children /\ Goto(next) /\ got.owner = "other"
        BY <2>1, <2>6 DEF Skip, ChildType, Ours
      <3>2. Reflects("monitor")' /\ MonitorSeen'
        BY <2>2, <3>1, OthersReflect DEF MonitorSeen
      <3> QED
        BY <1>1, <2>1, <3>1, <3>2 DEF Passes, Goto
    <2>7. CASE Ours(got) /\ ~copy.spec.monitor /\ Remove("monitor", next)
      <3>1. MonitorSeen'
        BY <2>1, <2>2, <2>7 DEF MonitorSeen
      <3>2. CASE children["monitor"] # Absent
        <4>1. children' = [children EXCEPT !["monitor"] = Absent] /\ Goto(next)
          BY <2>7, <3>2 DEF Remove
        <4>2. children'["monitor"] = Absent
          BY <2>3, <4>1
        <4>3. copy.fresh => Reflects("monitor")'
          BY <1>1, <2>7, <4>2, MonitorReflects DEF CopyCurrent
        <4> QED
          BY <1>1, <2>1, <2>3, <3>1, <4>1, <4>3 DEF Passes, Goto
      <3>3. CASE children["monitor"] = Absent
        BY <1>1, <2>1, <2>7, <3>1, <3>3 DEF Remove, Passes
      <3> QED
        BY <3>2, <3>3
    <2>8. CASE Ours(got) /\ copy.spec.monitor /\ UNCHANGED children /\ Requeue
      BY <1>1, <2>1, <2>2, <2>8 DEF Passes, MonitorSeen
    <2> QED
      BY <1>3, <2>4, <2>5, <2>6, <2>7, <2>8
  <1> QED
    BY <1>2, <1>3 DEF ServiceMonitor

(***************************************************************************)
(* Going on past c, the reconcile is past c and what it was past before.    *)
(***************************************************************************)
Follows(c, next) ==
    \/ InOrder(c, next)
    \/ kind = "Tor" /\ c = "secret" /\ next = "configMap"

LEMMA PastGrows ==
    ASSUME NEW c, NEW next, Follows(c, next)
    PROVE  /\ \A d \in ChildrenOf(kind) : Past(d, next) => d = c \/ Past(d, c)
           /\ next # "idle"
  <1>1. CASE kind = "OnionService" /\ <<c, next>> \in OSOrder
    BY <1>1 DEF Past, OSRank, OSOrder, ChildrenOf, Children
  <1>2. CASE kind = "OnionBalancedService" /\ <<c, next>> \in OBSOrder
    BY <1>2 DEF Past, OBSRank, OBSOrder, ChildrenOf, Children
  <1>3. CASE kind = "Tor" /\ <<c, next>> \in TorOrder \cup {<<"secret", "configMap">>}
    BY <1>3 DEF Past, TorRank, TorOrder, ChildrenOf, Children
  <1> QED
    BY <1>1, <1>2, <1>3 DEF Follows, InOrder

LEMMA PassingKeepsRest ==
    ASSUME RestInv, obj.exists, NEW c \in Children, pc = c, NEW next, Follows(c, next),
           Passes(c, next)
    PROVE  RestInv'
  <1>1. CASE Requeue
    BY <1>1, RequeueKeepsRest DEF Passes, Requeue
  <1>2. CASE /\ pc' = next /\ queued' = queued
             /\ copy'.fresh = copy.fresh /\ copy'.gen = copy.gen /\ copy'.spec = copy.spec
             /\ copy.fresh => Reflects(c)'
    <2>1. CopyCurrent /\ MonitorSeen /\ Progress
      BY DEF RestInv
    <2>2. UNCHANGED <<kind, obj, world, cache, halted>> /\ MonitorSeen'
      BY DEF Passes
    <2>3. CopyCurrent'
      BY <1>2, <2>1, <2>2 DEF CopyCurrent
    <2>4. ASSUME copy.fresh, NEW d \in ChildrenOf(kind), Past(d, next)
          PROVE  Reflects(d)'
      <3>1. CASE d = c
        BY <1>2, <2>4, <3>1
      <3>2. CASE d # c
        <4>1. Reflects(d)
          BY <2>1, <2>4, <3>2, PastGrows DEF Progress
        <4>2. children'[d] = children[d] /\ seen'[d] = seen[d]
          BY <3>2 DEF Passes, ChildrenOf
        <4> QED
          BY <2>2, <4>1, <4>2, ReflectsSame
      <3> QED
        BY <3>1, <3>2
    <2>5. Progress'
      BY <1>2, <2>2, <2>4 DEF Progress, ChildrenOf, Past
    <2>6. Rested'
      BY <1>2, PastGrows DEF Rested
    <2> QED
      BY <2>2, <2>3, <2>5, <2>6 DEF RestInv
  <1> QED
    BY <1>1, <1>2 DEF Passes

---------------------------------------------------------------------------
(* The steps of the reconcilers *)

(***************************************************************************)
(* The children of an OnionService.                                        *)
(***************************************************************************)
LEMMA OSChildrenRest ==
    ASSUME Known, RestInv, obj.exists,
           \/ OSReconcileSecretAuthorizedClients
           \/ OSReconcileSecret
           \/ OSReconcileServiceAccount
           \/ OSReconcileRole
           \/ OSReconcileRolebinding
           \/ OSReconcileService
           \/ OSReconcileDeployment
           \/ OSReconcileMetricsService
           \/ OSReconcileServiceMonitor
    PROVE  RestInv'
  <1>1. Known /\ MonitorSeen /\ CopyCurrent
    BY DEF RestInv
  <1>2. CASE OSReconcileSecretAuthorizedClients
    <2>1. kind = "OnionService" /\ pc = "auth"
      BY <1>2 DEF OSReconcileSecretAuthorizedClients, At
    <2>2. CreateOnly("auth", torOnionServiceSecretAuthorizedClients, "secret")
      BY <1>2 DEF OSReconcileSecretAuthorizedClients, At
    <2>3. torOnionServiceSecretAuthorizedClients.owner \in ControllerKinds
      BY DEF torOnionServiceSecretAuthorizedClients, Fixed, FromSpec, Keyed, ControllerKinds, ObjectKinds
    <2>5. Passes("auth", "secret")
      BY <1>1, <2>1, <2>2, <2>3, CreateOnlyPasses DEF Children, WrittenOnce, MadeFromSpec
    <2> QED
      BY <2>1, <2>5, PassingKeepsRest DEF Follows, InOrder, OSOrder, Children
  <1>3. CASE OSReconcileSecret
    <2>1. kind = "OnionService" /\ pc = "secret"
      BY <1>3 DEF OSReconcileSecret, At
    <2>2. PICK key \in Keys : CreateOnly("secret", torOnionServiceSecret(key), "serviceAccount")
      BY <1>3 DEF OSReconcileSecret, At
    <2>3. torOnionServiceSecret(key).owner \in ControllerKinds
      BY DEF torOnionServiceSecret, Fixed, FromSpec, Keyed, ControllerKinds, ObjectKinds
    <2>5. Passes("secret", "serviceAccount")
      BY <1>1, <2>1, <2>2, <2>3, CreateOnlyPasses DEF Children, WrittenOnce, MadeFromSpec
    <2> QED
      BY <2>1, <2>5, PassingKeepsRest DEF Follows, InOrder, OSOrder, Children
  <1>4. CASE OSReconcileServiceAccount
    <2>1. kind = "OnionService" /\ pc = "serviceAccount"
      BY <1>4 DEF OSReconcileServiceAccount, At
    <2>2. CreateOrUpdate("serviceAccount", torOnionServiceAccount, "role")
      BY <1>4 DEF OSReconcileServiceAccount, At
    <2>3. torOnionServiceAccount.owner \in ControllerKinds
      BY DEF torOnionServiceAccount, Fixed, FromSpec, Keyed, ControllerKinds, ObjectKinds
    <2>5. Passes("serviceAccount", "role")
      BY <1>1, <2>1, <2>2, <2>3, CreateOrUpdatePasses DEF Children, WrittenOnce, MadeFromSpec
    <2> QED
      BY <2>1, <2>5, PassingKeepsRest DEF Follows, InOrder, OSOrder, Children
  <1>5. CASE OSReconcileRole
    <2>1. kind = "OnionService" /\ pc = "role"
      BY <1>5 DEF OSReconcileRole, At
    <2>2. CreateOrUpdate("role", torOnionRole, "roleBinding")
      BY <1>5 DEF OSReconcileRole, At
    <2>3. torOnionRole.owner \in ControllerKinds
      BY DEF torOnionRole, Fixed, FromSpec, Keyed, ControllerKinds, ObjectKinds
    <2>5. Passes("role", "roleBinding")
      BY <1>1, <2>1, <2>2, <2>3, CreateOrUpdatePasses DEF Children, WrittenOnce, MadeFromSpec
    <2> QED
      BY <2>1, <2>5, PassingKeepsRest DEF Follows, InOrder, OSOrder, Children
  <1>6. CASE OSReconcileRolebinding
    <2>1. kind = "OnionService" /\ pc = "roleBinding"
      BY <1>6 DEF OSReconcileRolebinding, At
    <2>2. CreateOrUpdate("roleBinding", torOnionRolebinding, "service")
      BY <1>6 DEF OSReconcileRolebinding, At
    <2>3. torOnionRolebinding.owner \in ControllerKinds
      BY DEF torOnionRolebinding, Fixed, FromSpec, Keyed, ControllerKinds, ObjectKinds
    <2>5. Passes("roleBinding", "service")
      BY <1>1, <2>1, <2>2, <2>3, CreateOrUpdatePasses DEF Children, WrittenOnce, MadeFromSpec
    <2> QED
      BY <2>1, <2>5, PassingKeepsRest DEF Follows, InOrder, OSOrder, Children
  <1>7. CASE OSReconcileService
    <2>1. kind = "OnionService" /\ pc = "service"
      BY <1>7 DEF OSReconcileService, At
    <2>2. CreateOrUpdate("service", OnionServiceService, "deployment")
      BY <1>7 DEF OSReconcileService, At
    <2>3. OnionServiceService.owner \in ControllerKinds /\ OnionServiceService.from = copy.gen
      BY DEF OnionServiceService, Fixed, FromSpec, Keyed, ControllerKinds, ObjectKinds
    <2>5. Passes("service", "deployment")
      BY <1>1, <2>1, <2>2, <2>3, CreateOrUpdatePasses DEF Children, WrittenOnce, MadeFromSpec
    <2> QED
      BY <2>1, <2>5, PassingKeepsRest DEF Follows, InOrder, OSOrder, Children
  <1>8. CASE OSReconcileDeployment
    <2>1. kind = "OnionService" /\ pc = "deployment"
      BY <1>8 DEF OSReconcileDeployment, At
    <2>2. CreateOrUpdate("deployment", torOnionServiceDeployment, "metrics")
      BY <1>8 DEF OSReconcileDeployment, At
    <2>3. torOnionServiceDeployment.owner \in ControllerKinds /\ torOnionServiceDeployment.from = copy.gen
      BY DEF torOnionServiceDeployment, Fixed, FromSpec, Keyed, ControllerKinds, ObjectKinds
    <2>5. Passes("deployment", "metrics")
      BY <1>1, <2>1, <2>2, <2>3, CreateOrUpdatePasses DEF Children, WrittenOnce, MadeFromSpec
    <2> QED
      BY <2>1, <2>5, PassingKeepsRest DEF Follows, InOrder, OSOrder, Children
  <1>9. CASE OSReconcileMetricsService
    <2>1. kind = "OnionService" /\ pc = "metrics"
      BY <1>9 DEF OSReconcileMetricsService, At
    <2>2. CreateOrUpdate("metrics", osTorMetricsService, "monitor")
      BY <1>9 DEF OSReconcileMetricsService, At
    <2>3. osTorMetricsService.owner \in ControllerKinds
      BY DEF osTorMetricsService, Fixed, FromSpec, Keyed, ControllerKinds, ObjectKinds
    <2>5. Passes("metrics", "monitor")
      BY <1>1, <2>1, <2>2, <2>3, CreateOrUpdatePasses DEF Children, WrittenOnce, MadeFromSpec
    <2> QED
      BY <2>1, <2>5, PassingKeepsRest DEF Follows, InOrder, OSOrder, Children
  <1>10. CASE OSReconcileServiceMonitor
    <2>1. kind = "OnionService" /\ pc = "monitor"
      BY <1>10 DEF OSReconcileServiceMonitor, At
    <2>2. ServiceMonitor(osTorServiceMonitor, "status")
      BY <1>10 DEF OSReconcileServiceMonitor, At
    <2>3. osTorServiceMonitor.owner \in ControllerKinds
      BY DEF osTorServiceMonitor, Fixed, FromSpec, Keyed, ControllerKinds, ObjectKinds
    <2>5. Passes("monitor", "status")
      BY <1>1, <2>1, <2>2, <2>3, ServiceMonitorPasses DEF Children, WrittenOnce, MadeFromSpec
    <2> QED
      BY <2>1, <2>5, PassingKeepsRest DEF Follows, InOrder, OSOrder, Children
  <1> QED
    BY <1>2, <1>3, <1>4, <1>5, <1>6, <1>7, <1>8, <1>9, <1>10


(***************************************************************************)
(* The children of an OnionBalancedService.                                *)
(***************************************************************************)
LEMMA OBSChildrenRest ==
    ASSUME Known, RestInv, obj.exists,
           \/ OBSReconcileSecret
           \/ OBSReconcileServiceAccount
           \/ OBSReconcileRole
           \/ OBSReconcileRolebinding
           \/ OBSReconcileService
           \/ OBSReconcileConfigMap
           \/ OBSReconcileDeployment
           \/ OBSReconcileMetricsService
           \/ OBSReconcileServiceMonitor
    PROVE  RestInv'
  <1>1. Known /\ MonitorSeen /\ CopyCurrent
    BY DEF RestInv
  <1>2. CASE OBSReconcileSecret
    <2>1. kind = "OnionBalancedService" /\ pc = "secret"
      BY <1>2 DEF OBSReconcileSecret, At
    <2>2. PICK key \in Keys : CreateOnly("secret", onionbalanceSecret(key), "serviceAccount")
      BY <1>2 DEF OBSReconcileSecret, At
    <2>3. onionbalanceSecret(key).owner \in ControllerKinds
      BY DEF onionbalanceSecret, Fixed, FromSpec, Keyed, ControllerKinds, ObjectKinds
    <2>5. Passes("secret", "serviceAccount")
      BY <1>1, <2>1, <2>2, <2>3, CreateOnlyPasses DEF Children, WrittenOnce, MadeFromSpec
    <2> QED
      BY <2>1, <2>5, PassingKeepsRest DEF Follows, InOrder, OBSOrder, Children
  <1>3. CASE OBSReconcileServiceAccount
    <2>1. kind = "OnionBalancedService" /\ pc = "serviceAccount"
      BY <1>3 DEF OBSReconcileServiceAccount, At
    <2>2. CreateOrUpdate("serviceAccount", onionbalanceServiceAccount, "role")
      BY <1>3 DEF OBSReconcileServiceAccount, At
    <2>3. onionbalanceServiceAccount.owner \in ControllerKinds
      BY DEF onionbalanceServiceAccount, Fixed, FromSpec, Keyed, ControllerKinds, ObjectKinds
    <2>5. Passes("serviceAccount", "role")
      BY <1>1, <2>1, <2>2, <2>3, CreateOrUpdatePasses DEF Children, WrittenOnce, MadeFromSpec
    <2> QED
      BY <2>1, <2>5, PassingKeepsRest DEF Follows, InOrder, OBSOrder, Children
  <1>4. CASE OBSReconcileRole
    <2>1. kind = "OnionBalancedService" /\ pc = "role"
      BY <1>4 DEF OBSReconcileRole, At
    <2>2. CreateOrUpdate("role", onionbalanceRole, "roleBinding")
      BY <1>4 DEF OBSReconcileRole, At
    <2>3. onionbalanceRole.owner \in ControllerKinds
      BY DEF onionbalanceRole, Fixed, FromSpec, Keyed, ControllerKinds, ObjectKinds
    <2>5. Passes("role", "roleBinding")
      BY <1>1, <2>1, <2>2, <2>3, CreateOrUpdatePasses DEF Children, WrittenOnce, MadeFromSpec
    <2> QED
      BY <2>1, <2>5, PassingKeepsRest DEF Follows, InOrder, OBSOrder, Children
  <1>5. CASE OBSReconcileRolebinding
    <2>1. kind = "OnionBalancedService" /\ pc = "roleBinding"
      BY <1>5 DEF OBSReconcileRolebinding, At
    <2>2. CreateOrUpdate("roleBinding", onionbalanceRolebinding, "service")
      BY <1>5 DEF OBSReconcileRolebinding, At
    <2>3. onionbalanceRolebinding.owner \in ControllerKinds
      BY DEF onionbalanceRolebinding, Fixed, FromSpec, Keyed, ControllerKinds, ObjectKinds
    <2>5. Passes("roleBinding", "service")
      BY <1>1, <2>1, <2>2, <2>3, CreateOrUpdatePasses DEF Children, WrittenOnce, MadeFromSpec
    <2> QED
      BY <2>1, <2>5, PassingKeepsRest DEF Follows, InOrder, OBSOrder, Children
  <1>6. CASE OBSReconcileService
    <2>1. kind = "OnionBalancedService" /\ pc = "service"
      BY <1>6 DEF OBSReconcileService, At
    <2>2. CreateOrUpdate("service", onionbalanceService, "configMap")
      BY <1>6 DEF OBSReconcileService, At
    <2>3. onionbalanceService.owner \in ControllerKinds /\ onionbalanceService.from = copy.gen
      BY DEF onionbalanceService, Fixed, FromSpec, Keyed, ControllerKinds, ObjectKinds
    <2>5. Passes("service", "configMap")
      BY <1>1, <2>1, <2>2, <2>3, CreateOrUpdatePasses DEF Children, WrittenOnce, MadeFromSpec
    <2> QED
      BY <2>1, <2>5, PassingKeepsRest DEF Follows, InOrder, OBSOrder, Children
  <1>7. CASE OBSReconcileConfigMap
    <2>1. kind = "OnionBalancedService" /\ pc = "configMap"
      BY <1>7 DEF OBSReconcileConfigMap, At
    <2>2. CreateOnly("configMap", onionbalanceTorConfigMap, "deployment")
      BY <1>7 DEF OBSReconcileConfigMap, At
    <2>3. onionbalanceTorConfigMap.owner \in ControllerKinds
      BY DEF onionbalanceTorConfigMap, Fixed, FromSpec, Keyed, ControllerKinds, ObjectKinds
    <2>5. Passes("configMap", "deployment")
      BY <1>1, <2>1, <2>2, <2>3, CreateOnlyPasses DEF Children, WrittenOnce, MadeFromSpec
    <2> QED
      BY <2>1, <2>5, PassingKeepsRest DEF Follows, InOrder, OBSOrder, Children
  <1>8. CASE OBSReconcileDeployment
    <2>1. kind = "OnionBalancedService" /\ pc = "deployment"
      BY <1>8 DEF OBSReconcileDeployment, At
    <2>2. CreateOrUpdate("deployment", onionbalanceDeployment, "metrics")
      BY <1>8 DEF OBSReconcileDeployment, At
    <2>3. onionbalanceDeployment.owner \in ControllerKinds /\ onionbalanceDeployment.from = copy.gen
      BY DEF onionbalanceDeployment, Fixed, FromSpec, Keyed, ControllerKinds, ObjectKinds
    <2>5. Passes("deployment", "metrics")
      BY <1>1, <2>1, <2>2, <2>3, CreateOrUpdatePasses DEF Children, WrittenOnce, MadeFromSpec
    <2> QED
      BY <2>1, <2>5, PassingKeepsRest DEF Follows, InOrder, OBSOrder, Children
  <1>9. CASE OBSReconcileMetricsService
    <2>1. kind = "OnionBalancedService" /\ pc = "metrics"
      BY <1>9 DEF OBSReconcileMetricsService, At
    <2>2. CreateOrUpdate("metrics", obsTorMetricsService, "monitor")
      BY <1>9 DEF OBSReconcileMetricsService, At
    <2>3. obsTorMetricsService.owner \in ControllerKinds
      BY DEF obsTorMetricsService, Fixed, FromSpec, Keyed, ControllerKinds, ObjectKinds
    <2>5. Passes("metrics", "monitor")
      BY <1>1, <2>1, <2>2, <2>3, CreateOrUpdatePasses DEF Children, WrittenOnce, MadeFromSpec
    <2> QED
      BY <2>1, <2>5, PassingKeepsRest DEF Follows, InOrder, OBSOrder, Children
  <1>10. CASE OBSReconcileServiceMonitor
    <2>1. kind = "OnionBalancedService" /\ pc = "monitor"
      BY <1>10 DEF OBSReconcileServiceMonitor, At
    <2>2. ServiceMonitor(obsTorServiceMonitor, "status")
      BY <1>10 DEF OBSReconcileServiceMonitor, At
    <2>3. obsTorServiceMonitor.owner \in ControllerKinds
      BY DEF obsTorServiceMonitor, Fixed, FromSpec, Keyed, ControllerKinds, ObjectKinds
    <2>5. Passes("monitor", "status")
      BY <1>1, <2>1, <2>2, <2>3, ServiceMonitorPasses DEF Children, WrittenOnce, MadeFromSpec
    <2> QED
      BY <2>1, <2>5, PassingKeepsRest DEF Follows, InOrder, OBSOrder, Children
  <1> QED
    BY <1>2, <1>3, <1>4, <1>5, <1>6, <1>7, <1>8, <1>9, <1>10


(***************************************************************************)
(* The children of a Tor object; it serves some port, so that its service  *)
(* is wanted.                                                              *)
(***************************************************************************)
LEMMA TorChildrenRest ==
    ASSUME Known, RestInv, obj.exists,
           \/ TorReconcileServiceAccount
           \/ TorReconcileRole
           \/ TorReconcileRolebinding
           \/ TorReconcileService
           \/ TorReconcileConfigMap
           \/ TorReconcileDeployment
           \/ TorReconcileMetricsService
           \/ TorReconcileServiceMonitor
    PROVE  RestInv'
  <1>1. Known /\ MonitorSeen /\ CopyCurrent
    BY DEF RestInv
  <1>2. CASE TorReconcileServiceAccount
    <2>1. kind = "Tor" /\ pc = "serviceAccount"
      BY <1>2 DEF TorReconcileServiceAccount, At
    <2>2. CreateOrUpdate("serviceAccount", torServiceAccount, "role")
      BY <1>2 DEF TorReconcileServiceAccount, At
    <2>3. torServiceAccount.owner \in ControllerKinds
      BY DEF torServiceAccount, Fixed, FromSpec, Keyed, ControllerKinds, ObjectKinds
    <2>5. Passes("serviceAccount", "role")
      BY <1>1, <2>1, <2>2, <2>3, CreateOrUpdatePasses DEF Children, WrittenOnce, MadeFromSpec
    <2> QED
      BY <2>1, <2>5, PassingKeepsRest DEF Follows, InOrder, TorOrder, Children
  <1>3. CASE TorReconcileRole
    <2>1. kind = "Tor" /\ pc = "role"
      BY <1>3 DEF TorReconcileRole, At
    <2>2. CreateOrUpdate("role", torRole, "roleBinding")
      BY <1>3 DEF TorReconcileRole, At
    <2>3. torRole.owner \in ControllerKinds
      BY DEF torRole, Fixed, FromSpec, Keyed, ControllerKinds, ObjectKinds
    <2>5. Passes("role", "roleBinding")
      BY <1>1, <2>1, <2>2, <2>3, CreateOrUpdatePasses DEF Children, WrittenOnce, MadeFromSpec
    <2> QED
      BY <2>1, <2>5, PassingKeepsRest DEF Follows, InOrder, TorOrder, Children
  <1>4. CASE TorReconcileRolebinding
    <2>1. kind = "Tor" /\ pc = "roleBinding"
      BY <1>4 DEF TorReconcileRolebinding, At
    <2>2. CreateOrUpdate("roleBinding", torRolebinding, "service")
      BY <1>4 DEF TorReconcileRolebinding, At
    <2>3. torRolebinding.owner \in ControllerKinds
      BY DEF torRolebinding, Fixed, FromSpec, Keyed, ControllerKinds, ObjectKinds
    <2>5. Passes("roleBinding", "service")
      BY <1>1, <2>1, <2>2, <2>3, CreateOrUpdatePasses DEF Children, WrittenOnce, MadeFromSpec
    <2> QED
      BY <2>1, <2>5, PassingKeepsRest DEF Follows, InOrder, TorOrder, Children
  <1>5. CASE TorReconcileService
    <2>1. kind = "Tor" /\ pc = "service"
      BY <1>5 DEF TorReconcileService, At
    <2>2. CreateIfWanted("service", torService, copy.spec.ports # {}, "secret")
      BY <1>5 DEF TorReconcileService, At
    <2>3. torService.owner \in ControllerKinds /\ torService.from = copy.gen
      BY DEF torService, Fixed, FromSpec, Keyed, ControllerKinds, ObjectKinds
    <2>4. copy.spec.ports # {}
      BY <1>1, <2>1 DEF Known, TypeOK
    <2>5. Passes("service", "secret")
      BY <1>1, <2>1, <2>2, <2>3, <2>4, CreateIfWantedPasses DEF Children, WrittenOnce, MadeFromSpec
    <2> QED
      BY <2>1, <2>5, PassingKeepsRest DEF Follows, InOrder, TorOrder, Children
  <1>6. CASE TorReconcileConfigMap
    <2>1. kind = "Tor" /\ pc = "configMap"
      BY <1>6 DEF TorReconcileConfigMap, At
    <2>2. CreateOnly("configMap", torConfigMap, "deployment")
      BY <1>6 DEF TorReconcileConfigMap, At
    <2>3. torConfigMap.owner \in ControllerKinds
      BY DEF torConfigMap, Fixed, FromSpec, Keyed, ControllerKinds, ObjectKinds
    <2>5. Passes("configMap", "deployment")
      BY <1>1, <2>1, <2>2, <2>3, CreateOnlyPasses DEF Children, WrittenOnce, MadeFromSpec
    <2> QED
      BY <2>1, <2>5, PassingKeepsRest DEF Follows, InOrder, TorOrder, Children
  <1>7. CASE TorReconcileDeployment
    <2>1. kind = "Tor" /\ pc = "deployment"
      BY <1>7 DEF TorReconcileDeployment, At
    <2>2. CreateOrUpdate("deployment", torDeployment, "metrics")
      BY <1>7 DEF TorReconcileDeployment, At
    <2>3. torDeployment.owner \in ControllerKinds /\ torDeployment.from = copy.gen
      BY DEF torDeployment, Fixed, FromSpec, Keyed, ControllerKinds, ObjectKinds
    <2>5. Passes("deployment", "metrics")
      BY <1>1, <2>1, <2>2, <2>3, CreateOrUpdatePasses DEF Children, WrittenOnce, MadeFromSpec
    <2> QED
      BY <2>1, <2>5, PassingKeepsRest DEF Follows, InOrder, TorOrder, Children
  <1>8. CASE TorReconcileMetricsService
    <2>1. kind = "Tor" /\ pc = "metrics"
      BY <1>8 DEF TorReconcileMetricsService, At
    <2>2. CreateIfWanted("metrics", torMetricsService, "metrics" \in copy.spec.ports, "monitor")
      BY <1>8 DEF TorReconcileMetricsService, At
    <2>3. torMetricsService.owner \in ControllerKinds
      BY DEF torMetricsService, Fixed, FromSpec, Keyed, ControllerKinds, ObjectKinds
    <2>5. Passes("metrics", "monitor")
      BY <1>1, <2>1, <2>2, <2>3, CreateIfWantedPasses DEF Children, WrittenOnce, MadeFromSpec
    <2> QED
      BY <2>1, <2>5, PassingKeepsRest DEF Follows, InOrder, TorOrder, Children
  <1>9. CASE TorReconcileServiceMonitor
    <2>1. kind = "Tor" /\ pc = "monitor"
      BY <1>9 DEF TorReconcileServiceMonitor, At
    <2>2. ServiceMonitor(torServiceMonitor, "status")
      BY <1>9 DEF TorReconcileServiceMonitor, At
    <2>3. torServiceMonitor.owner \in ControllerKinds
      BY DEF torServiceMonitor, Fixed, FromSpec, Keyed, ControllerKinds, ObjectKinds
    <2>5. Passes("monitor", "status")
      BY <1>1, <2>1, <2>2, <2>3, ServiceMonitorPasses DEF Children, WrittenOnce, MadeFromSpec
    <2> QED
      BY <2>1, <2>5, PassingKeepsRest DEF Follows, InOrder, TorOrder, Children
  <1> QED
    BY <1>2, <1>3, <1>4, <1>5, <1>6, <1>7, <1>8, <1>9


(***************************************************************************)
(* The control secret: the reconcile goes on when there is one.             *)
(***************************************************************************)
LEMMA TorControlSecretRest ==
    ASSUME Known, RestInv, obj.exists, TorReconcileControlSecret
    PROVE  RestInv'
  <1>1. PICK got \in Versions("secret"), password \in Passwords :
            /\ Get("secret", got)
            /\ children' = IF got = Absent /\ ~(got = Absent /\ children["secret"] # Absent)
                           THEN [children EXCEPT !["secret"] = torSecret(password)] ELSE children
            /\ \/ Requeue
               \/ /\ ~(got = Absent /\ children["secret"] # Absent)
                  /\ pc' = "configMap" /\ UNCHANGED queued
                  /\ copy' = [copy EXCEPT !.key =
                                 InUse(IF got = Absent THEN password ELSE got.key)]
    BY DEF TorReconcileControlSecret
  <1>2. /\ kind = "Tor" /\ pc = "secret" /\ UNCHANGED <<kind, obj, world, cache, halted>>
        /\ "secret" \in Children \ {"monitor"} /\ "secret" \notin MadeFromSpec
    BY DEF TorReconcileControlSecret, At, others, Children, MadeFromSpec
  <1>3. TypeOK /\ NoOwnerMeansAbsent /\ MonitorSeen
    BY DEF Known, RestInv
  <1>4. torSecret(password) # Absent /\ Ours(torSecret(password))
    BY DEF torSecret, Keyed, Absent, Ours, ControllerKinds, ObjectKinds
  <1>5. PICK x : children' = [children EXCEPT !["secret"] = x]
    <2>1. children = [children EXCEPT !["secret"] = children["secret"]]
      BY <1>3 DEF TypeOK
    <2> QED
      BY <1>1, <2>1
  <1>6. /\ \A d \in Children \ {"secret"} : children'[d] = children[d] /\ seen'[d] = seen[d]
        /\ MonitorSeen'
    BY <1>1, <1>2, <1>3, <1>5, GetLeavesOthers
  <1>7. CASE Requeue
    BY <1>2, <1>6, <1>7, PassingKeepsRest DEF Passes, Follows
  <1>8. CASE /\ ~(got = Absent /\ children["secret"] # Absent)
             /\ pc' = "configMap" /\ UNCHANGED queued
             /\ copy' = [copy EXCEPT !.key =
                            InUse(IF got = Absent THEN password ELSE got.key)]
    <2>1. copy'.fresh = copy.fresh /\ copy'.gen = copy.gen /\ copy'.spec = copy.spec
      BY <1>3, <1>8 DEF TypeOK
    <2>2. Reflects("secret")'
      <3>1. CASE got = Absent
        <4>1. children'["secret"] = torSecret(password)
          BY <1>1, <1>2, <1>3, <1>8, <3>1 DEF TypeOK
        <4> QED
          BY <1>2, <1>4, <4>1, MadeReflects
      <3>2. CASE got # Absent
        <4>1. children' = children
          BY <1>1, <3>2
        <4>2. children["secret"] # Absent
          BY <1>1, <1>2, <3>2, GetSound
        <4> QED
          BY <1>2, <1>3, <4>1, <4>2, PresentIsOwned, OthersReflect, MadeReflects
      <3> QED
        BY <3>1, <3>2
    <2>3. Passes("secret", "configMap")
      BY <1>2, <1>6, <1>8, <2>1, <2>2 DEF Passes
    <2> QED
      BY <1>2, <2>3, PassingKeepsRest DEF Follows
  <1> QED
    BY <1>1, <1>7, <1>8

(***************************************************************************)
(* The status is written from a copy of the object as it is, when all       *)
(* children are seen to: the reconciler may rest.                           *)
(***************************************************************************)
LEMMA ReportingKeepsRest ==
    ASSUME Known, RestInv, obj.exists, kind \in ObjectKinds, pc = "status", copy.fresh,
           NEW got \in Versions("service"), Get("service", got),
           obj'.spec = obj.spec, obj'.gen = obj.gen,
           UNCHANGED <<kind, world, children, halted>>, Done \/ Requeue
    PROVE  RestInv'
  <1>1. seen'["monitor"] = seen["monitor"]
    <2>1. {"service", "monitor"} \subseteq Children
      BY DEF Children
    <2> QED
      BY <2>1, GetShows DEF Known
  <1>2. \A c \in ChildrenOf(kind) : Past(c, "status")
    <2>1. CASE kind = "OnionService"
      BY <2>1 DEF Past, OSRank, ChildrenOf, Children
    <2>2. CASE kind = "OnionBalancedService"
      BY <2>2 DEF Past, OBSRank, ChildrenOf, Children
    <2>3. CASE kind = "Tor"
      BY <2>3 DEF Past, TorRank, ChildrenOf, Children
    <2> QED
      BY <2>1, <2>2, <2>3 DEF ObjectKinds
  <1>3. Reflected /\ MonitorSeen
    BY <1>2 DEF RestInv, Progress, Reflected
  <1>4. Reflected' /\ MonitorSeen'
    BY <1>1, <1>3, ChildrenAsBefore
  <1>5. ~copy'.fresh
    BY DEF Done, Requeue, NoCopy
  <1> QED
    BY <1>4, <1>5 DEF RestInv, CopyCurrent, Progress, Rested

LEMMA StatusRest ==
    ASSUME Known, RestInv, obj.exists, OSReportStatus \/ OBSReportStatus \/ TorReportStatus
    PROVE  RestInv'
  <1>1. PICK got \in Versions("service") : Get("service", got)
    BY DEF OSReportStatus, OBSReportStatus, TorReportStatus
  <1>2. /\ pc = "status" /\ copy.fresh /\ UNCHANGED <<kind, world, children, halted>>
        /\ Done \/ Requeue
    BY DEF OSReportStatus, OBSReportStatus, TorReportStatus, At, StatusUpdate
  <1>3. obj'.spec = obj.spec /\ obj'.gen = obj.gen
    BY DEF OSReportStatus, OBSReportStatus, TorReportStatus, StatusUpdate, Known, TypeOK
  <1> QED
    BY <1>1, <1>2, <1>3, KindIsOne, ReportingKeepsRest DEF Known

(***************************************************************************)
(* The status cannot be written, a rule lacks its service or its port, a    *)
(* call fails: the request comes back, or the reconcile has ended for good. *)
(***************************************************************************)
LEMMA FailingKeepsRest ==
    ASSUME Known, RestInv, obj.exists,
           TorServiceMissing \/ StatusConflict \/ OSTargetMissing \/ CallFails
    PROVE  RestInv'
  <1>1. Requeue /\ UNCHANGED <<obj, children>>
    BY DEF TorServiceMissing, StatusConflict, OSTargetMissing, CallFails
  <1>2. seen'["monitor"] = seen["monitor"]
    <2>1. CASE TorServiceMissing
      <3>1. {"service", "monitor"} \subseteq Children
        BY DEF Children
      <3> QED
        BY <2>1, <3>1, GetShows DEF TorServiceMissing, Known
    <2>2. CASE StatusConflict \/ OSTargetMissing \/ CallFails
      BY <2>2 DEF StatusConflict, OSTargetMissing, CallFails
    <2> QED
      BY <2>1, <2>2
  <1>3. MonitorSeen'
    BY <1>1, <1>2 DEF RestInv, MonitorSeen
  <1> QED
    BY <1>1, <1>3, RequeueKeepsRest DEF Requeue

LEMMA RulesRest ==
    ASSUME Known, RestInv, obj.exists, OSPortMissing \/ OSRulesHold
    PROVE  RestInv'
  <1>1. /\ kind = "OnionService" /\ UNCHANGED <<kind, obj, world, children, seen, cache>>
        /\ MonitorSeen /\ CopyCurrent
    BY DEF OSPortMissing, OSRulesHold, At, RestInv
  <1>2. CASE OSPortMissing
    BY <1>1, <1>2 DEF OSPortMissing, Done, NoCopy, RestInv, CopyCurrent, MonitorSeen, Progress, Rested
  <1>3. CASE OSRulesHold
    <2>1. UNCHANGED copy /\ pc' = "auth"
      BY <1>3 DEF OSRulesHold, Goto
    <2>2. Progress'
      BY <1>1, <2>1 DEF Progress, Past, OSRank, ChildrenOf, Children
    <2> QED
      BY <1>1, <2>1, <2>2 DEF RestInv, CopyCurrent, MonitorSeen, Rested
  <1> QED
    BY <1>2, <1>3

---------------------------------------------------------------------------
(* The other steps *)

(***************************************************************************)
(* A reconcile begins with the object as the cache shows it; Tor's defaults *)
(* only add to its ports.                                                   *)
(***************************************************************************)
LEMMA FetchRest == ASSUME Known, RestInv, obj.exists, Fetch PROVE RestInv'
  <1>1. /\ UNCHANGED <<kind, obj, world, children, seen, cache>> /\ pc' = FirstStep[kind]
        /\ copy' = [gen |-> cache.gen, fresh |-> cache.fresh, hostname |-> cache.hostname,
                    key |-> NoKey,
                    spec |-> IF kind = "Tor"
                             THEN [cache.spec EXCEPT !.ports = SetTorDefaults(@)] ELSE cache.spec]
    BY DEF Fetch
  <1>2. TypeOK /\ FreshSound /\ MonitorSeen /\ kind \in ObjectKinds
    BY KindIsOne DEF Known, RestInv
  <1>3. MonitorSeen'
    BY <1>1, <1>2 DEF MonitorSeen
  <1>4. CopyCurrent'
    <2> SUFFICES ASSUME cache.fresh
                 PROVE  /\ copy'.gen = obj.gen
                        /\ copy'.spec.monitor = obj.spec.monitor
                        /\ obj.spec.ports \subseteq copy'.spec.ports
      BY <1>1 DEF CopyCurrent
    <2>1. cache.gen = obj.gen /\ cache.spec = obj.spec /\ obj.spec \in SpecType
      BY <1>2 DEF FreshSound, Current, TypeOK
    <2>2. CASE kind = "Tor"
      <3>1. copy'.spec = [obj.spec EXCEPT !.ports = SetTorDefaults(obj.spec.ports)]
        BY <1>1, <2>1, <2>2 DEF SpecType
      <3>2. obj.spec.ports \subseteq SetTorDefaults(obj.spec.ports)
        BY DEF SetTorDefaults
      <3> QED
        BY <1>1, <2>1, <3>1, <3>2 DEF SpecType
    <2>3. CASE kind # "Tor"
      BY <1>1, <2>1, <2>3
    <2> QED
      BY <2>2, <2>3
  <1>5. pc' # "idle" /\ \A c \in ChildrenOf(kind) : ~Past(c, pc')
    <2>1. CASE kind = "OnionService"
      BY <1>1, <2>1 DEF FirstStep, Past, OSRank, ChildrenOf, Children
    <2>2. CASE kind = "OnionBalancedService"
      BY <1>1, <2>2 DEF FirstStep, Past, OBSRank, ChildrenOf, Children
    <2>3. CASE kind = "Tor"
      BY <1>1, <2>3 DEF FirstStep, Past, TorRank, ChildrenOf, Children
    <2> QED
      BY <1>2, <2>1, <2>2, <2>3 DEF ObjectKinds
  <1>6. Progress' /\ Rested'
    BY <1>1, <1>5 DEF Progress, Rested, Past, ChildrenOf
  <1> QED
    BY <1>3, <1>4, <1>6 DEF RestInv

(***************************************************************************)
(* The cache catches up: if it shows a new spec, the request is queued.     *)
(***************************************************************************)
LEMMA CacheKeepsRest == ASSUME Known, RestInv, Sync \/ FetchNotFound PROVE RestInv'
  <1>1. CASE Sync
    <2>1. /\ UNCHANGED <<kind, obj, world, children, seen, pc, copy, halted>>
          /\ queued' = (queued \/ cache.gen # obj.gen \/ cache.exists # obj.exists)
          /\ cache'.exists = obj.exists
      BY <1>1 DEF Sync, Current
    <2>2. CASE obj.exists
      <3>1. ~queued' => ~queued /\ cache.exists /\ cache.gen = obj.gen
        <4>1. queued \in BOOLEAN /\ cache.exists \in BOOLEAN
          BY DEF Known, TypeOK
        <4> QED
          BY <2>1, <2>2, <4>1
      <3> QED
        BY <2>1, <3>1, StandingKeepsRest
    <2>3. CASE ~obj.exists
      BY <2>1, <2>3 DEF RestInv
    <2> QED
      BY <2>2, <2>3
  <1>2. CASE FetchNotFound
    BY <1>2, StandingKeepsRest DEF FetchNotFound
  <1> QED
    BY <1>1, <1>2

(***************************************************************************)
(* A successor of a process that has died sees everything and starts anew.  *)
(***************************************************************************)
LEMMA CrashRest == ASSUME obj.exists, Crash PROVE RestInv'
  BY RequeueKeepsRest DEF Crash, MonitorSeen

(***************************************************************************)
(* A write to the object makes the copies of it old; one of the spec has    *)
(* a generation that no cache shows.                                        *)
(***************************************************************************)
LEMMA WriteKeepsRest ==
    ASSUME Known, RestInv, obj.exists, EditSpec \/ Delete \/ AgentPublishes
    PROVE  RestInv'
  <1>1. /\ UNCHANGED <<kind, world, children, seen, queued, pc, halted>>
        /\ ~copy'.fresh /\ cache'.gen = cache.gen /\ cache'.exists = cache.exists
        /\ MonitorSeen
    BY DEF EditSpec, Delete, AgentPublishes, Outdate, Known, TypeOK, RestInv
  <1>2. CASE EditSpec
    <2>1. cache'.gen # obj'.gen
      <3>1. /\ obj \in ObjType /\ obj.gen \in Nat
            /\ cache.gen \in Nat /\ cache.gen <= obj.gen
        BY DEF Known, TypeOK, ObjType
      <3>2. PICK spec : obj' = [obj EXCEPT !.gen = obj.gen + 1, !.spec = spec]
        BY <1>2 DEF EditSpec
      <3>3. obj'.gen = obj.gen + 1
        BY <3>1, <3>2 DEF ObjType
      <3> QED
        BY <1>1, <3>1, <3>3
    <2> QED
      BY <1>1, <2>1 DEF RestInv, CopyCurrent, MonitorSeen, Progress, Rested
  <1>3. CASE Delete
    BY <1>3 DEF Delete, Known, TypeOK, RestInv
  <1>4. CASE AgentPublishes
    <2>1. obj'.exists = obj.exists /\ obj'.spec = obj.spec /\ obj'.gen = obj.gen
      BY <1>4 DEF AgentPublishes, Known, TypeOK
    <2> QED
      BY <1>1, <2>1, StandingKeepsRest
  <1> QED
    BY <1>2, <1>3, <1>4

(***************************************************************************)
(* What the object refers to does not decide what its children are.         *)
(***************************************************************************)
LEMMA WorldKeepsRest ==
    ASSUME Known, RestInv, ChangeTarget \/ ChangeRef \/ BackendsPublish
    PROVE  RestInv'
  <1>1. UNCHANGED <<kind, obj, children, seen, cache, queued, pc, copy, halted>>
    BY DEF ChangeTarget, ChangeRef, BackendsPublish, ChangeWorld
  <1>2. world'.crd = world.crd
    BY DEF ChangeTarget, ChangeRef, BackendsPublish, ChangeWorld, Known, TypeOK
  <1> QED
    BY <1>1, <1>2, StandingKeepsRest

(***************************************************************************)
(* A name that is taken is taken.                                           *)
(***************************************************************************)
LEMMA TakeNameKeepsRest ==
    ASSUME Known, RestInv, NEW c \in Children, TakeName(c)
    PROVE  RestInv'
  <1>1. /\ obj.exists /\ children[c] = Absent
        /\ UNCHANGED <<kind, obj, world, seen, cache, queued, pc, copy, halted>>
        /\ CopyCurrent /\ MonitorSeen /\ Progress /\ Rested
    BY DEF TakeName, RestInv
  <1>2. /\ children'[c].owner = "other"
        /\ \A d \in Children \ {c} : children'[d] = children[d]
    BY DEF TakeName, Foreign, Known, TypeOK
  <1>3. \A d \in ChildrenOf(kind) : Reflects(d) => Reflects(d)'
    <2> SUFFICES ASSUME NEW d \in ChildrenOf(kind), Reflects(d) PROVE Reflects(d)'
      OBVIOUS
    <2>1. CASE d = c
      BY <1>2, <2>1, OthersReflect
    <2>2. CASE d # c
      <3>1. children'[d] = children[d]
        BY <1>2, <2>2 DEF ChildrenOf
      <3> QED
        BY <1>1, <3>1, ReflectsSame
    <2> QED
      BY <2>1, <2>2
  <1>4. CopyCurrent'
    BY <1>1 DEF CopyCurrent
  <1>5. MonitorSeen'
    <2>1. "monitor" \in Children
      BY DEF Children
    <2> QED
      BY <1>1, <1>2, <2>1 DEF MonitorSeen
  <1>6. Progress'
    BY <1>1, <1>3 DEF Progress, Past, ChildrenOf
  <1>7. Rested'
    BY <1>1, <1>3 DEF Rested, Reflected, ChildrenOf
  <1> QED
    BY <1>4, <1>5, <1>6, <1>7 DEF RestInv

---------------------------------------------------------------------------
(* The theorem *)

(***************************************************************************)
(* At the start the request is queued and no reconcile has begun.           *)
(***************************************************************************)
LEMMA InitRest == ASSUME Init PROVE RestInv
  <1>1. /\ queued /\ ~copy.fresh /\ seen["monitor"] = children["monitor"]
    BY DEF Init, NoCopy
  <1> QED
    BY <1>1 DEF RestInv, CopyCurrent, MonitorSeen, Progress, Rested

(***************************************************************************)
(* An object that is gone stays gone.                                       *)
(***************************************************************************)
LEMMA GoneForGood == ASSUME IInv, [Next]_vars, ~obj.exists PROVE ~obj'.exists
  <1>1. CASE UNCHANGED obj
    BY <1>1
  <1>2. CASE obj' # obj
    <2>1. CASE OSReconcile
      BY <1>2, <2>1 DEF OSReconcile, OSTargetMissing, OSPortMissing, OSRulesHold,
         OSReconcileSecretAuthorizedClients, OSReconcileSecret, OSReconcileServiceAccount,
         OSReconcileRole, OSReconcileRolebinding, OSReconcileService, OSReconcileDeployment,
         OSReconcileMetricsService, OSReconcileServiceMonitor, OSReportStatus, StatusUpdate,
         CreateOnly, CreateOrUpdate, ServiceMonitor, others
    <2>2. CASE OBSReconcile
      BY <1>2, <2>2 DEF OBSReconcile, OBSReconcileSecret, OBSReconcileServiceAccount,
         OBSReconcileRole, OBSReconcileRolebinding, OBSReconcileService, OBSReconcileConfigMap,
         OBSReconcileDeployment, OBSReconcileMetricsService, OBSReconcileServiceMonitor,
         OBSReportStatus, StatusUpdate, CreateOnly, CreateOrUpdate, ServiceMonitor, others
    <2>3. CASE TorReconcile
      BY <1>2, <2>3 DEF TorReconcile, TorReconcileServiceAccount, TorReconcileRole,
         TorReconcileRolebinding, TorReconcileService, TorReconcileControlSecret,
         TorReconcileConfigMap, TorReconcileDeployment, TorReconcileMetricsService,
         TorReconcileServiceMonitor, TorServiceMissing, TorReportStatus, StatusUpdate,
         CreateOnly, CreateOrUpdate, CreateIfWanted, ServiceMonitor, others
    <2>4. CASE Fetch \/ FetchNotFound \/ StatusConflict \/ Sync \/ CallFails \/ Crash \/ Collect
      BY <1>2, <2>4 DEF Fetch, FetchNotFound, StatusConflict, Sync, CallFails, Crash, Collect
    <2>5. CASE ChangeTarget \/ ChangeRef \/ BackendsPublish
      BY <1>2, <2>5 DEF ChangeTarget, ChangeRef, BackendsPublish, ChangeWorld
    <2>6. CASE EditSpec \/ Delete \/ AgentPublishes
      BY <2>6 DEF EditSpec, Delete, AgentPublishes
    <2>7. ASSUME NEW c, TakeName(c)
          PROVE  FALSE
      BY <2>7 DEF TakeName
    <2>8. CASE UNCHANGED vars
      BY <1>2, <2>8 DEF vars
    <2> QED
      BY <2>1, <2>2, <2>3, <2>4, <2>5, <2>6, <2>7, <2>8 DEF Next, Reconcile
  <1> QED
    BY <1>1, <1>2

LEMMA NextKeepsRest == ASSUME IInv, RestInv, [Next]_vars PROVE RestInv'
  <1> SUFFICES ASSUME obj.exists PROVE RestInv'
    BY GoneForGood DEF RestInv
  <1>1. Known
    BY DEF IInv
  <1>2. CASE OSReconcile
    BY <1>1, <1>2, FailingKeepsRest, RulesRest, OSChildrenRest, StatusRest DEF OSReconcile
  <1>3. CASE OBSReconcile
    BY <1>1, <1>3, OBSChildrenRest, StatusRest DEF OBSReconcile
  <1>4. CASE TorReconcile
    BY <1>1, <1>4, TorChildrenRest, TorControlSecretRest, FailingKeepsRest, StatusRest
    DEF TorReconcile
  <1>5. CASE Fetch \/ FetchNotFound \/ StatusConflict \/ Sync \/ CallFails \/ Crash
    BY <1>1, <1>5, FetchRest, CacheKeepsRest, FailingKeepsRest, CrashRest
  <1>6. CASE EditSpec \/ Delete \/ AgentPublishes
    BY <1>1, <1>6, WriteKeepsRest
  <1>7. CASE ChangeTarget \/ ChangeRef \/ BackendsPublish
    BY <1>1, <1>7, WorldKeepsRest
  <1>8. CASE Collect
    BY <1>8 DEF Collect
  <1>9. ASSUME NEW c \in Names \cap ChildrenOf(kind), TakeName(c)
        PROVE  RestInv'
    BY <1>1, <1>9, NamesAssumption, TakeNameKeepsRest
  <1>10. CASE UNCHANGED vars
    BY <1>10, StandingKeepsRest DEF vars
  <1> QED
    BY <1>2, <1>3, <1>4, <1>5, <1>6, <1>7, <1>8, <1>9, <1>10 DEF Next, Reconcile

(***************************************************************************)
(* Once the worker rests and the cache shows the last spec, every child     *)
(* reflects it, or the reconcile ended at a rule without its port: whatever *)
(* users, agents, failures and restarts came between any two calls of any   *)
(* reconcile (the Reconcile functions of the three controllers and the      *)
(* predicate of their SetupWithManager).                                    *)
(***************************************************************************)
THEOREM RestsReflected == Spec => []RestsOnlyWhenReflected
  <1>1. Init => RestInv
    BY InitRest
  <1>2. IInv /\ RestInv /\ [Next]_vars => RestInv'
    BY NextKeepsRest
  <1>3. RestInv => RestsOnlyWhenReflected
    BY DEF RestInv, Rested, RestsOnlyWhenReflected
  <1> QED
    BY <1>1, <1>2, <1>3, Invariant, PTL DEF Spec
=============================================================================
