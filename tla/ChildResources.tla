--------------------------- MODULE ChildResources ---------------------------
(***************************************************************************)
(* What the three reconcilers of the operator (src/controllers/tor) share:  *)
(* one object, whose kind is chosen at the start, the children they create  *)
(* for it, and the calls of which a reconcile consists.  The modules        *)
(* OnionServiceReconciler, BalancedChildren and TorReconciler say which     *)
(* calls each reconciler makes in which order; Reconcilers composes them.   *)
(*                                                                          *)
(* An operator reads through caches that lag behind and writes to the API   *)
(* server directly.  Each call of a reconcile is an action, so that users,  *)
(* agents and the garbage collector act between any two of them.            *)
(***************************************************************************)
EXTENDS Naturals, FiniteSets

CONSTANTS
    Specs,          \* per kind: the specs a user may write
    Targets,        \* the services the rule of an OnionService may find
    Installed,      \* may the CRD of the service monitors be installed?
    Names,          \* the children whose names somebody else may take
    Keys,           \* the key pairs GenerateOnionV3 may draw
    Passwords,      \* the passwords generateRandomPassword may draw
    Given,          \* a password of the user's own: in the spec of a Tor object
                    \* or in the secret that it refers to
    NoKey,          \* no key, the empty hostname
    MaxGeneration,  \* bound: how often a user may write the spec
    Faults,         \* what may go wrong: a subset of FaultKinds
    MaxFaults       \* bound: how often something goes wrong

ObjectKinds == {"OnionService", "OnionBalancedService", "Tor"}

Children == {"auth", "secret", "serviceAccount", "role", "roleBinding", "service",
             "configMap", "deployment", "metrics", "monitor"}

FaultKinds == {"api", "stale", "crash", "other"}

ASSUME BoundsAssumption == MaxGeneration \in Nat \ {0} /\ MaxFaults \in Nat
ASSUME FaultsAssumption == Faults \subseteq FaultKinds
ASSUME KeysAssumption ==
    /\ Keys # {} /\ Passwords # {}
    /\ Given \notin Passwords /\ NoKey \notin Keys \cup Passwords \cup {Given}
ASSUME NamesAssumption == Names \subseteq Children
ASSUME InstalledAssumption == Installed \subseteq BOOLEAN

VARIABLES
    kind,      \* the kind of the object, constant
    obj,       \* the object at the API server
    world,     \* what it refers to: a service, a secret, a CRD, its backends
    children,  \* the objects under the children's names at the API server
    seen,      \* per child: what the operator's cache returned last
    cache,     \* the object in the operator's cache
    queued,    \* the request is in the work queue
    pc,        \* the call the reconcile makes next
    copy,      \* the local variables of the reconcile
    halted,    \* the last reconcile ended at a rule without its port
    faults     \* how often something may still go wrong

vars == <<kind, obj, world, children, seen, cache, queued, pc, copy, halted, faults>>

---------------------------------------------------------------------------
(* The children *)

Absent == [owner |-> "none", from |-> 0, key |-> NoKey]

(***************************************************************************)
(* A child names its owner by kind and uid.  IsControlledBy compares the    *)
(* uid alone; the garbage collector looks the kind up, in its own spelling. *)
(***************************************************************************)
ControllerKinds == ObjectKinds \cup {"onionbalancedservice", "tor"}

Ours(child) == child.owner \in ControllerKinds

\* Somebody else's: of an object of another kind with the same name, whose
\* children have the same names, or a user's.
Foreign(key) == [owner |-> "other", from |-> 0, key |-> key]

\* A child whose content is the same for every spec, one that is made from the
\* spec of a generation, and one that holds a key.
Fixed(owner) == [owner |-> owner, from |-> 0, key |-> NoKey]
FromSpec(owner) == [owner |-> owner, from |-> copy.gen, key |-> NoKey]
Keyed(owner, key) == [owner |-> owner, from |-> 0, key |-> key]

---------------------------------------------------------------------------
(* The steps of a reconcile *)

Fault(what) ==
    /\ what \in Faults /\ faults > 0
    /\ faults' = faults - 1

NoSpec == [monitor |-> FALSE, ports |-> {}, ref |-> FALSE, inline |-> FALSE]

NoCopy == [gen |-> 0, spec |-> NoSpec, fresh |-> FALSE, hostname |-> NoKey, key |-> NoKey]

At(k, step) == kind = k /\ pc = step

Goto(step) ==
    /\ pc' = step
    /\ UNCHANGED <<queued, copy>>

\* The reconcile returns an error: the work queue hands the request out again.
Requeue ==
    /\ pc' = "idle" /\ copy' = NoCopy
    /\ queued' = TRUE

\* The reconcile returns nil.
Done ==
    /\ pc' = "idle" /\ copy' = NoCopy
    /\ UNCHANGED queued

(***************************************************************************)
(* r.Get of a child from the cache: the child as it is, or, if somebody has *)
(* created, deleted or replaced it since, as it was when the cache was read *)
(* last.  Of an older version nothing but the owner and the key is used.    *)
(***************************************************************************)
Versions(c) ==
    {children[c]} \cup IF seen[c].owner # children[c].owner THEN {seen[c]} ELSE {}

Get(c, got) ==
    /\ seen' = [seen EXCEPT ![c] = [got EXCEPT !.from = 0]]
    /\ IF got = children[c] THEN UNCHANGED faults ELSE Fault("stale")

\* r.Create: AlreadyExists is an error like any other.
Create(c, new, next) ==
    IF children[c] = Absent
    THEN children' = [children EXCEPT ![c] = new] /\ Goto(next)
    ELSE UNCHANGED children /\ Requeue

\* A variant of Update that deletes first and creates in the next pass.
UpdateByRecreate(c, new, next) ==
    IF children[c] = Absent
    THEN children' = [children EXCEPT ![c] = new] /\ Goto(next)
    ELSE children' = [children EXCEPT ![c] = Absent] /\ Requeue

(***************************************************************************)
(* r.Update of an object that the reconciler has made itself: it carries    *)
(* neither uid nor resourceVersion, and replaces whatever has the name.     *)
(* Where there is nothing it is an error, for most kinds; the API server    *)
(* creates services, roles and role bindings.                               *)
(***************************************************************************)
Update(c, new, next) ==
    \/ /\ children[c] # Absent \/ c \in {"role", "roleBinding", "service", "metrics"}
       /\ children' = [children EXCEPT ![c] = new] /\ Goto(next)
    \/ children[c] = Absent /\ UNCHANGED children /\ Requeue

Skip(next) == UNCHANGED children /\ Goto(next)

others == <<kind, obj, world, cache, halted>>

\* Get, and Create if there is nothing.
CreateOnly(c, new, next) ==
    /\ \E got \in Versions(c) :
          /\ Get(c, got)
          /\ \/ got = Absent /\ Create(c, new, next)
             \/ got # Absent /\ Skip(next)
    /\ UNCHANGED others

\* A variant of CreateOrUpdate that does not ask who controls what it finds.
CreateOrOverwrite(c, new, next) ==
    /\ \E got \in Versions(c) :
          /\ Get(c, got)
          /\ \/ got = Absent /\ Create(c, new, next)
             \/ got # Absent /\ Update(c, new, next)
    /\ UNCHANGED others

\* A variant of CreateOrUpdate that never updates.
CreateOrKeep(c, new, next) == CreateOnly(c, new, next)

(***************************************************************************)
(* Get, and Create if there is nothing; leave what somebody else controls;  *)
(* Update the rest.  The comparisons before the Update (utils_equal.go)     *)
(* include metadata and status, which the server sets: a child that was     *)
(* read never equals one that was made, and is updated every time.  One     *)
(* just created is compared with itself.                                    *)
(***************************************************************************)
CreateOrUpdate(c, new, next) ==
    /\ \E got \in Versions(c) :
          /\ Get(c, got)
          /\ \/ got = Absent /\ Create(c, new, next)
             \/ got # Absent /\ ~Ours(got) /\ Skip(next)
             \/ Ours(got) /\ Update(c, new, next)
    /\ UNCHANGED others

\* As above, but not created unless wanted.
CreateIfWanted(c, new, wanted, next) ==
    /\ \E got \in Versions(c) :
          /\ Get(c, got)
          /\ \/ got = Absent /\ wanted /\ Create(c, new, next)
             \/ got = Absent /\ ~wanted /\ Skip(next)
             \/ got # Absent /\ ~Ours(got) /\ Skip(next)
             \/ Ours(got) /\ Update(c, new, next)
    /\ UNCHANGED others

\* r.Delete, by name: NotFound is an error.
Remove(c, next) ==
    IF children[c] # Absent
    THEN children' = [children EXCEPT ![c] = Absent] /\ Goto(next)
    ELSE UNCHANGED children /\ Requeue

(***************************************************************************)
(* reconcileServiceMonitor.  An existing monitor never equals the new one   *)
(* either, but its Update fails: the API server refuses one without         *)
(* resourceVersion for the objects of custom resource definitions.          *)
(***************************************************************************)
ServiceMonitor(new, next) ==
    /\ \/ ~world.crd /\ Skip(next) /\ UNCHANGED <<seen, faults>>
       \/ /\ world.crd
          /\ \E got \in Versions("monitor") :
                /\ Get("monitor", got)
                /\ \/ got = Absent /\ copy.spec.monitor /\ Create("monitor", new, next)
                   \/ got = Absent /\ ~copy.spec.monitor /\ Skip(next)
                   \/ got # Absent /\ ~Ours(got) /\ Skip(next)
                   \/ Ours(got) /\ ~copy.spec.monitor /\ Remove("monitor", next)
                   \/ Ours(got) /\ copy.spec.monitor /\ UNCHANGED children /\ Requeue
    /\ UNCHANGED others

\* A variant of StatusUpdate that overwrites newer versions of the object.
StatusOverwrite(new) ==
    /\ obj.exists
    /\ obj' = new
    /\ cache' = [cache EXCEPT !.fresh = @ /\ new = obj]

\* r.Status().Update with the resourceVersion the reconcile began with.
StatusUpdate(new) ==
    /\ obj.exists /\ copy.fresh
    /\ obj' = new
    /\ cache' = [cache EXCEPT !.fresh = @ /\ new = obj]

\* A variant of StatusConflict that leaves it to the next change.
StatusConflictForgotten ==
    /\ pc = "status" /\ ~(obj.exists /\ copy.fresh)
    /\ Done
    /\ UNCHANGED <<kind, obj, world, children, seen, cache, halted, faults>>

StatusConflict ==
    /\ pc = "status" /\ ~(obj.exists /\ copy.fresh)
    /\ Requeue
    /\ UNCHANGED <<kind, obj, world, children, seen, cache, halted, faults>>
=============================================================================
