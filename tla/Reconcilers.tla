---------------------------- MODULE Reconcilers ----------------------------
(***************************************************************************)
(* An operator at work on one object of any of the three kinds: its cache,  *)
(* its queue, the reconciler of the kind; users who edit and delete the     *)
(* object, the agent that publishes its hostname, owners of objects under   *)
(* the children's names, the garbage collector; failures and restarts.      *)
(***************************************************************************)
EXTENDS OnionServiceReconciler, BalancedChildren, TorReconciler

SpecType == [monitor : BOOLEAN, ports : SUBSET (ClientOrServer \cup {"control", "metrics"}),
             ref : BOOLEAN, inline : BOOLEAN]

\* The secret a Tor object refers to: not there, there without the key that is
\* named, with it.
RefTypes == {"missing", "keyless", "there"}

ASSUME SpecsAssumption == \A k \in DOMAIN Specs : k \in ObjectKinds /\ Specs[k] \subseteq SpecType

NoTarget == [exists |-> FALSE, ports |-> {}]

FirstStep == [OnionService |-> "rules", OnionBalancedService |-> "secret",
              Tor |-> "serviceAccount"]

ChildrenOf(k) == Children \ CASE k = "OnionService" -> {"configMap"}
                              [] OTHER -> {"auth"}

Mounts == CASE kind = "OnionService" -> OSMounts
            [] kind = "OnionBalancedService" -> OBSMounts
            [] kind = "Tor" -> TorMounts

Secrets == Keys \cup Passwords \cup {Given, NoKey}

ChildType == [owner : ControllerKinds \cup {"none", "other"}, from : 0 .. MaxGeneration,
              key : Secrets]

\* Besides the types: what is made from a spec is made from one that was
\* written, and a Tor object that is reconciled serves some port.
TypeOK ==
    /\ kind \in DOMAIN Specs
    /\ obj \in [exists : BOOLEAN, gen : 1 .. MaxGeneration, spec : SpecType,
                target : {"unset", "default", "real"}, hostname : Keys \cup {NoKey},
                listed : BOOLEAN]
    /\ world \in [target : Targets \cup {NoTarget}, ref : RefTypes, crd : BOOLEAN,
                  published : BOOLEAN]
    /\ children \in [Children -> ChildType]
    /\ seen \in [Children -> ChildType]
    /\ cache \in [exists : BOOLEAN, gen : 1 .. obj.gen, spec : SpecType, fresh : BOOLEAN,
                  hostname : Keys \cup {NoKey}]
    /\ queued \in BOOLEAN /\ halted \in BOOLEAN
    /\ pc \in {"idle", "rules", "status"} \cup Children
    /\ copy \in [gen : 0 .. cache.gen, spec : SpecType, fresh : BOOLEAN,
                 hostname : Keys \cup {NoKey}, key : Secrets]
    /\ faults \in 0 .. MaxFaults
    /\ \A c \in Children : children[c].from <= obj.gen
    /\ kind = "Tor" /\ pc # "idle" => copy.spec.ports \cap ClientOrServer # {}

Current == [exists |-> obj.exists, gen |-> obj.gen, spec |-> obj.spec, fresh |-> TRUE,
            hostname |-> obj.hostname]

Init ==
    /\ kind \in DOMAIN Specs
    /\ \E spec \in Specs[kind] :
          obj = [exists |-> TRUE, gen |-> 1, spec |-> spec, target |-> "unset",
                 hostname |-> NoKey, listed |-> FALSE]
    /\ \E target \in IF kind = "OnionService" THEN Targets ELSE {NoTarget}, crd \in Installed :
          \E ref \in IF kind = "Tor" THEN RefTypes ELSE {"missing"} :
              world = [target |-> target, ref |-> ref, crd |-> crd, published |-> FALSE]
    /\ children = [c \in Children |-> Absent]
    /\ seen = children
    /\ cache = Current
    /\ queued = TRUE
    /\ pc = "idle" /\ copy = NoCopy
    /\ halted = FALSE
    /\ faults = MaxFaults

---------------------------------------------------------------------------
(* The operator *)

\* The informer catches up.  GenerationChangedPredicate: a change of the status
\* enqueues nothing; no child is watched.
Sync ==
    /\ ~cache.fresh
    /\ cache' = Current
    /\ queued' = (queued \/ cache.gen # obj.gen \/ cache.exists # obj.exists)
    /\ UNCHANGED <<kind, obj, world, children, seen, pc, copy, halted, faults>>

\* The worker takes the request; a Tor object gets its defaults.
Fetch ==
    /\ pc = "idle" /\ queued /\ cache.exists
    /\ queued' = FALSE
    /\ pc' = FirstStep[kind]
    /\ copy' = [gen |-> cache.gen, fresh |-> cache.fresh, hostname |-> cache.hostname,
                key |-> NoKey,
                spec |-> IF kind = "Tor"
                         THEN [cache.spec EXCEPT !.ports = SetTorDefaults(@)] ELSE cache.spec]
    /\ halted' = FALSE
    /\ UNCHANGED <<kind, obj, world, children, seen, cache, faults>>

FetchNotFound ==
    /\ pc = "idle" /\ queued /\ ~cache.exists
    /\ queued' = FALSE
    /\ UNCHANGED <<kind, obj, world, children, seen, cache, pc, copy, halted, faults>>

CallFails ==
    /\ pc # "idle" /\ Fault("api")
    /\ Requeue
    /\ UNCHANGED <<kind, obj, world, children, seen, cache, halted>>

\* The process dies; its successor lists everything and finds the object new.
Crash ==
    /\ Fault("crash")
    /\ seen' = children /\ cache' = Current
    /\ queued' = obj.exists
    /\ pc' = "idle" /\ copy' = NoCopy /\ halted' = FALSE
    /\ UNCHANGED <<kind, obj, world, children>>

---------------------------------------------------------------------------
(* Everybody else; what they do once the object is gone is left out, but    *)
(* for the garbage collector.                                               *)

Outdate == cache' = [cache EXCEPT !.fresh = FALSE] /\ copy' = [copy EXCEPT !.fresh = FALSE]

EditSpec ==
    /\ obj.exists /\ obj.gen < MaxGeneration
    /\ \E spec \in Specs[kind] \ {obj.spec} :
          obj' = [obj EXCEPT !.gen = @ + 1, !.spec = spec]
    /\ Outdate
    /\ UNCHANGED <<kind, world, children, seen, queued, pc, halted, faults>>

\* Bounded like an edit.
Delete ==
    /\ obj.exists /\ obj.gen < MaxGeneration
    /\ obj' = [obj EXCEPT !.exists = FALSE]
    /\ Outdate
    /\ UNCHANGED <<kind, world, children, seen, queued, pc, halted, faults>>

Collectable == {c \in Children : children[c].owner \in ObjectKinds}

\* The garbage collector removes what has an owner of a kind it knows, here in
\* one sweep: no reconcile looks at two children to compare them.
Collect ==
    /\ ~obj.exists /\ Collectable # {}
    /\ children' = [c \in Children |-> IF c \in Collectable THEN Absent ELSE children[c]]
    /\ UNCHANGED <<kind, obj, world, seen, cache, queued, pc, copy, halted, faults>>

ChangeWorld(new) ==
    /\ world' = new
    /\ UNCHANGED <<kind, obj, children, seen, cache, queued, pc, copy, halted>>

\* Someone creates, changes or deletes the service of the rule ...
ChangeTarget ==
    /\ kind = "OnionService" /\ obj.exists /\ Fault("other")
    /\ \E target \in Targets \ {world.target} : ChangeWorld([world EXCEPT !.target = target])

\* ... or the secret with the password ...
ChangeRef ==
    /\ kind = "Tor" /\ obj.exists /\ Fault("other")
    /\ \E ref \in RefTypes \ {world.ref} : ChangeWorld([world EXCEPT !.ref = ref])

\* ... and the agents of the backends publish their hostnames.
BackendsPublish ==
    /\ kind = "OnionBalancedService" /\ obj.exists /\ ~world.published
    /\ ChangeWorld([world EXCEPT !.published = TRUE])
    /\ UNCHANGED faults

Supplied == \A c \in Mounts : children[c] # Absent

\* The agent in the pod publishes the hostname of the secret it mounts.
AgentPublishes ==
    /\ kind = "OnionService" /\ obj.exists /\ obj.hostname = NoKey
    /\ children["deployment"] # Absent /\ Supplied /\ children["secret"].key \in Keys
    /\ obj' = [obj EXCEPT !.hostname = children["secret"].key]
    /\ Outdate
    /\ UNCHANGED <<kind, world, children, seen, queued, pc, halted, faults>>

SomeKey == IF kind = "Tor" THEN CHOOSE p \in Passwords : TRUE ELSE CHOOSE k \in Keys : TRUE

\* Somebody else creates an object under the name of a child, the secret of a
\* Tor object with a password in it.
TakeName(c) ==
    /\ Fault("other")
    /\ obj.exists /\ children[c] = Absent
    /\ children' = [children EXCEPT ![c] = IF c = "secret" THEN Foreign(SomeKey) ELSE Foreign(NoKey)]
    /\ UNCHANGED <<kind, obj, world, seen, cache, queued, pc, copy, halted>>

---------------------------------------------------------------------------

Reconcile == Fetch \/ FetchNotFound \/ OSReconcile \/ OBSReconcile \/ TorReconcile \/ StatusConflict

Next ==
    \/ Sync \/ Reconcile \/ CallFails \/ Crash
    \/ EditSpec \/ Delete \/ ChangeTarget \/ ChangeRef \/ BackendsPublish \/ AgentPublishes
    \/ Collect \/ \E c \in Names \cap ChildrenOf(kind) : TakeName(c)

Spec == Init /\ [][Next]_vars

\* The watch delivers, the worker works, garbage is collected.  Nobody has
\* to edit, to publish, to provide what is referred to, or to fail.
Fairness ==
    /\ WF_vars(Sync) /\ WF_vars(Reconcile) /\ WF_vars(Collect)

FairSpec == Spec /\ Fairness

---------------------------------------------------------------------------
(* Properties *)

Updated == {"serviceAccount", "role", "roleBinding", "service", "deployment"}

MadeFromSpec == {"service", "deployment"}

Reflects(c) ==
    \/ children[c].owner = "other"
    \/ /\ c = "monitor"
       /\ world.crd => IF obj.spec.monitor THEN children[c] # Absent
                       ELSE Absent \in {children[c], seen[c]}
    \/ c = "metrics" /\ kind = "Tor" /\ "metrics" \notin obj.spec.ports
    \/ c # "monitor" /\ Ours(children[c]) /\ (c \in MadeFromSpec => children[c].from = obj.gen)

Reflected == \A c \in ChildrenOf(kind) : Reflects(c)

(***************************************************************************)
(* The operator only rests on an object when every child is there, what     *)
(* follows the spec follows the last one, and a monitor exists just if it   *)
(* is wanted; or when it ended at a rule without its port.  Nothing watches *)
(* the children: what is missing at rest stays missing.  The exception in   *)
(* Reflects is real: a monitor that the cache does not show yet when it is  *)
(* no longer wanted stays.                                                  *)
(***************************************************************************)
RestsOnlyWhenReflected ==
    obj.exists /\ pc = "idle" /\ ~queued /\ cache.exists /\ cache.gen = obj.gen
        => Reflected \/ halted

(***************************************************************************)
(* What somebody else controls under a child's name is neither updated nor  *)
(* deleted as long as the object exists ("already exists and is not         *)
(* controlled by", e.g. onionservice_role.go:65), even if it came after     *)
(* the operator's cache was filled.  Not so a monitor: the only child that  *)
(* goes while the object stays may be another's when a cache still shows    *)
(* the operator's own, and is then deleted by name.                         *)
(***************************************************************************)
ForeignUntouched ==
    [][obj.exists => \A c \in Children \ {"monitor"} :
           children[c].owner = "other" => children'[c] = children[c]]_vars

(***************************************************************************)
(* The password hashed in a Tor's config map is one a user can know: his    *)
(* own or the one stored in the control secret, whatever was drawn and lost *)
(* on the way.  Both children are written once.  As long as the spec is the *)
(* one the config map was made from, a control port has the password that   *)
(* the spec lists, and else the stored one, unless the spec refers to       *)
(* secrets: a secret without the key that is named leaves the control port  *)
(* without any password, for good.                                          *)
(***************************************************************************)
PasswordAgreed ==
    kind = "Tor" /\ obj.exists /\ children["configMap"].owner = "Tor" =>
        LET hashed == children["configMap"].key
            stored == children["secret"].key
        IN /\ hashed \in {NoKey, Given, stored}
           /\ children["configMap"].from = obj.gen /\ "control" \in obj.spec.ports
                => \/ obj.spec.ref
                   \/ hashed = IF obj.spec.inline THEN Given ELSE stored

(***************************************************************************)
(* What the pods of the deployment mount or run as exists when the          *)
(* deployment does: they would hang otherwise, until a reconcile that       *)
(* nothing need cause.                                                      *)
(***************************************************************************)
DeploymentSupplied == obj.exists /\ Ours(children["deployment"]) => Supplied

(***************************************************************************)
(* The operator writes the status from a copy taken when the reconcile      *)
(* began, and never takes back the hostname that the agent has published.   *)
(***************************************************************************)
HostnameKept == [][obj.hostname # NoKey => obj'.hostname = obj.hostname]_vars

\* What the spec refers to is not there, or the last reconcile ended because
\* the service of the rule lacked the port.
Unprovided ==
    \/ halted
    \/ kind = "OnionService" /\ ~world.target.exists
    \/ obj.spec.ref /\ world.ref = "missing"

(***************************************************************************)
(* As long as the object exists a child that is there stays, in the same    *)
(* hands and with the key or password it was created with, and what it is   *)
(* made from is never an older spec than before: every pass of a reconcile  *)
(* updates blindly, without a resourceVersion, from the copy it began with. *)
(* The monitor is the child that goes.                                      *)
(***************************************************************************)
ChildrenOnlyAdvance ==
    [][obj.exists => \A c \in Children \ {"monitor"} : children[c] # Absent =>
           /\ children'[c] # Absent
           /\ Ours(children'[c]) = Ours(children[c])
           /\ children'[c].key = children[c].key
           /\ children'[c].from >= children[c].from]_vars

StoredKey == IF children["secret"] = Absent THEN "no secret" ELSE children["secret"].key

\* The password hashed in a Tor's config map, unless it is the user's own.
Configured ==
    [m \in {"configMap"} |->
        IF kind = "Tor" /\ children[m].owner = "Tor" /\ children[m].key # Given
        THEN children[m].key ELSE NoKey]

(***************************************************************************)
(* The key pair or the control password of an object is an identity as      *)
(* MasterIdentity promises it: what the secret stores is the address, the   *)
(* hostname the agent publishes is the published one, and the config map of *)
(* a Tor follows it.                                                        *)
(***************************************************************************)
Identity == INSTANCE MasterIdentity WITH
    Members <- {"configMap"},
    Addresses <- Keys \cup Passwords,
    NoAddress <- NoKey,
    NoSecret <- "no secret",
    alive <- obj.exists,
    address <- StoredKey,
    published <- obj.hostname,
    master <- Configured

(***************************************************************************)
(* Whatever is drawn anew in each reconcile, read from a stale cache or     *)
(* put there by others, seen from outside the object chooses one key or     *)
(* password, publishes it once, and configures its tor for that one.        *)
(***************************************************************************)
ImplementsIdentity == Identity!Spec

(***************************************************************************)
(* The operator only rests on an object when its status says what there is  *)
(* to say, for an OnionBalancedService that all backends are there, or when *)
(* it ended at a rule without its port: neither a conflict nor an error nor *)
(* a restart leaves it unsaid, and only RequeueAfter brings the operator    *)
(* back to the backends, which it does not watch.                           *)
(***************************************************************************)
RestsOnlyWhenReported ==
    obj.exists /\ pc = "idle" /\ ~queued =>
        \/ obj.target # "unset" /\ (kind = "OnionBalancedService" => obj.listed)
        \/ halted

(***************************************************************************)
(* In the end the children reflect the last spec, after any failures and    *)
(* restarts, if what it refers to is provided.                              *)
(***************************************************************************)
EventuallyReflected == <>[](obj.exists => Reflected \/ Unprovided)

Reported ==
    /\ obj.target # "unset"
    /\ world.published => obj.listed

(***************************************************************************)
(* In the end the status says what the operator has to say in it, for an    *)
(* OnionBalancedService the hostnames of its backends: "Finally, we update  *)
(* the status block" (e.g. onionbalancedservice_controller.go:148).         *)
(***************************************************************************)
EventuallyReported == <>[](obj.exists => Reported \/ Unprovided)

(***************************************************************************)
(* That holds where no service monitor is wanted in the end, whatever was   *)
(* wanted, failed or raced before.                                          *)
(***************************************************************************)
ReportedUnlessMonitored == <>[](obj.exists /\ ~obj.spec.monitor => Reported \/ Unprovided)

(***************************************************************************)
(* Nothing of a deleted object is left in the end, although a reconcile may *)
(* be under way and create it again; but for the two children of an         *)
(* OnionBalancedService whose owner's kind is in lower case.                *)
(***************************************************************************)
DeletionIsFinal ==
    <>[](~obj.exists => \A c \in Children :
            \/ ~Ours(children[c])
            \/ kind = "OnionBalancedService" /\ c \in {"configMap", "roleBinding"})
=============================================================================
