----------------------- MODULE ReconcilersStepsProofs -----------------------
(***************************************************************************)
(* What the steps of the three reconcilers do to children and status, for   *)
(* every choice of the constants: children only advance                     *)
(* (ChildrenOnlyAdvance), the key or password is an identity as             *)
(* MasterIdentity promises it (ImplementsIdentity), and the operator only   *)
(* rests when the status is written (RestsOnlyWhenReported).                *)
(***************************************************************************)
EXTENDS ReconcilersProofs

---------------------------------------------------------------------------
(* The inductive invariant *)

(***************************************************************************)
(* No child is ahead of the cache, nor of the copy a reconcile works with:  *)
(* the only cache is never older than what was made from it.  Only secrets  *)
(* and config maps hold keys, and a secret that is there holds one.         *)
(***************************************************************************)
Behind ==
    obj.exists =>
        /\ cache.exists
        /\ \A c \in Children \ {"monitor"} :
              /\ children[c].from <= cache.gen
              /\ pc # "idle" => children[c].from <= copy.gen
              /\ c \notin MadeFromSpec \cup WrittenOnce => children[c].from = 0
              /\ c \notin {"secret", "configMap"} => children[c].key = NoKey
        /\ children["secret"] # Absent => children["secret"].key \in Keys \cup Passwords

StepInv == IInv /\ Behind /\ RestsOnlyWhenReported

\* What a step has to do, as ChildrenOnlyAdvance and MasterIdentity say it.
Advance ==
    obj.exists => \A c \in Children \ {"monitor"} : children[c] # Absent =>
        /\ children'[c] # Absent
        /\ Ours(children'[c]) = Ours(children[c])
        /\ children'[c].key = children[c].key
        /\ children'[c].from >= children[c].from

IdentityStep == [Identity!Next]_Identity!vars

Does == Behind' /\ RestsOnlyWhenReported' /\ Advance /\ IdentityStep

---------------------------------------------------------------------------
(* The identity, seen from outside *)

(***************************************************************************)
(* A step that leaves the secret, the config map and what the object is     *)
(* known under alone is not seen.                                           *)
(***************************************************************************)
LEMMA NotSeen ==
    ASSUME UNCHANGED kind, obj'.exists = obj.exists, obj'.hostname = obj.hostname,
           children'["secret"] = children["secret"],
           children'["configMap"] = children["configMap"]
    PROVE  IdentityStep
  <1>1. UNCHANGED <<StoredKey, Configured>>
    BY DEF StoredKey, Configured
  <1> QED
    BY <1>1 DEF IdentityStep, Identity!vars

(***************************************************************************)
(* Nor is anything promised once the object is gone.                        *)
(***************************************************************************)
LEMMA GoneSeen ==
    ASSUME ~obj.exists, ~obj'.exists, obj'.hostname = obj.hostname
    PROVE  IdentityStep
  BY DEF IdentityStep, Identity!Next, Identity!Gone

(***************************************************************************)
(* A secret that comes about is the choice.                                 *)
(***************************************************************************)
LEMMA ChoiceSeen ==
    ASSUME UNCHANGED <<kind, obj>>, obj.exists, obj.exists \in BOOLEAN,
           children["secret"] = Absent, children'["secret"] # Absent,
           children'["secret"].key \in Keys \cup Passwords,
           children'["configMap"] = children["configMap"]
    PROVE  IdentityStep
  <1>1. StoredKey = "no secret" /\ StoredKey' \in Keys \cup Passwords
    BY DEF StoredKey
  <1>2. Configured' = Configured
    BY DEF Configured
  <1>3. Identity!Choose
    BY <1>1, <1>2 DEF Identity!Choose
  <1> QED
    BY <1>3 DEF IdentityStep, Identity!Next

(***************************************************************************)
(* A config map that comes about with the stored password joins; one with   *)
(* the user's or none, or somebody else's, is not seen.                     *)
(***************************************************************************)
LEMMA JoinSeen ==
    ASSUME UNCHANGED <<kind, obj>>, obj.exists,
           children["configMap"] = Absent,
           children'["secret"] = children["secret"],
           kind = "Tor" /\ children'["configMap"].owner = "Tor" =>
               /\ children["secret"] # Absent
               /\ children["secret"].key \in Keys \cup Passwords
               /\ children'["configMap"].key \in {NoKey, Given, children["secret"].key}
    PROVE  IdentityStep
  <1>1. UNCHANGED StoredKey
    BY DEF StoredKey
  <1>2. /\ Configured \in [{"configMap"} -> {NoKey}]
        /\ Configured["configMap"] = NoKey
    BY DEF Configured, Absent
  <1>3. CASE /\ kind = "Tor" /\ children'["configMap"].owner = "Tor"
             /\ children'["configMap"].key \notin {NoKey, Given}
    <2>1. StoredKey = children["secret"].key /\ StoredKey \in Keys \cup Passwords
      BY <1>3 DEF StoredKey
    <2>2. Configured' = [Configured EXCEPT !["configMap"] = StoredKey]
      BY <1>3, <2>1 DEF Configured
    <2>3. Identity!Join("configMap")
      BY <1>1, <1>2, <2>1, <2>2 DEF Identity!Join
    <2> QED
      BY <2>3 DEF IdentityStep, Identity!Next
  <1>4. CASE ~(/\ kind = "Tor" /\ children'["configMap"].owner = "Tor"
               /\ children'["configMap"].key \notin {NoKey, Given})
    <2>1. UNCHANGED Configured
      BY <1>4 DEF Configured, Absent
    <2> QED
      BY <1>1, <2>1 DEF IdentityStep, Identity!vars
  <1> QED
    BY <1>3, <1>4

---------------------------------------------------------------------------
(* Steps that leave the children as they are *)

(***************************************************************************)
(* No child is ahead of what is fetched from the cache, or listed anew.     *)
(***************************************************************************)
LEMMA ChildrenStand ==
    ASSUME StepInv, UNCHANGED <<kind, children>>, obj'.exists => obj.exists,
           obj'.exists => cache'.exists,
           cache'.gen \in {cache.gen, obj.gen},
           pc' = "idle" \/ (pc # "idle" /\ copy'.gen = copy.gen) \/ copy'.gen = cache.gen
    PROVE  Behind' /\ Advance
  <1>1. /\ TypeOK /\ Behind
        /\ \A c \in Children : children[c].from \in Nat /\ children[c].from <= obj.gen
    BY DEF StepInv, IInv, Known, TypeOK, ChildType
  <1>2. Behind'
    BY <1>1 DEF Behind
  <1>3. Advance
    BY <1>1 DEF Advance, Ours
  <1> QED
    BY <1>2, <1>3

(***************************************************************************)
(* The rules of an OnionService, errors, and nothing to do.                 *)
(***************************************************************************)
LEMMA ReturnsDo ==
    ASSUME StepInv,
           \/ OSTargetMissing
           \/ OSPortMissing
           \/ OSRulesHold
           \/ TorServiceMissing
           \/ StatusConflict
           \/ CallFails
           \/ FetchNotFound
           \/ UNCHANGED vars
    PROVE  Does
  <1>1. /\ UNCHANGED <<kind, obj, world, children, cache>>
        /\ \/ pc' = "idle" /\ (queued' \/ halted')
           \/ pc = "rules" /\ pc' = "auth" /\ copy' = copy
           \/ UNCHANGED <<pc, copy>> /\ (~cache.exists \/ UNCHANGED <<queued, halted>>)
    BY DEF OSTargetMissing, OSPortMissing, OSRulesHold, TorServiceMissing, StatusConflict, CallFails,
           FetchNotFound, vars, Requeue, Done, Goto, At
  <1>2. obj.exists => cache.exists
    BY DEF StepInv, Behind
  <1>3. Behind' /\ Advance
    BY <1>1, <1>2, ChildrenStand
  <1>4. RestsOnlyWhenReported'
    BY <1>1, <1>2 DEF RestsOnlyWhenReported, StepInv
  <1>5. IdentityStep
    BY <1>1, NotSeen
  <1> QED
    BY <1>3, <1>4, <1>5 DEF Does

(***************************************************************************)
(* The cache catches up, a request is fetched, a process dies.              *)
(***************************************************************************)
LEMMA CacheDoes == ASSUME StepInv, Sync \/ Fetch \/ Crash PROVE Does
  <1>1. /\ UNCHANGED <<kind, obj, world, children>>
        /\ cache' = cache \/ cache' = Current
        /\ \/ pc' = "idle" /\ (obj.exists => queued')
           \/ pc' = FirstStep[kind] /\ copy'.gen = cache.gen
           \/ UNCHANGED <<pc, copy, halted>> /\ (queued => queued')
    <2>1. CASE Sync
      BY <2>1 DEF Sync
    <2>2. CASE Fetch
      BY <2>2 DEF Fetch
    <2>3. CASE Crash
      <3>1. queued' = obj.exists
        BY <2>3 DEF Crash
      <3>2. obj.exists => queued'
        BY <3>1, Zenon
      <3> QED
        BY <2>3, <3>2 DEF Crash
    <2> QED
      BY <2>1, <2>2, <2>3
  <1>2. (obj.exists => cache'.exists) /\ cache'.gen \in {cache.gen, obj.gen}
    BY <1>1 DEF Current, StepInv, Behind
  <1>3. FirstStep[kind] # "idle"
    BY KindIsOne DEF StepInv, IInv, Known, FirstStep, ObjectKinds
  <1>4. Behind' /\ Advance
    BY <1>1, <1>2, ChildrenStand
  <1>5. RestsOnlyWhenReported'
    BY <1>1, <1>3 DEF RestsOnlyWhenReported, StepInv
  <1>6. IdentityStep
    BY <1>1, NotSeen
  <1> QED
    BY <1>4, <1>5, <1>6 DEF Does

(***************************************************************************)
(* The status is written, and the reconcile ends, or comes back for the     *)
(* backends.                                                                *)
(***************************************************************************)
LEMMA StatusDoes ==
    ASSUME StepInv, OSReportStatus \/ OBSReportStatus \/ TorReportStatus
    PROVE  Does
  <1>1. PICK target \in {"default", "real"}, hostname \in {obj.hostname, copy.hostname},
             listed \in BOOLEAN :
            /\ StatusUpdate([obj EXCEPT !.target = target, !.hostname = hostname,
                                        !.listed = listed])
            /\ pc' = "idle"
            /\ kind = "OnionBalancedService" => listed \/ queued'
            /\ UNCHANGED <<kind, children>>
    <2>1. TypeOK
      BY DEF StepInv, IInv, Known
    <2>2. /\ obj.target \in {"unset", "default", "real"} /\ obj.listed \in BOOLEAN
          /\ world.published \in BOOLEAN
          /\ obj = [obj EXCEPT !.hostname = obj.hostname]
      BY <2>1 DEF TypeOK
    <2>3. CASE OSReportStatus
      <3>1. PICK got \in Versions("service") :
                StatusUpdate([obj EXCEPT !.target = IF got = Absent THEN "default" ELSE "real",
                                         !.hostname = copy.hostname])
        BY <2>3 DEF OSReportStatus
      <3> DEFINE target == IF got = Absent THEN "default" ELSE "real"
      <3>2. [obj EXCEPT !.target = target, !.hostname = copy.hostname]
                = [obj EXCEPT !.target = target, !.hostname = copy.hostname, !.listed = obj.listed]
        BY <2>1 DEF TypeOK
      <3>3. /\ pc' = "idle" /\ kind # "OnionBalancedService" /\ UNCHANGED <<kind, children>>
        BY <2>3 DEF OSReportStatus, Done, At
      <3>4. target \in {"default", "real"}
        OBVIOUS
      <3> QED
        BY <2>2, <3>1, <3>2, <3>3, <3>4
    <2>4. CASE OBSReportStatus
      <3>1. PICK got \in Versions("service") :
                /\ StatusUpdate([obj EXCEPT !.target = IF got = Absent THEN "default" ELSE "real",
                                            !.listed = world.published])
                /\ IF world.published THEN Done ELSE Requeue
        BY <2>4 DEF OBSReportStatus
      <3> DEFINE target == IF got = Absent THEN "default" ELSE "real"
      <3>2. [obj EXCEPT !.target = target, !.listed = world.published]
                = [obj EXCEPT !.target = target, !.hostname = obj.hostname,
                              !.listed = world.published]
        BY <2>1 DEF TypeOK
      <3>3. /\ pc' = "idle" /\ (world.published \/ queued') /\ UNCHANGED <<kind, children>>
        BY <2>4, <3>1 DEF OBSReportStatus, Done, Requeue
      <3>4. target \in {"default", "real"}
        OBVIOUS
      <3> QED
        BY <2>2, <3>1, <3>2, <3>3, <3>4
    <2>5. CASE TorReportStatus
      <3>1. /\ StatusUpdate([obj EXCEPT !.target = "real"])
            /\ pc' = "idle" /\ kind # "OnionBalancedService" /\ UNCHANGED <<kind, children>>
        BY <2>5 DEF TorReportStatus, Done, At
      <3>2. [obj EXCEPT !.target = "real"]
                = [obj EXCEPT !.target = "real", !.hostname = obj.hostname, !.listed = obj.listed]
        BY <2>1 DEF TypeOK
      <3> QED
        BY <2>2, <3>1, <3>2
    <2> QED
      BY <2>3, <2>4, <2>5
  <1>2. /\ obj.exists /\ copy.fresh /\ copy.hostname = obj.hostname
    BY <1>1 DEF StatusUpdate, StepInv, IInv, Known, FreshSound
  <1>3. /\ obj'.exists = obj.exists /\ obj'.hostname = obj.hostname
        /\ obj'.target # "unset" /\ obj'.listed = listed
        /\ cache'.exists = cache.exists /\ cache'.gen = cache.gen
    BY <1>1, <1>2 DEF StatusUpdate, StepInv, IInv, Known, TypeOK
  <1>4. Behind' /\ Advance
    BY <1>1, <1>2, <1>3, ChildrenStand DEF StepInv, Behind
  <1>5. RestsOnlyWhenReported'
    BY <1>1, <1>3 DEF RestsOnlyWhenReported
  <1>6. IdentityStep
    BY <1>1, <1>3, NotSeen
  <1> QED
    BY <1>4, <1>5, <1>6 DEF Does

(***************************************************************************)
(* Users edit and delete the object: to the identity only the end matters.  *)
(***************************************************************************)
LEMMA UserDoes == ASSUME StepInv, EditSpec \/ Delete PROVE Does
  <1>1. TypeOK /\ obj.exists
    BY DEF StepInv, IInv, Known, EditSpec, Delete
  <1>2. /\ UNCHANGED <<kind, children, queued, pc, halted>>
        /\ obj'.hostname = obj.hostname /\ obj'.target = obj.target /\ obj'.listed = obj.listed
        /\ cache'.exists = cache.exists /\ cache'.gen = cache.gen /\ copy'.gen = copy.gen
        /\ \/ obj'.exists = obj.exists
           \/ ~obj'.exists
    <2>1. CASE EditSpec
      <3>1. PICK spec : obj' = [obj EXCEPT !.gen = @ + 1, !.spec = spec]
        BY <2>1 DEF EditSpec
      <3> QED
        BY <1>1, <2>1, <3>1 DEF EditSpec, Outdate, TypeOK
    <2>2. CASE Delete
      BY <1>1, <2>2 DEF Delete, Outdate, TypeOK
    <2> QED
      BY <2>1, <2>2
  <1>3. Behind' /\ Advance
    BY <1>1, <1>2, ChildrenStand DEF StepInv, Behind
  <1>4. RestsOnlyWhenReported'
    BY <1>1, <1>2 DEF RestsOnlyWhenReported, StepInv
  <1>5. IdentityStep
    <2>1. CASE obj'.exists = obj.exists
      BY <1>2, <2>1, NotSeen
    <2>2. CASE ~obj'.exists
      <3>1. UNCHANGED <<StoredKey, Configured>>
        BY <1>2 DEF StoredKey, Configured
      <3>2. obj'.exists = FALSE
        <4>1. CASE EditSpec
          <5>1. PICK spec : obj' = [obj EXCEPT !.gen = @ + 1, !.spec = spec]
            BY <4>1 DEF EditSpec
          <5>2. obj'.exists = obj.exists
            BY <1>1, <5>1 DEF TypeOK
          <5> QED
            BY <1>1, <2>2, <5>2
        <4>2. CASE Delete
          BY <1>1, <4>2 DEF Delete, TypeOK
        <4> QED
          BY <4>1, <4>2
      <3>3. Identity!Delete
        BY <1>1, <1>2, <3>1, <3>2 DEF Identity!Delete
      <3> QED
        BY <3>3 DEF IdentityStep, Identity!Next
    <2> QED
      BY <1>2, <2>1, <2>2
  <1> QED
    BY <1>3, <1>4, <1>5 DEF Does

(***************************************************************************)
(* The agent publishes what the secret stores.                              *)
(***************************************************************************)
LEMMA AgentPublishesDoes == ASSUME StepInv, AgentPublishes PROVE Does
  <1>1. TypeOK /\ obj.exists
    BY DEF StepInv, IInv, Known, AgentPublishes
  <1>2. /\ UNCHANGED <<kind, children, queued, pc, halted>>
        /\ obj'.hostname = children["secret"].key /\ obj'.target = obj.target
        /\ obj'.listed = obj.listed /\ obj'.exists = obj.exists
        /\ cache'.exists = cache.exists /\ cache'.gen = cache.gen /\ copy'.gen = copy.gen
    BY <1>1 DEF AgentPublishes, Outdate, TypeOK
  <1>3. Behind' /\ Advance
    BY <1>1, <1>2, ChildrenStand DEF StepInv, Behind
  <1>4. RestsOnlyWhenReported'
    BY <1>1, <1>2 DEF RestsOnlyWhenReported, StepInv
  <1>5. Identity!Publish
    <2>1. children["secret"].key \in Keys /\ obj.hostname = NoKey
      BY DEF AgentPublishes
    <2>2. StoredKey = children["secret"].key
      <3>1. Absent.key = NoKey /\ NoKey \notin Keys
        BY KeysAssumption DEF Absent
      <3> QED
        BY <2>1, <3>1 DEF StoredKey
    <2>3. UNCHANGED <<StoredKey, Configured>>
      BY <1>2 DEF StoredKey, Configured
    <2> QED
      BY <1>1, <1>2, <2>1, <2>2, <2>3 DEF Identity!Publish
  <1> QED
    BY <1>3, <1>4, <1>5 DEF Does, IdentityStep, Identity!Next

(***************************************************************************)
(* What the object refers to changes.                                       *)
(***************************************************************************)
LEMMA WorldDoes == ASSUME StepInv, ChangeTarget \/ ChangeRef \/ BackendsPublish PROVE Does
  <1>1. UNCHANGED <<kind, obj, children, cache, queued, pc, copy, halted>>
    BY DEF ChangeTarget, ChangeRef, BackendsPublish, ChangeWorld
  <1>2. Behind' /\ Advance
    BY <1>1, ChildrenStand DEF StepInv, Behind
  <1>3. RestsOnlyWhenReported'
    BY <1>1 DEF RestsOnlyWhenReported, StepInv
  <1>4. IdentityStep
    BY <1>1, NotSeen
  <1> QED
    BY <1>2, <1>3, <1>4 DEF Does

(***************************************************************************)
(* Garbage is collected once the object is gone.                            *)
(***************************************************************************)
LEMMA CollectDoes == ASSUME Collect PROVE Does
  <1>1. ~obj.exists /\ UNCHANGED obj
    BY DEF Collect
  <1> QED
    BY <1>1, GoneSeen DEF Does, Behind, RestsOnlyWhenReported, Advance

---------------------------------------------------------------------------
(* Steps that write a child *)

(***************************************************************************)
(* Somebody else takes a name that is free; the secret of a Tor object has  *)
(* a password in it.                                                        *)
(***************************************************************************)
LEMMA TakeNameDoes == ASSUME StepInv, NEW c \in Children, TakeName(c) PROVE Does
  <1>1. TypeOK /\ Behind /\ obj.exists
    BY DEF StepInv, IInv, Known, TakeName
  <1>2. SomeKey \in Keys \cup Passwords
    BY KeysAssumption DEF SomeKey
  <1>3. /\ UNCHANGED <<kind, obj, world, cache, queued, pc, copy, halted>>
        /\ children[c] = Absent
        /\ \A d \in Children \ {c} : children'[d] = children[d]
        /\ children'[c] = IF c = "secret" THEN Foreign(SomeKey) ELSE Foreign(NoKey)
    BY <1>1 DEF TakeName, TypeOK
  <1>4. /\ children'[c].from = 0 /\ children'[c] # Absent /\ children'[c].owner = "other"
        /\ c = "secret" => children'[c].key \in Keys \cup Passwords
        /\ c # "secret" => children'[c].key = NoKey
    BY <1>2, <1>3 DEF Foreign, Absent
  <1>5. Behind'
    <2>1. cache.gen \in Nat /\ copy.gen \in Nat
      BY <1>1 DEF TypeOK
    <2> QED
      BY <1>1, <1>3, <1>4, <2>1 DEF Behind, Children
  <1>6. Advance
    <2>1. \A d \in Children : children[d].from \in Nat
      BY <1>1 DEF TypeOK, ChildType
    <2> QED
      BY <1>3, <2>1 DEF Advance, Ours
  <1>7. RestsOnlyWhenReported'
    BY <1>3 DEF RestsOnlyWhenReported, StepInv
  <1>8. IdentityStep
    <2>1. CASE c = "secret"
      BY <1>1, <1>3, <1>4, <2>1, ChoiceSeen DEF Children, TypeOK
    <2>2. CASE c = "configMap"
      BY <1>1, <1>3, <1>4, <2>2, JoinSeen DEF Children
    <2>3. CASE c \notin {"secret", "configMap"}
      BY <1>3, <2>3, NotSeen DEF Children
    <2> QED
      BY <2>1, <2>2, <2>3
  <1> QED
    BY <1>5, <1>6, <1>7, <1>8 DEF Does

(***************************************************************************)
(* A call about one child, blind though it may be, makes it from a spec     *)
(* that is not older, and leaves its owner and its key.                     *)
(***************************************************************************)
LEMMA CalledDoes == ASSUME StepInv, Called PROVE Does
  <1>1. PICK c \in Children, next \in Places, new \in OurChild :
            pc = c /\ InOrder(c, next) /\ Suits(c, new) /\ DealsWith(c, new, next)
    BY DEF Called
  <1>2. /\ TypeOK /\ Behind /\ IInv
        /\ cache.gen \in Nat /\ copy.gen \in Nat /\ copy.gen <= cache.gen
        /\ \A d \in Children : children[d].from \in Nat
    BY DEF StepInv, IInv, Known, TypeOK, ChildType
  <1>3. /\ UNCHANGED <<kind, obj, world, cache, halted>>
        /\ \A d \in Children \ {c} : children'[d] = children[d]
        /\ children'[c] \in {children[c], new, Absent}
        /\ pc # "idle"
    BY <1>1 DEF DealsWith, Children
  <1>4. \/ pc' # "idle" /\ copy' = copy
        \/ pc' = "idle" /\ queued'
    BY <1>1 DEF DealsWith, Requeue, InOrder, OSOrder, OBSOrder, TorOrder
  <1>5. RestsOnlyWhenReported'
    BY <1>3, <1>4 DEF RestsOnlyWhenReported
  <1>6. CASE ~obj.exists
    BY <1>3, <1>5, <1>6, GoneSeen DEF Does, Behind, Advance
  <1>7. CASE obj.exists
    <2>1. ASSUME c # "monitor"
          PROVE  /\ children'[c] \in {children[c], new}
                 /\ children[c] # Absent => children'[c] # Absent
                 /\ children[c].owner = "other" => children'[c] = children[c]
                 /\ c \in WrittenOnce /\ children[c] # Absent => children'[c] = children[c]
      BY <1>1, <1>3, <1>7, <2>1 DEF DealsWith
    <2>2. new.from \in Nat /\ new.from <= copy.gen /\ new.owner \in ControllerKinds
      BY <1>1, <1>2 DEF Suits, OurChild, ControllerKinds, ObjectKinds
    <2>3. Behind'
      <3>1. ASSUME NEW d \in Children \ {"monitor"}
            PROVE  /\ children'[d].from <= cache.gen
                   /\ children'[d].from <= copy.gen
                   /\ d \notin MadeFromSpec \cup WrittenOnce => children'[d].from = 0
                   /\ d \notin {"secret", "configMap"} => children'[d].key = NoKey
        <4>1. children'[d] = children[d] \/ (d = c /\ children'[d] = new)
          BY <1>3, <2>1
        <4> QED
          BY <1>1, <1>2, <1>3, <1>7, <2>2, <4>1 DEF Behind, Suits
      <3>2. children'["secret"] # Absent => children'["secret"].key \in Keys \cup Passwords
        <4>1. \/ children'["secret"] = children["secret"]
              \/ c = "secret" /\ children'["secret"] = new
          BY <1>3, <2>1 DEF Children
        <4> QED
          BY <1>1, <1>2, <1>7, <4>1 DEF Behind, Suits
      <3> QED
        BY <1>2, <1>3, <1>4, <1>7, <3>1, <3>2 DEF Behind
    <2>4. Advance
      <3> SUFFICES ASSUME NEW d \in Children \ {"monitor"}, children[d] # Absent
                   PROVE  /\ children'[d] # Absent
                          /\ Ours(children'[d]) = Ours(children[d])
                          /\ children'[d].key = children[d].key
                          /\ children'[d].from >= children[d].from
        BY DEF Advance
      <3>1. CASE children'[d] = children[d]
        BY <1>2, <3>1 DEF Ours
      <3>2. CASE children'[d] # children[d]
        <4>1. d = c /\ children'[d] = new /\ new # Absent
          BY <1>3, <2>1, <3>2
        <4>2. children[d].owner # "other" /\ d \notin WrittenOnce
          BY <2>1, <3>2, <4>1
        <4>3. Ours(children[d])
          BY <1>2, <4>2 DEF IInv, Known, NoOwnerMeansAbsent, TypeOK, ChildType, Ours
        <4>4. Ours(children'[d])
          BY <2>2, <4>1 DEF Ours
        <4>5. children'[d].key = NoKey /\ children[d].key = NoKey
          BY <1>1, <1>2, <1>7, <4>1, <4>2 DEF Behind, Suits, WrittenOnce
        <4>6. new.from >= children[d].from
          BY <1>1, <1>2, <1>3, <1>7, <4>1, <4>2 DEF Behind, Suits
        <4>7. Ours(children'[d]) = Ours(children[d])
          BY <4>3, <4>4 DEF Ours
        <4> QED
          BY <4>1, <4>5, <4>6, <4>7
      <3> QED
        BY <3>1, <3>2
    <2>5. IdentityStep
      <3>1. CASE children'["secret"] = children["secret"] /\ children'["configMap"] = children["configMap"]
        BY <1>3, <3>1, NotSeen
      <3>2. CASE children'["secret"] # children["secret"]
        <4>1. /\ c = "secret" /\ children["secret"] = Absent /\ children'["secret"] = new
              /\ children'["configMap"] = children["configMap"]
          BY <1>3, <2>1, <3>2 DEF Children, WrittenOnce
        <4>2. new.key \in Keys \cup Passwords
          BY <1>1, <4>1 DEF Suits
        <4>3. children'["secret"] # Absent /\ obj.exists \in BOOLEAN
          BY <1>2, <3>2, <4>1 DEF TypeOK
        <4> QED
          BY <1>3, <1>7, <4>1, <4>2, <4>3, ChoiceSeen
      <3>3. CASE children'["configMap"] # children["configMap"]
        <4>1. /\ c = "configMap" /\ children["configMap"] = Absent /\ children'["configMap"] = new
              /\ children'["secret"] = children["secret"]
          BY <1>3, <2>1, <3>3 DEF Children, WrittenOnce
        <4>2. kind = "Tor" => /\ children["secret"] # Absent
                              /\ children["secret"].key \in Keys \cup Passwords
                              /\ new.key \in {NoKey, Given, children["secret"].key}
          BY <1>1, <1>2, <1>7, <4>1 DEF Suits, Hashed, IInv, PasswordSound, Behind
        <4> QED
          BY <1>3, <1>7, <4>1, <4>2, JoinSeen
      <3> QED
        BY <3>1, <3>2, <3>3
    <2> QED
      BY <1>5, <2>3, <2>4, <2>5 DEF Does
  <1> QED
    BY <1>6, <1>7

(***************************************************************************)
(* The password of a Tor object is chosen once, whether the spec refers to  *)
(* another or not.                                                          *)
(***************************************************************************)
LEMMA ControlSecretDoes == ASSUME StepInv, TorReconcileControlSecret PROVE Does
  <1>1. TypeOK /\ Behind /\ IInv /\ "secret" \in Children
    BY DEF StepInv, IInv, Known, Children
  <1>2. PICK got \in Versions("secret"), password \in Passwords :
            /\ \/ children' = children
               \/ /\ children["secret"] = Absent
                  /\ children' = [children EXCEPT !["secret"] = torSecret(password)]
            /\ \/ Requeue
               \/ \E key : pc' = "configMap" /\ copy' = [copy EXCEPT !.key = key]
    BY DEF TorReconcileControlSecret
  <1>3. /\ UNCHANGED <<kind, obj, world, cache, halted>> /\ pc = "secret"
    BY DEF TorReconcileControlSecret, others, At
  <1>4. \/ pc' # "idle" /\ copy'.gen = copy.gen
        \/ pc' = "idle" /\ queued'
    BY <1>1, <1>2 DEF Requeue, TypeOK
  <1>5. RestsOnlyWhenReported'
    BY <1>3, <1>4 DEF RestsOnlyWhenReported
  <1>6. CASE ~obj.exists
    BY <1>3, <1>5, <1>6, GoneSeen DEF Does, Behind, Advance
  <1>7. CASE children' = children
    <2>1. Behind' /\ Advance
      BY <1>1, <1>3, <1>4, <1>7, ChildrenStand DEF Behind
    <2>2. IdentityStep
      BY <1>3, <1>7, NotSeen
    <2> QED
      BY <1>5, <2>1, <2>2 DEF Does
  <1>8. CASE /\ obj.exists /\ children["secret"] = Absent
             /\ children' = [children EXCEPT !["secret"] = torSecret(password)]
    <2>1. /\ children'["secret"] = torSecret(password)
          /\ \A d \in Children \ {"secret"} : children'[d] = children[d]
      BY <1>1, <1>8 DEF TypeOK
    <2>2. /\ torSecret(password).key = password /\ torSecret(password).from = 0
          /\ torSecret(password) # Absent
      BY DEF torSecret, Keyed, Absent
    <2>3. cache.gen \in Nat /\ copy.gen \in Nat /\ \A d \in Children : children[d].from \in Nat
      BY <1>1 DEF TypeOK, ChildType
    <2>4. Behind'
      BY <1>1, <1>3, <1>4, <1>8, <2>1, <2>2, <2>3 DEF Behind, WrittenOnce
    <2>5. Advance
      BY <1>8, <2>1, <2>3 DEF Advance, Ours
    <2>6. IdentityStep
      BY <1>1, <1>3, <1>8, <2>1, <2>2, ChoiceSeen DEF Children, TypeOK
    <2> QED
      BY <1>5, <2>4, <2>5, <2>6 DEF Does
  <1> QED
    BY <1>2, <1>6, <1>7, <1>8

---------------------------------------------------------------------------
(* The theorems *)

LEMMA InitStepInv == ASSUME Init PROVE StepInv /\ Identity!Init
  <1>1. /\ children = [c \in Children |-> Absent]
        /\ cache = Current /\ queued = TRUE /\ pc = "idle"
        /\ obj.exists = TRUE /\ obj.hostname = NoKey
    BY DEF Init
  <1>2. IInv
    BY InitIInv
  <1>3. cache.exists /\ cache.gen \in Nat
    BY <1>1, <1>2 DEF Current, IInv, Known, TypeOK
  <1>4. Behind
    BY <1>1, <1>3 DEF Behind, Absent, Children
  <1>5. RestsOnlyWhenReported
    BY <1>1 DEF RestsOnlyWhenReported
  <1>6. StoredKey = "no secret" /\ Configured = [m \in {"configMap"} |-> NoKey]
    BY <1>1 DEF StoredKey, Configured, Absent, Children
  <1> QED
    BY <1>1, <1>2, <1>4, <1>5, <1>6 DEF StepInv, Identity!Init

(***************************************************************************)
(* Every step keeps the invariant, lets the children only advance, and is   *)
(* one of an identity, or not seen.                                         *)
(***************************************************************************)
LEMMA NextDoes == ASSUME StepInv, [Next]_vars PROVE Does /\ StepInv'
  <1>1. IInv /\ IInv'
    BY NextKeeps DEF StepInv, Keeps
  <1>2. Does
    <2>1. CASE OSReconcile
      BY <1>1, <2>1, ReturnsDo, OSCallsDeal, CalledDoes, StatusDoes DEF OSReconcile
    <2>2. CASE OBSReconcile
      BY <1>1, <2>2, OBSCallsDeal, CalledDoes, StatusDoes DEF OBSReconcile
    <2>3. CASE TorReconcile
      BY <1>1, <2>3, ReturnsDo, TorCallsDeal, CalledDoes, ControlSecretDoes, StatusDoes DEF TorReconcile
    <2>4. CASE Fetch \/ FetchNotFound \/ StatusConflict \/ Sync \/ CallFails \/ Crash
      BY <2>4, ReturnsDo, CacheDoes
    <2>5. CASE EditSpec \/ Delete \/ ChangeTarget \/ ChangeRef \/ BackendsPublish \/ AgentPublishes
      BY <2>5, UserDoes, WorldDoes, AgentPublishesDoes
    <2>6. CASE Collect
      BY <2>6, CollectDoes
    <2>7. ASSUME NEW c \in Names \cap ChildrenOf(kind), TakeName(c)
          PROVE  Does
      BY <2>7, NamesAssumption, TakeNameDoes
    <2>8. CASE UNCHANGED vars
      BY <2>8, ReturnsDo
    <2> QED
      BY <2>1, <2>2, <2>3, <2>4, <2>5, <2>6, <2>7, <2>8 DEF Next, Reconcile
  <1> QED
    BY <1>1, <1>2 DEF Does, StepInv

(***************************************************************************)
(* The strengthened invariant holds throughout.                             *)
(***************************************************************************)
THEOREM StepInvariant == Spec => []StepInv
  <1>1. Init => StepInv
    BY InitStepInv
  <1>2. StepInv /\ [Next]_vars => StepInv'
    BY NextDoes
  <1> QED
    BY <1>1, <1>2, PTL DEF Spec

(***************************************************************************)
(* Neither a conflict nor an error nor a restart lets the operator rest on  *)
(* a status that is not written (the last lines of each Reconcile).         *)
(***************************************************************************)
THEOREM RestsOnlyWhenReportedHolds == Spec => []RestsOnlyWhenReported
  <1>1. StepInv => RestsOnlyWhenReported
    BY DEF StepInv
  <1> QED
    BY <1>1, StepInvariant, PTL

(***************************************************************************)
(* Blind updates never take a child back to an older spec, to other hands   *)
(* or to another key (the Update of each reconcile function).               *)
(***************************************************************************)
THEOREM ChildrenOnlyAdvanceHolds == Spec => ChildrenOnlyAdvance
  <1>1. StepInv /\ [Next]_vars =>
            [obj.exists => \A c \in Children \ {"monitor"} : children[c] # Absent =>
                 /\ children'[c] # Absent
                 /\ Ours(children'[c]) = Ours(children[c])
                 /\ children'[c].key = children[c].key
                 /\ children'[c].from >= children[c].from]_vars
    BY NextDoes DEF Does, Advance
  <1> QED
    BY <1>1, StepInvariant, PTL DEF Spec, ChildrenOnlyAdvance

(***************************************************************************)
(* Reconcilers refines MasterIdentity: one key or password is chosen,       *)
(* published once, and followed by the config map (onionservice_secret.go,  *)
(* tor_secret.go, tor_configmap.go).                                        *)
(***************************************************************************)
THEOREM ReconcilersImplementIdentity == Spec => ImplementsIdentity
  <1>1. Init => Identity!Init
    BY InitStepInv
  <1>2. StepInv /\ [Next]_vars => [Identity!Next]_Identity!vars
    BY NextDoes DEF Does, IdentityStep
  <1> QED
    BY <1>1, <1>2, StepInvariant, PTL DEF Spec, ImplementsIdentity, Identity!Spec
=============================================================================
