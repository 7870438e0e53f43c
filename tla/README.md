# tor-controller: specifications, model checking and proofs

tor-controller runs Tor onion services in Kubernetes. An operator reconciles
three kinds of objects (`Tor`, `OnionService`, `OnionBalancedService`) into
pods, secrets and services; an agent in each pod writes the configuration of a
daemon (tor or onionbalance), supervises it, and publishes what it learns in
the status of its object. This directory models that system in TLA+, checks it
with TLC and proves part of it with TLAPS. `PROJECT.json` is the index: runs,
mutants, the source lines each definition stands for, hazards, findings and
theorems.

## 1. Inventory

| Component | Source | State | Operations |
| --- | --- | --- | --- |
| OnionBalancedService reconciler | `controllers/tor/onionbalancedservice_*.go` | informer caches, work queue, the copy a reconcile works on; at the API server the object, its secret, its backends and eight other children | `Reconcile` (`onionbalancedservice_controller.go:72`) |
| OnionService reconciler | `controllers/tor/onionservice_*.go` | the same, two secrets, service, deployment, rbac, metrics | `Reconcile` (`onionservice_controller.go:66`) |
| Tor reconciler | `controllers/tor/tor_*.go` | the same, control secret, config map, deployment | `Reconcile` (`tor_controller.go:56`) |
| Helpers | `utils_equal.go`, `utils_exist.go`, `util.go` | none | equality of children, ports, key pairs, hashed passwords |
| API types | `apis/tor/v1alpha2` | none | names, defaults, `IsSynced` |
| Tor agent | `agents/tor/local`, `agents/tor/config` | informer, queue with one key, files below `/run/tor` | `sync`, `handleErr`, event handlers, `Run` |
| Tor supervisor | `agents/tor/tordaemon` | `t.cmd`, the loops of `Start` | `Start`, `Reload` |
| Onionbalance agent | `agents/onionbalance/local`, `agents/onionbalance/config` | informer, queue, `config.yaml` | `sync`, `handleErr`, `Run` |
| Onionbalance supervisor | `agents/onionbalance/onionbalancedaemon` | `t.cmd`, loops | `Start`, `EnsureRunning`, `Reload` |
| Entry points | `main.go`, `agents/*/main.go` | flags, leader election, signal channel | set-up only |

How they interact:

* Operators and agents never call each other. They share the objects at the API
  server, read them through informers that lag behind, and write them with
  optimistic concurrency (`resourceVersion`).
* The OnionBalancedService reconciler creates OnionServices (its backends) that
  name its address as their master; the OnionService reconciler gives each of
  them a pod; the tor agent in that pod publishes `status.hostname`; the
  OnionBalancedService reconciler collects these into `status.backends`; the
  onionbalance agent writes them into its `config.yaml`.
* `OnionService.status` has two writers, the operator and the agent.
* Agent and supervisor are goroutines of one process that share `t.cmd`.

What is hard, and what makes each component correct:

* *Identity* (OnionBalancedService). Every reconcile draws a key pair, reads a
  stale cache, and may run beside another operator (`-no-leader-elect`) or be
  cut off by a crash. Exactly one address may be chosen, published, and
  followed by the backends.
* *Convergence.* Nothing but `RequeueAfter` brings a reconcile back when a
  backend gets its hostname. The reconciler may rest only when it is complete,
  must get there, must not forget a backend, and must leave nothing behind.
* *Files and reload* (tor agent). `sync` has a dozen ends; the difference it
  finds in a file is the only reason to reload, so an end between the write and
  the `Reload` loses the reload.
* *Supervision.* Loops and the worker race on one field, and no loop ends. A tor
  that starts beside another waits for its lock; an onionbalance that does
  publishes beside it.
* *Children.* Create-only children, comparisons that never hold, updates without
  `uid` and `resourceVersion` that replace whatever has the name, caches that do
  not show what was created or taken, no watch on any child. The operator may
  rest only when the children follow the last spec, must not touch what is
  somebody else's, and must not let two drawn passwords or keys get into use.

The list of hazards, each at its line, with the properties that cover it, is in
`PROJECT.json`.

## 2. Modules

| Module | What it is |
| --- | --- |
| `MasterIdentity` | abstract: an object chooses one address or password, publishes it, members join it |
| `OnionBalancedService` | the reconciler, step by step, in any number of operators; implements `MasterIdentity`, the members being the backends |
| `MCOnionBalancedService` | symmetry of addresses and operators for TLC |
| `OnionBalancedServiceProofs`, `OBSListingProofs` | theorems about it: its identity, and the listing of backends in its status |
| `TorAgent` | the agent of an OnionService |
| `MCTorAgent`, `TorAgentProofs` | its TLC instance and its theorems |
| `TorDaemon` | the supervision of tor |
| `MCTorDaemon`, `TorDaemonProofs` | its TLC instance and its theorems |
| `OnionBalanceAgent` | the agent of an OnionBalancedService and the supervision of onionbalance, composed: they share `t.cmd` |
| `MCOnionBalanceAgent`, `OnionBalanceAgentProofs` | its TLC instance and its theorems |
| `ChildResources` | the state of an operator at work on one object, and what each call of a reconcile does: get, create, update, delete, status |
| `OnionServiceReconciler`, `BalancedChildren`, `TorReconciler` | the three reconcilers: which calls in which order, with what |
| `Reconcilers` | composes them with users, agents, strangers, the garbage collector, failures and restarts; implements `MasterIdentity`, the member being the config map of a Tor |
| `MCReconcilers`, `ReconcilersProofs`, `ReconcilersRestProofs`, `ReconcilersStepsProofs` | its TLC instance and its theorems: what holds at every moment, what of the children holds at rest, and what the steps do to children, keys and status |

Some modules hold operators called "a variant of ...". They are no part of the
specification: each is a plausible mistake in the code, and a property is
trusted only after TLC has seen it violated with the variant in the place of
the original (`mutants` in `PROJECT.json`).

### OnionBalancedService

| In the model | In the code |
| --- | --- |
| `obs` | spec.backends, generation, status.hostname and status.backends at the API server |
| `secret` | the secret of the master: absent, without an onionAddress, or an address; owned when the operator created it |
| `services` | the OnionServices of the namespace: absent, without hostname, published; the master each names |
| `monitor` | the service monitor: unwanted (spec.serviceMonitor off, or no CRD), not there yet, there |
| `cache[o]` | the informers of operator `o`; `fresh` says that its copy of the object has the current resourceVersion |
| `queued[o]` | the request is in the work queue, or a back-off or RequeueAfter is running |
| `pc[o]`, `copy[o]` | where Reconcile stands, and the object it modifies on the way |

`Fetch` to `UpdateStatus` are `Reconcile` in its order, one action per call of
the API that matters; `SyncOBS`, `SyncSecret`, `SyncServices` are the three
informers, each with its own delay. `GenerationChangedPredicate` is in `SyncOBS`:
a status change enqueues nothing. `CallFails` is an error of any call: it ends
the reconcile, except in the loop over the backends, which goes on. The other
children (service account, role, role binding, service, config map, deployment,
metrics) are the single steps `ReconcileChildren` and `ReconcileMonitoring`:
they can fail, and nothing here depends on what they hold. The service monitor
is the exception: wanted, it is created once, and from then on every reconcile
ends at its update (`MonitorRefused`), before the status. A create in a stale
cache that meets an existing object is `AlreadyExists`: fatal for the secret
(`SecretConflict`), only logged for a backend.

### TorAgent

`obj` is the OnionService, `known` the informer's copy. `waiting` stands for
`AddAfter`, `dirty` for the key in the queue (client-go keeps one entry per key
and one that arrives during processing comes back afterwards). `pc` and `job`
are `sync` and its local variables. `torfile`, `obfile`, `hostfile`, `keyfile`
are the files; `told` is what the files held at the last `Reload`. The torfile
depends only on whether there is a master, `ob_config` on which one, as in the
templates. Every file operation of `sync` has its failure: `TorfileUnreadable`,
`TorfileTorn`, `KeysNotCopied` (any mixture of missing, torn and good copies),
`ObConfigUnreadable`, `ObConfigNotWritten`. A hostname copy that fails after
`os.Create` leaves an empty file, which is never copied again: the status update
reads it as the empty hostname (`Trimmed`), finds it equal to a
`Status.Hostname` that was never published, or puts it in the place of one that
was, and the agent rests. `Retry` is `handleErr` as it
behaves: `NumRequeues` counts only `AddRateLimited`, so the branch that drops
the key is never taken. `Crash` ends the container, which loses what is below
`/run/tor`. (Only the secrets are mounted, `onionservice_deployment.go:157`; a
secret of the user's own that holds a key and no hostname is a hostname copy
that fails.) `TorLoadsKeys` is tor itself (external): it makes missing keys and
writes its hostname.

### TorDaemon

A step is one access to `t.cmd` together with the `os/exec` call made on it.
`phase` records what `exec.Cmd` knows: made, never born, running, ended but not
waited for, exited, killed, or *lost* (a second `Wait` on the same command
fails and sets `ProcessState` to nil, so `Reload` takes it for running).
`loop[l]` is the place of a goroutine of `Start`. `server` is the process that
serves: tor locks its data directory, so one that starts while another serves
waits a while and takes over or gives up (external). A signal to a command
without a process panics the agent (`SignalPanics`); the container starts anew.
`latest[c]` says that the process has read the files as they are now.

### OnionBalanceAgent

| In the model | In the code |
| --- | --- |
| `obj`, `known` | the OnionBalancedService, reduced to the hostnames in status.backends, and the informer's copy |
| `waiting`, `dirty`, `pc`, `job` | as in `TorAgent`; `pc` goes on through `EnsureRunning` and `Reload` |
| `file` | `config.yaml`: a set of backends and the order in which ranging over a Go map listed them, so that the text may differ for the same backends |
| `cmd`, `phase`, `loop`, `waits` | `t.cmd`, what `exec.Cmd` knows, the goroutines of `Start`, and the command each of them and the worker wait for |
| `serves[c]` | the backends that the process of `c` has read |
| `stopped` | SIGTERM: `stopCh` is closed and the queue shut down |

`config.yaml` is in a volume that outlives the container. `Reload` signals and
then waits for whatever `t.cmd` is at each of the two moments, beside the loop
that waits already (`AfterWait`: the second of two waits leaves no
`ProcessState`). What onionbalance does on SIGHUP is not in this repository:
it ends or reads its file again (external). After `Terminate` nothing takes
from the queue and `Run` never returns, so only `Kill`, the kubelet, ends the
container; the tor agent's `Run` has the same shape.

### ChildResources, the three reconcilers, Reconcilers

| In the model | In the code |
| --- | --- |
| `kind` | which of the three kinds the object is of; chosen at the start |
| `obj` | generation, spec and status of the object. The spec is reduced to whether a monitor is wanted, the ports that are enabled, and whether it lists passwords for the control port or refers to secrets with them; the status to its target address, its hostname and whether it lists the published backends |
| `world` | what the object refers to: the service of a rule, the user's secret (missing, there without the key that is named, there with it), the CRD of service monitors, the backends' hostnames |
| `children[c]` | under each child's name: who controls it, the generation it was made from, the key or password in it |
| `seen[c]` | what the cache returned last for this child |
| `cache`, `queued`, `pc`, `copy` | the informer's copy, the request, the next call, the local variables |
| `halted` | the last reconcile ended at a rule without its port |

Every call of a reconcile is an action: `CreateOnly` (secrets and config maps),
`CreateOrUpdate`, `CreateIfWanted`, `ServiceMonitor`, `StatusUpdate`. What they
do follows from what the API server does with the objects that the code makes:

* the comparisons before an update (`utils_equal.go`) include metadata that
  the server sets, so an update follows whenever the child is the operator's;
* such an update has neither uid nor resourceVersion: it replaces whatever has
  the name. Where nothing has it the API server refuses, but for services,
  roles and role bindings, which it creates: both outcomes are in `Update`;
* for the objects of a CRD it refuses an update without resourceVersion:
  an existing service monitor ends the reconcile with an error;
* a create in a stale cache is `AlreadyExists`, an error, and the request comes
  back.

The password of a Tor's control port (`InUse`, `Hashed`): the user's own passwords
are one value, `Given`, whether the spec lists them or a secret holds them. The
stored one is used only by a spec that neither lists passwords nor refers to
secrets. A secret that is missing ends the reconcile with an error, one without
the key does not: the torrc, which is written once, then has a control port
without a password. Without a control port (the default) it has none either.

A read returns the child as it is, or, if its controller changed since (created,
deleted, taken), what the cache returned last, which uses up a failure of kind
`stale`. The owner reference of two children of an OnionBalancedService has its
kind in lower case: `IsControlledBy` does not mind, the garbage collector does
not find it. The rule of an OnionService has one port, checked by `portExists`
against services with and without it; several rules would be several such
checks in a row. The garbage collector sweeps in one step; the others do
nothing any more when the object is gone, which nobody would see.

## 3. Runs

All runs finish within three and a half minutes with two workers. `CHECK_DEADLOCK` is
off because every one of these systems may come to rest: users stop writing,
failures are bounded, and a finished reconcile leaves nothing to do.

| Run | Question | Instance |
| --- | --- | --- |
| `obs_identity` | one address, published once, followed by all? does the reconciler implement `MasterIdentity`? does the status name only what is there? | 2 operators, 2 addresses, 2 backends, one failed listing or crash, secret absent or without address |
| `obs_convergence` | does the reconciler rest only when complete, keep what it listed, make none too many, get there unless a monitor is wanted, and clean up? | 1 operator, 2 backends, a monitor wanted or not, one change of the spec, one failure or crash, a deletion; fairness |
| `obs_foreign_services` | the same with another OnionService in the namespace: **violated** | 1 foreign service |
| `obs_list_fails` | the same when `List` may fail: **violated** | 1 failure |
| `tor_agent_serves` | no lost reload, and unless a copy failed only the secret's address, no rest before it is published, all of it in the end | 2 configurations, 1 master or none, 2 writes, 2 failures of 7 kinds; fairness |
| `tor_agent_lost_reload` | no lost reload although `ob_config` may be unreadable: **violated** | 1 write, 1 failure |
| `tor_daemon_supervises` | tor serves in the end, and after a `Reload` a lone loop's tor and that of `t.cmd` have the latest files | 2 loops, 4 commands in use, 1 new configuration, 2 deaths or failed starts; fairness |
| `tor_daemon_starts` | a loop is started only when no tor serves: **violated** | 3 loops, 5 commands |
| `ob_agent_follows` | does the agent rest only on a current `config.yaml` and with a supervisor, do the first reloads reach every onionbalance and all of them the one of `t.cmd`, and does a current one run in the end? | 2 backends, 2 loops, 4 commands, 1 change of the object, 2 failures of 6 kinds; fairness |
| `ob_agent_stale_balancer` | the second of these for any number of loops: **violated** | 3 loops, 5 commands, 2 changes, no failure |
| `reconcilers_converge` | does the operator rest only when the children follow the spec and the status is written, never take a child back, choose each key and password once (`MasterIdentity`), agree with itself on passwords, supply its pods, leave others' objects alone, get there and clean up? | an object of each kind, 2 specs of each (3 of a Tor), an edit or a deletion, 1 failure of 4 kinds, the names of secret and service open to others; fairness |
| `reconcilers_monitored` | does the status say in the end what there is to say, with a monitor wanted? **violated** | one OnionBalancedService, no failure |

Why the bounds are enough to be interesting. Two operators are needed for
every conflict of `obs_identity` (a third would only repeat the second). Two
backends make "one listed, one not" and a growing spec possible. Two failures
let a failure hit the retry of the first one, and a crash come after a failure.
One master beside "no master" makes both files change, together and apart; the
two writes go there and back. In `TorDaemon` two `Reload`s are possible (the
first one and the one after `WriteFiles`), so two loops are never too few, and
four commands hold two commands in the loops, one in `t.cmd` and one orphan.
In `OnionBalanceAgent` two backends make a text with two orders, and two loops
the second `Wait` of `Reload` beside a loop; a third is what
`ob_agent_stale_balancer` needs. In `Reconcilers` the specs of a kind
differ in everything a reconciler asks of a spec (those of a Tor all have a control
port, with the stored password, a reference, a list), the three target services are
those that `portExists` tells apart, one key is enough where nothing compares
keys and two passwords are what `PasswordAgreed` needs; one failure is every
single failing call, stale read, restart, taken name or withdrawn service at
every place of every reconciler. What several of them do together is left to
the proofs.
The bounds are `MaxGeneration`, `MaxWrites`, `MaxFaults`, and the sets `Loops`
and `Cmds`; what became of unused commands is forgotten (`Make`).

Restrictions of passing runs that stand for something the code does get wrong:
`Foreign = {}` (see `obs_foreign_services`), no failing `List` where
`ListedBackendKept` is checked (see `obs_list_fails`), no scaling down where
completeness is checked (the surplus backends stay, the count never matches and
the object is requeued for ever), no monitor
wanted in `EventuallyComplete` (see `reconcilers_monitored`), one operator in
`ListedBackendKept` and `EventuallyComplete` (two without leader election take each other's listings
back; when they rest the listing is complete, which is proved for any number),
`ObConfigAccessible` in `ReloadNotLost` (see `tor_agent_lost_reload`), at most
two loops in `FirstReloadReachesAll` (see `ob_agent_stale_balancer`), a failed copy
in `PublishedIsSecrets`, `RestsOnlyWhenPublished` and `EventuallyServed` (an empty
hostname file is taken for done), references to secrets in `PasswordAgreed` (one
without the key leaves no password), a hanging `Wait` in `EventuallyWritten`, no
monitor wanted in `ReportedUnlessMonitored` (see `reconcilers_monitored`), what is not provided in `Unprovided` (among it a
rule without its port, which ends the reconcile as a success), the two
children with the lower-case owner in `DeletionIsFinal`, and monitors in
`ForeignUntouched` and `Reflects`: the monitor is deleted by name on what the
cache shows, so a stranger's may go, and one the cache does not show yet stays.

### Findings

* `IsSynced` compares a count with a map that holds every OnionService of the
  namespace; with an unrelated one the reconciler rests while a backend is
  missing from the status.
* A failing `List` does not stop the reconcile, as its comment says, but empties
  the published map of backends.
* An `ob_config` that cannot be read or written after the torfile was written
  loses the reload for good.
* `Reload` decides that tor is not running by a command that is not, or not yet
  again, the one that serves, and starts a further loop.
* Onionbalance's `Reload` signals only the process of `t.cmd`, while every
  `Reload` adds a loop that never ends: from the third configuration on, an
  onionbalance with an old one may go on publishing.
* A service monitor that exists is updated without a resourceVersion, which is
  refused: the reconcile never comes to the status, and the hostnames of the
  backends are never listed.

## 4. Fairness

Weak fairness only, and only for what the code or the platform schedules by
itself: informers deliver (client-go relists), a worker takes queued requests
and goes on with its reconcile (back-offs and `AddAfter` end), the garbage
collector follows owner references, agents publish where completeness of a
balanced service is the question (in `Reconcilers` they need not), goroutines
run, a terminated container is killed, and a tor that finds its data directory
locked ends its wait. In the daemon, the fairness
of the external lock is used by `TorComesBack`. Nobody is obliged to write,
delete, fail or crash. Each process's steps exclude one another by its program
counter, so weak fairness of their disjunction is fairness of the process.

## 5. Proofs

Proved by TLAPS for every value of the constants that satisfies their
assumptions (numbers of operators, backends, writes and failures, sets of
addresses, configurations and masters):

* `OnionBalancedServiceProofs`. The inductive invariant is `TypeInv` (types, and
  that the loop counter of `reconcileBackends` stays within the count of its
  copy) and `IdentityInv`. `MasterAgreement` alone is not inductive: a backend
  is created from the hostname in a reconcile's copy, which came from a cache.
  The strengthening says that, as long as the service exists, a secret found in
  any cache is the stored one (`CachedSecretSound`), that every reconcile past
  its first step holds the stored address (`CopySound`), and that a backend
  exists only under a real address (`BackendSound`). The reason is that nobody
  deletes or replaces the secret before the service is deleted, and that
  `Create` refuses an existing one. From it follow `TypeCorrect`,
  `MasterAgreementHolds`, `PublishedAddressHasKeysHolds`,
  `ImplementsIdentityHolds` (each step is a step of `MasterIdentity` or a
  stutter) and, by that refinement, `AddressStableHolds`.
* `OBSListingProofs`. `ListedBackendKeptHolds`, for a lone operator whose `List`
  does not fail: as long as the service exists no backend goes and none becomes
  pending again, so the operator's cache never knows less than the status lists.
  `QuiescentMeansCompleteHolds`, for any number of operators, without unrelated
  OnionServices and without scaling down: `IsSynced` counts, and a count of the
  backends that exist, all among those asked for, reaches the number asked for
  only when each is there. The invariant `RestInv` says that no cache and no copy
  is ahead of the object, and that with nobody queued or under way the last
  status written was complete. `ListedAreThereHolds`, for any number of
  operators and failing lists: a cache may be behind, but what it shows of a
  backend stays true as long as the service exists, and only from there does it
  come into a status (`ThereInv`). `NoSurplusBackendsHolds`, without scaling
  down: the loop counts with a copy that asks for no more backends than the
  object does by now, however old it is (`CountsBehind`).
* `TorAgentProofs`. `AgentTypeCorrect`; `ReloadNotLostHolds`, whose invariant
  `ReloadInv` has three parts: `FilesSound` says at each place of `sync` what is
  known of the files and that the flag `reload` stands for whatever is not
  loaded yet (at rest a torfile that is whole is loaded), `QueueSound` that
  without a key on its way the worker is done with what the informer knows, and
  `CopySound` that a fresh copy is the object; `PublishedIsSecretsHolds`, from
  `KeysInv`: unless a copy failed, the keys are in place whenever tor has been
  told something or is about to be. `RestsOnlyWhenPublishedHolds` adds to it that
  a hostname which the informer or a job knows of is in the status
  (`HostnamesSeen`), so `sync`, as long as no copy has failed, only leaves the
  update out when there is no need, and that every other end of `sync` puts the
  key on its way again.
* `ReconcilersProofs`. The inductive invariant `IInv` has four parts. `Known`:
  the types, that a child without a controller is absent, that the cache shows a
  child as absent or of a stranger only if it was so (`SeenSound`: as long as the
  object exists nothing but a monitor disappears), and that a fresh copy is the
  object (`FreshSound`). `SuppliesInTime`: past the calls that make what the pods
  need, it is there. `DeploymentSupplied` itself. `PasswordSound`: between the
  control secret and the config map, the password in the reconcile's copy, if any,
  is the stored one or the user's. `SuppliesInTime` is what makes
  `DeploymentSupplied` inductive, and rests on `SeenSound`, because a stale read
  that showed what is gone would let a reconcile pass over it. Each action has
  its lemma; a call on one child is dealt with once (`DealsWith`) for all three
  reconcilers. From it follow `TypeCorrect`, `DeploymentIsSupplied`,
  `ForeignIsUntouched` and `HostnameIsKept`. `PasswordIsAgreed` needs one more
  invariant on top of it (`PasswordFollows`): a cache or copy of the last generation
  holds the last spec, the copy with the defaults, and at the config map the copy
  has the password which that spec asks for, if it refers to no secret.
* `ReconcilersRestProofs`. `RestsReflected`, from `IInv` and `RestInv`. A
  reconcile may work on an old copy and rest children on an old spec, so
  `Reflected` is not kept from call to call. `Progress` says what is: with a copy
  of the object as it is (`CopyCurrent`: the last spec, with defaults that only
  add ports), each child the reconcile is past reflects the spec. Whether a place
  is past a child is read from a rank of each reconciler's places. Where the copy
  is old, the status update is refused and the request comes back, or the cache
  has still to show the newer generation, which queues it; `Rested` says so. A
  monitor also needs `MonitorSeen`: a stranger's that the cache shows is there.
* `ReconcilersStepsProofs`, on what a step may do. A call about one child is
  characterised once (`Called` in `ReconcilersProofs`: the place, what comes
  next, and by `Suits` what is made). The invariant `StepInv` adds to `IInv` that
  no child is made from a newer spec than the cache and the copy at work hold
  (`Behind`), that only secrets and config maps hold keys, and a secret that is
  there one of those drawn. `ChildrenOnlyAdvanceHolds` needs the first part: an
  update carries no resourceVersion, and takes nothing back only because there
  is one worker whose cache is never older than what was made from it.
  `ReconcilersImplementIdentity` needs the rest and `PasswordSound`: whoever creates
  the secret takes the step `Choose`, the agent `Publish`, the creation of a Tor's
  config map `Join`, unless the user has given the password; everything else is a
  stutter, `Delete` or `Gone`. `RestsOnlyWhenReportedHolds` needs that an object
  that exists is in the cache: every other end of a reconcile than a status that
  was written, or a rule without its port, brings the request back.
* `OnionBalanceAgentProofs`. `TypeCorrect` needs that the loops and the worker
  only wait for commands there are. `ConfigIsPublishedHolds` follows from two
  facts about the queue and the file: without a key on its way the agent knows
  the object as it is (`Informed`), and at each place of `sync` past the write,
  and at rest, the file is what it should be (`Settled`).
  `FirstReloadReachesAllHolds` follows from `LoneLoop` (with one loop, any
  process that runs is `t.cmd`'s) and `Reached` (what runs has read the file, or
  a Reload that will end it is under way): the second loop comes only of the
  `Reload` under way, whose signal and wait have reached the one process, and the
  next `Reload` makes a third. `NewestBalancerCurrentHolds`, for any number of
  loops, is inductive with the types alone: what `t.cmd` is replaced by has not
  run yet, and reads the file when it starts. `SupervisedAtRestHolds` follows from
  `Supervised`: a command comes only of a loop, and `sync` ends without a retry
  only past `EnsureRunning` or `Reload`.
* `TorDaemonProofs`. `TypeCorrect`, whose `TypeInv` says that a loop that starts
  or waits finds a command; `LoneServerIsCurrentHolds` from `LoneLoop` (with
  one loop nothing serves that is not its command) and `LoneCurrent` (that
  command has read the latest files or the worker is about to signal it);
  `NewestTorCurrentHolds`, for any number of loops, from the types alone.

The theorems about `OnionBalancedService` hold with and without a monitor, those
about `Reconcilers` with and without its CRD (`Installed`), where TLC explores
only clusters that have it.

Only model-checked: all liveness (`EventuallyComplete`,
`DeletionIsFinal`, `EventuallyServed`, `TorComesBack`, `EventuallyWritten`,
`EventuallyBalanced`, `EventuallyReflected`, `ReportedUnlessMonitored`), which is
beyond this prover. Every invariant, action property and refinement that a
passing run checks is also a theorem. `ListedBackendKeptHolds` and
`QuiescentMeansCompleteHolds` have the hypotheses under which the runs check
them; TLC shows the properties violated without (`obs_list_fails`,
`obs_foreign_services`). `NoSurplusBackendsHolds` excludes scaling down, as a
surplus is what scaling down leaves.

## 6. Not modelled, and why

* Template text, helm charts, CRD manifests, images: data without behaviour. Of
  a child's content only what it was made from; labels, ports' numbers and
  volumes are left out, and with them the field-by-field comparisons.
* Cryptography: a new key pair is a new address, a new password any password,
  and a hash stands for its password (`doHashPassword` with it).
* The entry points: flags and set-up; that leader election may be off is why
  `OnionBalancedService` has several operators.
* `v1alpha1` and generated copies: nothing runs on them. `suite_test.go` only
  starts a control plane.
* A user who deletes or rewrites an operator's secret or child by hand. Nothing
  watches children and several are never updated, so hardly a property would
  be left; a stranger's object under a child's name is modelled.
* The shutdown of the tor agent: `OnionBalanceAgent` has it for the twin of
  that code. There the worker takes nothing once the queue is shut down, where
  client-go still hands out what was queued before; it may be killed just then.
* In `OnionBalancedService` a user changes `spec.backends` only. A change of
  `spec.privateKeySecret` (`onionbalancedservice_util.go:47-55`) would move the
  operator to another secret and another address, on which backends that were
  created before would not follow; a monitor is wanted from the start or never.
* `Reload` reads `t.cmd` several times in one condition (`tordaemon/daemon.go:53`,
  `onionbalancedaemon/daemon.go:55`); the models read it once. A loop that
  replaces it between two of these reads can make the agent panic on a nil
  `ProcessState`, which ends like the panics that are modelled.
* Config maps of the user's that a Tor mounts (`spec.configMapKeyRef`):
  `DeploymentSupplied` is about what the operator makes.

## 7. Plan

Done: the identity of a balanced service and its reconciler, the two agents, the
two supervisors, the three reconcilers with their children, and proofs about
each. What is left, in this order:

1. Compositions: `TorAgent` with `TorDaemon` (what was told becomes what the
   process has read); `OnionBalancedService` with `OnionBalanceAgent`
   (a chosen address and listed backends reach a running onionbalance).
2. Two `Tor`-side details as pure operators with reference definitions: the
   port numbers of `GetAllPorts`, the iteration count of `doHashPassword`.
3. Several rules per OnionService, each with a target of its own.
