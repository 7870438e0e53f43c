------------------------------ MODULE TorAgent ------------------------------
(***************************************************************************)
(* The agent of an OnionService (src/agents/tor/local/controller.go): it    *)
(* watches its one OnionService, writes tor's configuration and keys below  *)
(* /run/tor, tells the tor daemon to load them, and publishes the hostname. *)
(*                                                                          *)
(* Its informer feeds a work queue with one key; a single worker runs sync. *)
(* Each file read with what follows from it, each call of the daemon and    *)
(* each write to the API server is one action.  The daemon itself is        *)
(* TorDaemon's subject: here a Reload means that it was told to load what   *)
(* the files held then.  A crash ends the container and with it everything  *)
(* below /run/tor that is not mounted, and tor.                             *)
(***************************************************************************)
EXTENDS Naturals

CONSTANTS
    TorConfigs,   \* what the rules and the extra configuration may ask for
    Masters,      \* the master addresses a spec may name
    NoMaster,     \* the empty MasterOnionAddress
    NoFile,       \* a file that does not exist
    Torn,         \* a file whose write failed half-way
    MaxWrites,    \* bound: how often others write the OnionService
    Faults,       \* what may go wrong: a subset of FaultKinds
    MaxFaults     \* bound: how often something goes wrong

FaultKinds == {"torread", "torwrite", "copy", "obread", "obwrite", "status", "crash"}

ASSUME NoMasterAssumption == NoMaster \notin Masters
ASSUME NoFileAssumption ==
    /\ NoFile \notin (TorConfigs \X BOOLEAN) \cup Masters
    /\ Torn \notin (TorConfigs \X BOOLEAN) \cup Masters \cup {NoFile}
ASSUME BoundsAssumption == MaxWrites \in Nat /\ MaxFaults \in Nat
ASSUME FaultsAssumption == Faults \subseteq FaultKinds

VARIABLES
    obj,      \* the OnionService at the API server
    known,    \* the informer's copy of it
    waiting,  \* AddAfter: the key will be added to the queue
    dirty,    \* the key is to be processed (again)
    pc,       \* where the worker stands
    job,      \* the local variables of sync
    torfile,  \* /run/tor/torfile
    obfile,   \* /run/tor/service/ob_config
    hostfile, \* /run/tor/service/hostname: whose it is
    keyfile,  \* the key files beside it: whose they are
    told,     \* the files the daemon was last told to load, if any
    writes,   \* how often others may still write the OnionService
    faults,   \* how often something may still go wrong
    failed    \* what has gone wrong so far

vars == <<obj, known, waiting, dirty, pc, job, torfile, obfile, hostfile, keyfile, told,
          writes, faults, failed>>

Specs == [tor : TorConfigs, master : Masters \cup {NoMaster}]

\* What TorConfigForService and ObConfigForService make of a spec: the torfile
\* only says whether there is a master, ob_config which one it is.
TorConfig(spec) == <<spec.tor, spec.master # NoMaster>>
ObConfig(spec) == spec.master

\* Whose: of the operator's secret, or of tor's own making; torn: a copy that
\* failed once the file was created, which leaves it empty.
Origins == {"none", "secret", "torn", "own"}

\* What is published, none being the empty Status.Hostname.
Hostnames == Origins \ {"torn"}

\* What the hostname file says: an empty one says the empty hostname.
Trimmed(file) == IF file = "torn" THEN "none" ELSE file

TorFiles == (TorConfigs \X BOOLEAN) \cup {NoFile, Torn}
ObFiles == Masters \cup {NoFile, Torn}

Objects == [exists : BOOLEAN, spec : Specs, hostname : Hostnames]
Copies == [exists : BOOLEAN, spec : Specs, hostname : Hostnames, fresh : BOOLEAN]
Jobs == [spec : Specs, hostname : Hostnames, fresh : BOOLEAN, reload : BOOLEAN]

TypeOK ==
    /\ obj \in Objects
    /\ known \in Copies
    /\ waiting \in BOOLEAN
    /\ dirty \in BOOLEAN
    /\ pc \in {"idle", "torfile", "keys", "obconfig", "reload", "status"}
    /\ job \in Jobs
    /\ torfile \in TorFiles
    /\ obfile \in ObFiles
    /\ hostfile \in Origins
    /\ keyfile \in Origins
    /\ told \in TorFiles \X ObFiles
    /\ writes \in 0 .. MaxWrites
    /\ faults \in 0 .. MaxFaults
    /\ failed \subseteq Faults

\* The informer's copy after a list; fresh: its resourceVersion is the current one.
Current == [exists |-> obj.exists, spec |-> obj.spec, hostname |-> obj.hostname,
            fresh |-> TRUE]

\* sync's variables outside of sync.
NoJob == [spec |-> CHOOSE spec \in Specs : TRUE, hostname |-> "none",
          fresh |-> FALSE, reload |-> FALSE]

\* A new container: the informer has listed, AddFunc has called AddAfter.
Boot ==
    /\ waiting' = obj.exists
    /\ known' = Current
    /\ dirty' = FALSE
    /\ pc' = "idle"
    /\ job' = NoJob
    /\ torfile' = NoFile
    /\ obfile' = NoFile
    /\ hostfile' = "none"
    /\ keyfile' = "none"
    /\ told' = <<NoFile, NoFile>>

Init ==
    /\ \E spec \in Specs : obj = [exists |-> TRUE, spec |-> spec, hostname |-> "none"]
    /\ known = Current
    /\ waiting = TRUE
    /\ dirty = FALSE
    /\ pc = "idle"
    /\ job = NoJob
    /\ torfile = NoFile
    /\ obfile = NoFile
    /\ hostfile = "none"
    /\ keyfile = "none"
    /\ told = <<NoFile, NoFile>>
    /\ writes = MaxWrites
    /\ faults = MaxFaults
    /\ failed = {}

---------------------------------------------------------------------------
(* The informer and the queue *)

keys == <<hostfile, keyfile>>
files == <<torfile, obfile, keys, told>>
bounds == <<writes, faults, failed>>

Fault(kind) ==
    /\ kind \in Faults /\ faults > 0
    /\ faults' = faults - 1
    /\ failed' = failed \cup {kind}

\* Every event, a status update of the agent's own included, is a AddAfter
\* of two seconds; a key that is waiting already keeps its place.
Notice ==
    /\ ~known.fresh
    /\ known' = Current
    /\ waiting' = TRUE
    /\ UNCHANGED <<obj, dirty, pc, job, files, bounds>>

\* The delay is over.  While the worker is busy the key only gets dirty.
DelayElapsed ==
    /\ waiting
    /\ waiting' = FALSE
    /\ dirty' = TRUE
    /\ UNCHANGED <<obj, known, pc, job, files, bounds>>

\* queue.Get, and GetByKey finds the object in the indexer.
Take ==
    /\ pc = "idle" /\ dirty /\ known.exists
    /\ dirty' = FALSE
    /\ pc' = "torfile"
    /\ job' = [spec |-> known.spec, hostname |-> known.hostname,
               fresh |-> known.fresh, reload |-> FALSE]
    /\ UNCHANGED <<obj, known, waiting, files, bounds>>

\* It does not exist anymore: sync returns nil.
TakeDeleted ==
    /\ pc = "idle" /\ dirty /\ ~known.exists
    /\ dirty' = FALSE
    /\ UNCHANGED <<obj, known, waiting, pc, job, files, bounds>>

\* sync returns nil: Forget.
Finish ==
    /\ pc' = "idle"
    /\ job' = NoJob
    /\ UNCHANGED waiting

(***************************************************************************)
(* sync returns an error: handleErr adds the key again after three seconds. *)
(* Nothing of it counts requeues (AddAfter is not AddRateLimited), so the   *)
(* branch that drops the key after five of them is never taken.            *)
(***************************************************************************)
Retry ==
    /\ pc' = "idle"
    /\ job' = NoJob
    /\ waiting' = TRUE

---------------------------------------------------------------------------
(* sync *)

\* Compares the torfile with the configuration and writes it if it differs.
SyncTorfile ==
    /\ pc = "torfile"
    /\ torfile' = TorConfig(job.spec)
    /\ job' = [job EXCEPT !.reload = torfile # TorConfig(job.spec)]
    /\ pc' = "keys"
    /\ UNCHANGED <<obj, known, waiting, dirty, obfile, keys, told, bounds>>

\* The torfile cannot be read: nothing is known about it, nothing is done.
TorfileUnreadable ==
    /\ Fault("torread")
    /\ pc = "torfile" /\ torfile # NoFile
    /\ Retry
    /\ UNCHANGED <<obj, known, dirty, files, writes>>

\* The write of a torfile that differs fails half-way.
TorfileTorn ==
    /\ Fault("torwrite")
    /\ pc = "torfile" /\ torfile # TorConfig(job.spec)
    /\ torfile' = Torn
    /\ Retry
    /\ UNCHANGED <<obj, known, dirty, obfile, keys, told, writes>>

\* copyIfNotExist: what is there already is never replaced.
Copied(file) == IF file = "none" THEN "secret" ELSE file

\* A variant of SyncKeys that tells the daemon before the keys are in place.
SyncKeysLate ==
    /\ pc = "keys"
    /\ IF job.reload /\ told[1] = NoFile
       THEN told' = <<torfile, obfile>> /\ UNCHANGED <<keys, pc>>
       ELSE /\ hostfile' = Copied(hostfile)
            /\ keyfile' = Copied(keyfile)
            /\ pc' = "obconfig"
            /\ UNCHANGED told
    /\ UNCHANGED <<obj, known, waiting, dirty, job, torfile, obfile, bounds>>

\* Copies hostname, keys and authorized clients from the mounted secrets to
\* where tor wants them, unless they are there already.
SyncKeys ==
    /\ pc = "keys"
    /\ hostfile' = Copied(hostfile)
    /\ keyfile' = Copied(keyfile)
    /\ pc' = "obconfig"
    /\ UNCHANGED <<obj, known, waiting, dirty, job, torfile, obfile, told, bounds>>

\* What a copy that may fail leaves.
MaybeCopied(file) == IF file = "none" THEN {"none", "torn", "secret"} ELSE {file}

\* A copy that fails is only logged: the file is not there, or it is empty, or
\* what failed came after the copying.
KeysNotCopied ==
    /\ Fault("copy")
    /\ pc = "keys"
    /\ hostfile' \in MaybeCopied(hostfile)
    /\ keyfile' \in MaybeCopied(keyfile)
    /\ "secret" \notin {hostfile', keyfile'} \/ hostfile' # keyfile'
    /\ pc' = "obconfig"
    /\ UNCHANGED <<obj, known, waiting, dirty, job, torfile, obfile, told, writes>>

\* A variant of SyncObConfig that does not ask whether there is a master.
SyncObConfigAlways ==
    /\ pc = "obconfig"
    /\ obfile' = ObConfig(job.spec)
    /\ job' = [job EXCEPT !.reload = @ \/ obfile # ObConfig(job.spec)]
    /\ pc' = "reload"
    /\ UNCHANGED <<obj, known, waiting, dirty, torfile, keys, told, bounds>>

\* A variant of SyncObConfig that forgets that the torfile was written.
SyncObConfigAlone ==
    /\ pc = "obconfig"
    /\ obfile' = IF job.spec.master = NoMaster THEN obfile ELSE ObConfig(job.spec)
    /\ job' = [job EXCEPT !.reload = IF job.spec.master = NoMaster THEN @
                                     ELSE obfile # ObConfig(job.spec)]
    /\ pc' = "reload"
    /\ UNCHANGED <<obj, known, waiting, dirty, torfile, keys, told, bounds>>

\* With a master: compares ob_config, and writes it if it differs or if the
\* torfile did.
SyncObConfig ==
    /\ pc = "obconfig"
    /\ IF job.spec.master = NoMaster
       THEN UNCHANGED <<obfile, job>>
       ELSE /\ obfile' = ObConfig(job.spec)
            /\ job' = [job EXCEPT !.reload = @ \/ obfile # ObConfig(job.spec)]
    /\ pc' = "reload"
    /\ UNCHANGED <<obj, known, waiting, dirty, torfile, keys, told, bounds>>

\* ob_config cannot be read: sync returns before it tells the daemon.
ObConfigUnreadable ==
    /\ Fault("obread")
    /\ pc = "obconfig" /\ job.spec.master # NoMaster /\ obfile # NoFile
    /\ Retry
    /\ UNCHANGED <<obj, known, dirty, files, writes>>

\* The write of ob_config fails, before or after it truncated the file.
ObConfigNotWritten ==
    /\ Fault("obwrite")
    /\ pc = "obconfig" /\ job.spec.master # NoMaster
    /\ job.reload \/ obfile # ObConfig(job.spec)
    /\ obfile' \in {obfile, Torn}
    /\ Retry
    /\ UNCHANGED <<obj, known, dirty, torfile, keys, told, writes>>

\* daemon.Reload, if one of the files was written.
SyncReload ==
    /\ pc = "reload"
    /\ told' = IF job.reload THEN <<torfile, obfile>> ELSE told
    /\ pc' = "status"
    /\ UNCHANGED <<obj, known, waiting, dirty, job, torfile, obfile, keys, bounds>>

\* There is a hostname file, and it says another hostname than the job's object.
HostnameDiffers == hostfile # "none" /\ Trimmed(hostfile) # job.hostname

\* updateOnionServiceStatus has nothing to publish: an empty file equals a
\* hostname that was never published.
StatusCurrent ==
    /\ pc = "status" /\ hostfile # "none" /\ ~HostnameDiffers
    /\ Finish
    /\ UNCHANGED <<obj, known, dirty, files, bounds>>

\* It publishes the hostname with the resourceVersion the job was taken with;
\* the one of an empty file replaces what was published before.
StatusWritten ==
    /\ pc = "status" /\ HostnameDiffers
    /\ job.fresh /\ obj.exists
    /\ obj' = [obj EXCEPT !.hostname = Trimmed(hostfile)]
    /\ known' = [known EXCEPT !.fresh = FALSE]
    /\ Finish
    /\ UNCHANGED <<dirty, files, bounds>>

\* Somebody wrote the object in between, or deleted it.
StatusConflict ==
    /\ pc = "status" /\ HostnameDiffers
    /\ ~job.fresh \/ ~obj.exists
    /\ Retry
    /\ UNCHANGED <<obj, known, dirty, files, bounds>>

\* There is no hostname file to read.
HostnameMissing ==
    /\ pc = "status" /\ hostfile = "none"
    /\ Retry
    /\ UNCHANGED <<obj, known, dirty, files, bounds>>

\* A variant of StatusFails that takes the failure for a success.
StatusFailureSwallowed ==
    /\ Fault("status")
    /\ pc = "status" /\ HostnameDiffers
    /\ Finish
    /\ UNCHANGED <<obj, known, dirty, files, writes>>

\* The call fails for another reason.
StatusFails ==
    /\ Fault("status")
    /\ pc = "status" /\ HostnameDiffers
    /\ Retry
    /\ UNCHANGED <<obj, known, dirty, files, writes>>

---------------------------------------------------------------------------
(* Everybody else *)

\* tor, once it is told to start, makes the keys that are missing and writes
\* the hostname of its keys; torn ones it refuses.
TorLoadsKeys ==
    /\ told[1] # NoFile /\ keyfile # "torn"
    /\ keyfile' = IF keyfile = "none" THEN "own" ELSE keyfile
    /\ hostfile' = keyfile'
    /\ keys' # keys
    /\ UNCHANGED <<obj, known, waiting, dirty, pc, job, torfile, obfile, told, bounds>>

OutdateCopies ==
    /\ known' = [known EXCEPT !.fresh = FALSE]
    /\ job' = [job EXCEPT !.fresh = FALSE]

\* A user changes the spec.
WriteSpec ==
    /\ obj.exists /\ writes > 0 /\ writes' = writes - 1
    /\ \E spec \in Specs \ {obj.spec} : obj' = [obj EXCEPT !.spec = spec]
    /\ OutdateCopies
    /\ UNCHANGED <<waiting, dirty, pc, files, faults, failed>>

\* The operator writes its part of the status, the target's cluster address.
WriteTarget ==
    /\ obj.exists /\ writes > 0 /\ writes' = writes - 1
    /\ OutdateCopies
    /\ UNCHANGED <<obj, waiting, dirty, pc, files, faults, failed>>

Delete ==
    /\ obj.exists /\ writes > 0 /\ writes' = writes - 1
    /\ obj' = [obj EXCEPT !.exists = FALSE]
    /\ OutdateCopies
    /\ UNCHANGED <<waiting, dirty, pc, files, faults, failed>>

\* The agent's process ends, and with it its container.
Crash ==
    /\ Fault("crash")
    /\ Boot
    /\ UNCHANGED <<obj, writes>>

---------------------------------------------------------------------------

Worker ==
    \/ Take \/ TakeDeleted
    \/ SyncTorfile \/ SyncKeys \/ SyncObConfig \/ SyncReload
    \/ StatusCurrent \/ StatusWritten \/ StatusConflict \/ HostnameMissing

Failure ==
    \/ TorfileUnreadable \/ TorfileTorn \/ KeysNotCopied
    \/ ObConfigUnreadable \/ ObConfigNotWritten \/ StatusFails
    \/ Crash

Next ==
    \/ Notice \/ DelayElapsed \/ Worker \/ Failure \/ TorLoadsKeys
    \/ WriteSpec \/ WriteTarget \/ Delete

Spec == Init /\ [][Next]_vars

\* The watch delivers, delays end, the worker works.
Fairness == WF_vars(Notice) /\ WF_vars(DelayElapsed) /\ WF_vars(Worker)

FairSpec == Spec /\ Fairness

---------------------------------------------------------------------------
(* Properties *)

Quiescent == ~waiting /\ ~dirty /\ pc = "idle" /\ known.fresh

\* The daemon was told to load what the spec asks for.
Loaded ==
    /\ told[1] = TorConfig(obj.spec)
    /\ obj.spec.master # NoMaster => told[2] = ObConfig(obj.spec)

(***************************************************************************)
(* The agent only rests when the daemon was told to load what the spec asks *)
(* for: "generates tor config, signaling the tor daemon when it changes"    *)
(* (README, How it works).                                                  *)
(***************************************************************************)
ReloadNeverLost == Quiescent /\ obj.exists => Loaded

(***************************************************************************)
(* That holds as long as ob_config can be read and written.  sync tells the *)
(* daemon only when it finds a file that differs, so no other end of sync   *)
(* may leave a file written and the daemon untold.                          *)
(***************************************************************************)
ObConfigAccessible == failed \cap {"obread", "obwrite"} = {}

ReloadNotLost == ObConfigAccessible => ReloadNeverLost

(***************************************************************************)
(* The hostname published is the one of the operator's secret, unless a     *)
(* copy failed: the keys are in place before tor is told to start, or tor   *)
(* makes its own and keeps them.                                            *)
(***************************************************************************)
PublishedIsSecrets == obj.hostname = "own" => "copy" \in failed

(***************************************************************************)
(* The agent only rests when there is a hostname file, and unless a copy    *)
(* failed the hostname of the operator's keys is published and those are    *)
(* the keys tor has: an update that conflicts with the operator's own write *)
(* of the status or fails, and a sync that comes before there is a hostname *)
(* file, is made good by another sync.  A copy of the hostname that failed  *)
(* is not: the empty file it leaves is never copied again and reads like a  *)
(* Status.Hostname that is up to date.                                      *)
(***************************************************************************)
RestsOnlyWhenPublished ==
    Quiescent /\ obj.exists =>
        /\ hostfile # "none"
        /\ "copy" \notin failed => obj.hostname = "secret" /\ keys = <<"secret", "secret">>

(***************************************************************************)
(* In the end tor has been told the last spec, and the address it serves is *)
(* published unless a copy failed, whatever else failed, conflicted or      *)
(* crashed: every error of sync is retried, every event of the watch        *)
(* reaches the queue.                                                       *)
(***************************************************************************)
EventuallyServed ==
    <>[](obj.exists => /\ ObConfigAccessible => Loaded
                       /\ "copy" \notin failed => obj.hostname = keyfile /\ keyfile # "none")
=============================================================================
