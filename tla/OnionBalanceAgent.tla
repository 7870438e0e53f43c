------------------------- MODULE OnionBalanceAgent -------------------------
(***************************************************************************)
(* The agent of an OnionBalancedService (src/agents/onionbalance): a worker *)
(* writes the hostnames of status.backends to config.yaml and reloads       *)
(* onionbalance; the supervisor (onionbalancedaemon/daemon.go) starts it    *)
(* in loops, each a goroutine, that share the field t.cmd with the worker.  *)
(*                                                                          *)
(* Unlike tor, onionbalance holds no lock: whatever is started runs, with   *)
(* the configuration it has read, beside what runs already.                 *)
(***************************************************************************)
EXTENDS Naturals, FiniteSets

CONSTANTS
    Backends,    \* the OnionServices that may be listed in status.backends
    Loops,       \* the loops Start may run (a bound)
    Cmds,        \* the exec.Cmd values in use at a time (a bound)
    NoCmd,       \* the nil pointer
    NoFile,      \* config.yaml does not exist
    Torn,        \* a write of config.yaml failed half-way
    MaxWrites,   \* bound: how often others write the OnionBalancedService
    Faults,      \* what may go wrong: a subset of FaultKinds
    MaxFaults    \* bound: how often something goes wrong

FaultKinds == {"read", "write", "start", "death", "crash", "term"}

ASSUME NoCmdAssumption == NoCmd \notin Cmds
ASSUME LoopsAssumption == IsFiniteSet(Loops)
ASSUME BoundsAssumption == MaxWrites \in Nat /\ MaxFaults \in Nat
ASSUME FaultsAssumption == Faults \subseteq FaultKinds

VARIABLES
    obj,      \* the OnionBalancedService at the API server
    known,    \* the informer's copy of it
    waiting,  \* AddAfter has scheduled the key
    dirty,    \* the key is in the queue
    pc,       \* where the worker's sync stands
    job,      \* the text sync has generated
    file,     \* config.yaml, in a volume that outlives the container
    cmd,      \* t.cmd
    phase,    \* per Cmd: what became of it
    serves,   \* per Cmd: the backends its process has read
    loop,     \* per loop: where it stands
    waits,    \* per loop, and for the worker: the Cmd it waits for
    stopped,  \* SIGTERM has come: stopCh is closed, the queue shut down
    writes,   \* how often others may still write the object
    faults    \* how often something may still go wrong

agent == <<known, waiting, dirty, pc, job>>
daemon == <<cmd, phase, serves, loop, waits>>
bounds == <<writes, faults>>
vars == <<obj, agent, file, daemon, stopped, bounds>>

Worker == "worker"

ASSUME WorkerAssumption == Worker \notin Loops

(***************************************************************************)
(* OnionBalanceConfigForService ranges over a Go map: with more than one    *)
(* hostname the text is one of several, whatever the one before was.        *)
(***************************************************************************)
Orders(backends) == IF Cardinality(backends) > 1 THEN {1, 2} ELSE {1}

Texts == {text \in [backends : SUBSET Backends, order : {1, 2}] :
             text.order \in Orders(text.backends)}

ASSUME FilesAssumption == NoFile \notin Texts /\ Torn \notin Texts

\* made, unborn (could not be started), running, ended but not waited for,
\* exited; unsure: killed by a signal, or ProcessState overwritten with nil.
Phases == {"made", "unborn", "running", "ended", "exited", "unsure"}

\* Where a loop stands decides what t.cmd may be: it never starts or waits for
\* nil, although it reads the field anew at each step.
TypeOK ==
    /\ obj \in [exists : BOOLEAN, backends : SUBSET Backends]
    /\ known \in [exists : BOOLEAN, backends : SUBSET Backends, fresh : BOOLEAN]
    /\ waiting \in BOOLEAN /\ dirty \in BOOLEAN /\ stopped \in BOOLEAN
    /\ pc \in {"idle", "compare", "ensure", "reload", "signal", "wait", "waiting"}
    /\ job \in Texts
    /\ file \in Texts \cup {NoFile, Torn}
    /\ cmd \in Cmds \cup {NoCmd}
    /\ phase \in [Cmds -> Phases]
    /\ serves \in [Cmds -> SUBSET Backends]
    /\ loop \in [Loops -> {"none", "make", "start", "wait", "waiting", "sleep"}]
    /\ waits \in [Loops \cup {Worker} -> Cmds \cup {NoCmd}]
    /\ \A l \in Loops : loop[l] \in {"start", "wait", "waiting"} => cmd # NoCmd
    /\ writes \in 0 .. MaxWrites
    /\ faults \in 0 .. MaxFaults

Current == [exists |-> obj.exists, backends |-> obj.backends, fresh |-> TRUE]

NoJob == [backends |-> {}, order |-> 1]

Init ==
    /\ \E backends \in SUBSET Backends : obj = [exists |-> TRUE, backends |-> backends]
    /\ known = Current
    /\ waiting = TRUE /\ dirty = FALSE
    /\ pc = "idle" /\ job = NoJob
    /\ file = NoFile
    /\ cmd = NoCmd
    /\ phase = [c \in Cmds |-> "exited"]
    /\ serves = [c \in Cmds |-> {}]
    /\ loop = [l \in Loops |-> "none"]
    /\ waits = [w \in Loops \cup {Worker} |-> NoCmd]
    /\ stopped = FALSE
    /\ writes = MaxWrites /\ faults = MaxFaults

\* A new container: nothing runs, the informer has listed, AddFunc has called
\* AddAfter.  The file is still there.
Boot ==
    /\ known' = Current
    /\ waiting' = obj.exists /\ dirty' = FALSE
    /\ pc' = "idle" /\ job' = NoJob
    /\ cmd' = NoCmd
    /\ phase' = [c \in Cmds |-> "exited"]
    /\ serves' = [c \in Cmds |-> {}]
    /\ loop' = [l \in Loops |-> "none"]
    /\ waits' = [w \in Loops \cup {Worker} |-> NoCmd]
    /\ stopped' = FALSE
    /\ UNCHANGED file

Fault(kind) ==
    /\ kind \in Faults /\ faults > 0
    /\ faults' = faults - 1
    /\ UNCHANGED writes

---------------------------------------------------------------------------
(* The informer, the queue and sync *)

Notice ==
    /\ ~known.fresh
    /\ known' = Current
    /\ waiting' = TRUE
    /\ UNCHANGED <<obj, dirty, pc, job, file, daemon, stopped, bounds>>

DelayElapsed ==
    /\ waiting
    /\ waiting' = FALSE /\ dirty' = TRUE
    /\ UNCHANGED <<obj, known, pc, job, file, daemon, stopped, bounds>>

\* queue.Get; the object is in the indexer, and its text is generated.
Take ==
    /\ pc = "idle" /\ dirty /\ ~stopped /\ known.exists
    /\ dirty' = FALSE
    /\ pc' = "compare"
    /\ \E order \in Orders(known.backends) :
          job' = [backends |-> known.backends, order |-> order]
    /\ UNCHANGED <<obj, known, waiting, file, daemon, stopped, bounds>>

\* It does not exist anymore: sync returns nil.
TakeDeleted ==
    /\ pc = "idle" /\ dirty /\ ~stopped /\ ~known.exists
    /\ dirty' = FALSE
    /\ UNCHANGED <<obj, known, waiting, pc, job, file, daemon, stopped, bounds>>

Goto(place) == pc' = place /\ UNCHANGED <<known, waiting, dirty, job>>

Finish ==
    /\ pc' = "idle" /\ job' = NoJob
    /\ UNCHANGED <<known, waiting, dirty>>

\* handleErr: AddAfter, however often it failed before.
Retry ==
    /\ pc' = "idle" /\ job' = NoJob /\ waiting' = TRUE
    /\ UNCHANGED <<known, dirty>>

\* The file differs from the text and is written.
Write ==
    /\ pc = "compare" /\ file # job
    /\ file' = job
    /\ Goto("reload")
    /\ UNCHANGED <<obj, daemon, stopped, bounds>>

\* The file is the text.
Equal ==
    /\ pc = "compare" /\ file = job
    /\ Goto("ensure")
    /\ UNCHANGED <<obj, file, daemon, stopped, bounds>>

Unreadable ==
    /\ Fault("read")
    /\ pc = "compare" /\ file # NoFile
    /\ Retry
    /\ UNCHANGED <<obj, file, daemon, stopped>>

\* A variant of WriteFails whose error is only logged.
WriteFailureLogged ==
    /\ Fault("write")
    /\ pc = "compare" /\ file # job
    /\ file' \in {file, Torn}
    /\ Finish
    /\ UNCHANGED <<obj, daemon, stopped>>

\* The write fails, before or after it truncated the file.
WriteFails ==
    /\ Fault("write")
    /\ pc = "compare" /\ file # job
    /\ file' \in {file, Torn}
    /\ Retry
    /\ UNCHANGED <<obj, daemon, stopped>>

---------------------------------------------------------------------------
(* EnsureRunning and Reload, called by the worker *)

\* t.cmd is set, and its ProcessState is nil or says it was killed.
IsRunning == cmd \in {c \in Cmds : phase[c] # "exited"}

\* Start: one more loop.
StartLoop ==
    \E l \in Loops :
        /\ loop[l] = "none"
        /\ loop' = [loop EXCEPT ![l] = "make"]

\* A variant of EnsureRunning that only restarts what has run before.
EnsureRestarted ==
    /\ pc = "ensure"
    /\ IF cmd = NoCmd \/ IsRunning THEN UNCHANGED loop ELSE StartLoop
    /\ Finish
    /\ UNCHANGED <<obj, file, cmd, phase, serves, waits, stopped, bounds>>

EnsureRunning ==
    /\ pc = "ensure"
    /\ IF IsRunning THEN UNCHANGED loop ELSE StartLoop
    /\ Finish
    /\ UNCHANGED <<obj, file, cmd, phase, serves, waits, stopped, bounds>>

\* A variant of ReloadStarts that is content with what runs.
ReloadStartsNothing ==
    /\ pc = "reload" /\ ~IsRunning
    /\ Finish
    /\ UNCHANGED <<obj, file, daemon, stopped, bounds>>

\* Nothing runs: only a loop is started.
ReloadStarts ==
    /\ pc = "reload" /\ ~IsRunning
    /\ StartLoop
    /\ Finish
    /\ UNCHANGED <<obj, file, cmd, phase, serves, waits, stopped, bounds>>

\* A variant of ReloadSignals that leaves alone what runs.
ReloadOnlyStarts ==
    /\ pc = "reload" /\ IsRunning
    /\ StartLoop
    /\ Finish
    /\ UNCHANGED <<obj, file, cmd, phase, serves, waits, stopped, bounds>>

ReloadSignals ==
    /\ pc = "reload" /\ IsRunning
    /\ Goto("signal")
    /\ UNCHANGED <<obj, file, daemon, stopped, bounds>>

(***************************************************************************)
(* t.cmd.Process.Signal(SIGHUP) on whatever t.cmd is now.  What onionbalance *)
(* does with it is not in this repository: it ends, as the supervisor       *)
(* expects, or it reads its configuration again.                           *)
(***************************************************************************)
Signal ==
    /\ pc = "signal" /\ phase[cmd] \notin {"made", "unborn"}
    /\ \/ phase' = [phase EXCEPT ![cmd] = IF @ = "running" THEN "ended" ELSE @]
          /\ UNCHANGED serves
       \/ /\ phase[cmd] = "running" /\ file \in Texts
          /\ serves' = [serves EXCEPT ![cmd] = file.backends]
          /\ UNCHANGED phase
    /\ Goto("wait")
    /\ UNCHANGED <<obj, file, cmd, loop, waits, stopped, bounds>>

\* t.cmd.Process is nil: the agent panics and the container starts anew.
SignalPanics ==
    /\ pc = "signal" /\ phase[cmd] \in {"made", "unborn"}
    /\ Boot
    /\ UNCHANGED <<obj, bounds>>

\* t.cmd.Wait(), beside the loop that waits already, on whatever t.cmd is now.
ReloadWait ==
    /\ pc = "wait"
    /\ waits' = [waits EXCEPT ![Worker] = cmd]
    /\ Goto("waiting")
    /\ UNCHANGED <<obj, file, cmd, phase, serves, loop, stopped, bounds>>

\* What a Wait leaves: the state of the process, or, for the second of two,
\* nil.  On a command that was not started it is an error.
AfterWait(p) ==
    CASE p = "ended" -> {"exited", "unsure"}
      [] p \in {"exited", "unsure"} -> {p, "unsure"}
      [] OTHER -> {p}

\* A variant of ReloadWaited that sets t.cmd to nil.
ReloadWaitedAndForgot ==
    /\ pc = "waiting" /\ phase[waits[Worker]] # "running"
    /\ cmd' = NoCmd
    /\ waits' = [waits EXCEPT ![Worker] = NoCmd]
    /\ StartLoop
    /\ Finish
    /\ UNCHANGED <<obj, file, phase, serves, stopped, bounds>>

\* It is over, and Reload starts another loop.
ReloadWaited ==
    /\ pc = "waiting" /\ phase[waits[Worker]] # "running"
    /\ \E p \in AfterWait(phase[waits[Worker]]) :
          phase' = [phase EXCEPT ![waits[Worker]] = p]
    /\ waits' = [waits EXCEPT ![Worker] = NoCmd]
    /\ StartLoop
    /\ Finish
    /\ UNCHANGED <<obj, file, cmd, serves, stopped, bounds>>

---------------------------------------------------------------------------
(* A loop of Start *)

Unused == {c \in Cmds : c # cmd /\ phase[c] # "running" /\ \A w \in DOMAIN waits : waits[w] # c}

Move(l, place) == loop' = [loop EXCEPT ![l] = place]

\* t.cmd = exec.CommandContext(...).  What became of the unused is forgotten.
Make(l) ==
    /\ loop[l] = "make" /\ Unused # {}
    /\ LET new == CHOOSE c \in Unused : TRUE IN
          /\ cmd' = new
          /\ phase' = [c \in Cmds |-> IF c = new THEN "made"
                                     ELSE IF c \in Unused THEN "exited" ELSE phase[c]]
          /\ serves' = [c \in Cmds |-> IF c \in Unused THEN {} ELSE serves[c]]
    /\ Move(l, "start")
    /\ UNCHANGED <<obj, agent, file, waits, stopped, bounds>>

\* t.cmd.Start() on whatever t.cmd is now; a torn file ends the process.
StartCmd(l) ==
    /\ loop[l] = "start"
    /\ IF phase[cmd] # "made" THEN UNCHANGED <<phase, serves>>
       ELSE IF file \in Texts
       THEN /\ phase' = [phase EXCEPT ![cmd] = "running"]
            /\ serves' = [serves EXCEPT ![cmd] = file.backends]
       ELSE phase' = [phase EXCEPT ![cmd] = "ended"] /\ UNCHANGED serves
    /\ Move(l, "wait")
    /\ UNCHANGED <<obj, agent, file, cmd, waits, stopped, bounds>>

StartFails(l) ==
    /\ Fault("start")
    /\ loop[l] = "start" /\ phase[cmd] = "made"
    /\ phase' = [phase EXCEPT ![cmd] = "unborn"]
    /\ Move(l, "wait")
    /\ UNCHANGED <<obj, agent, file, cmd, serves, waits, stopped>>

\* t.cmd.Wait() on whatever t.cmd is now.
Wait(l) ==
    /\ loop[l] = "wait"
    /\ waits' = [waits EXCEPT ![l] = cmd]
    /\ Move(l, "waiting")
    /\ UNCHANGED <<obj, agent, file, cmd, phase, serves, stopped, bounds>>

\* The process is over, whoever else waited for it.
Waited(l) ==
    /\ loop[l] = "waiting" /\ phase[waits[l]] # "running"
    /\ \E p \in AfterWait(phase[waits[l]]) : phase' = [phase EXCEPT ![waits[l]] = p]
    /\ waits' = [waits EXCEPT ![l] = NoCmd]
    /\ Move(l, "sleep")
    /\ UNCHANGED <<obj, agent, file, cmd, serves, stopped, bounds>>

\* Three seconds later.
Wake(l) ==
    /\ loop[l] = "sleep"
    /\ Move(l, "make")
    /\ UNCHANGED <<obj, agent, file, cmd, phase, serves, waits, stopped, bounds>>

---------------------------------------------------------------------------
(* Everybody else *)

Outdate == known' = [known EXCEPT !.fresh = FALSE]

\* The operator publishes another list of backends, or somebody writes
\* something else of the object.
WriteObject ==
    /\ obj.exists /\ writes > 0 /\ writes' = writes - 1
    /\ \E backends \in SUBSET Backends : obj' = [obj EXCEPT !.backends = backends]
    /\ Outdate
    /\ UNCHANGED <<waiting, dirty, pc, job, file, daemon, stopped, faults>>

Delete ==
    /\ obj.exists /\ writes > 0 /\ writes' = writes - 1
    /\ obj' = [obj EXCEPT !.exists = FALSE]
    /\ Outdate
    /\ UNCHANGED <<waiting, dirty, pc, job, file, daemon, stopped, faults>>

\* An onionbalance fails.
Dies ==
    /\ Fault("death")
    /\ \E c \in Cmds : phase[c] = "running" /\ phase' = [phase EXCEPT ![c] = "ended"]
    /\ UNCHANGED <<obj, agent, file, cmd, serves, loop, waits, stopped>>

Crash ==
    /\ Fault("crash")
    /\ Boot
    /\ UNCHANGED obj

\* SIGTERM: the handler closes stopCh, and the worker takes nothing more ...
Terminate ==
    /\ Fault("term")
    /\ ~stopped /\ stopped' = TRUE
    /\ UNCHANGED <<obj, agent, file, daemon>>

\* ... but Run never comes to wait for stopCh: its watcher waits for a channel
\* that only its own deferred call closes.  The kubelet kills the container.
Kill ==
    /\ stopped
    /\ Boot
    /\ UNCHANGED <<obj, bounds>>

---------------------------------------------------------------------------

Sync == Take \/ TakeDeleted \/ Write \/ Equal

Reload == EnsureRunning \/ ReloadStarts \/ ReloadSignals \/ Signal \/ SignalPanics
          \/ ReloadWait \/ ReloadWaited

Supervise(l) == Make(l) \/ StartCmd(l) \/ Wait(l) \/ Waited(l) \/ Wake(l)

Next ==
    \/ Notice \/ DelayElapsed \/ Sync \/ Unreadable \/ WriteFails \/ Reload
    \/ \E l \in Loops : Supervise(l) \/ StartFails(l)
    \/ WriteObject \/ Delete \/ Dies \/ Crash \/ Terminate \/ Kill

Spec == Init /\ [][Next]_vars

\* The watch delivers, delays end, goroutines run, a terminated container is
\* killed in the end.
Fairness ==
    /\ WF_vars(Notice) /\ WF_vars(DelayElapsed) /\ WF_vars(Sync \/ Reload) /\ WF_vars(Kill)
    /\ \A l \in Loops : WF_vars(Supervise(l))

FairSpec == Spec /\ Fairness

---------------------------------------------------------------------------
(* Properties *)

Quiescent == ~waiting /\ ~dirty /\ pc = "idle" /\ known.fresh

FileCurrent == file \in Texts /\ file.backends = obj.backends

Running == {c \in Cmds : phase[c] = "running"}

(***************************************************************************)
(* The agent only rests when config.yaml holds the published backends: no   *)
(* end of sync leaves a file behind that nothing will make good.            *)
(***************************************************************************)
ConfigIsPublished == Quiescent /\ obj.exists => FileCurrent

(***************************************************************************)
(* When the worker is done, every onionbalance that runs has read the file  *)
(* as it is: "Configuration has changed, save new configs and reload the    *)
(* daemon" (controller.go:102), "stopping existing onionbalance..."         *)
(* (daemon.go:69).  Otherwise two of them publish different descriptors     *)
(* under one address.                                                       *)
(***************************************************************************)
BalancersCurrent ==
    pc = "idle" /\ file \in Texts => \A c \in Running : serves[c] = file.backends

(***************************************************************************)
(* That holds up to the second loop: as long as t.cmd can only be the       *)
(* command of the one onionbalance that runs, SIGHUP and Wait reach it.     *)
(***************************************************************************)
FirstReloadReachesAll ==
    Cardinality({l \in Loops : loop[l] # "none"}) <= 2 => BalancersCurrent

(***************************************************************************)
(* And it holds of the newest one for any number of loops: unless Reload is *)
(* just about to signal it, the process t.cmd points to serves what the     *)
(* file says, so a reload that leaves an older one behind still brings the  *)
(* new configuration up.                                                    *)
(***************************************************************************)
NewestBalancerCurrent ==
    /\ pc \notin {"reload", "signal"} /\ file \in Texts
    /\ cmd # NoCmd /\ phase[cmd] = "running"
    => serves[cmd] = file.backends

(***************************************************************************)
(* The agent only rests when a loop supervises onionbalance.  After a crash *)
(* the file may hold the text already: nothing is written or reloaded, and  *)
(* only EnsureRunning starts a loop, "lets just ensure the daemon is        *)
(* (still) running" (controller.go:114).                                    *)
(***************************************************************************)
SupervisedAtRest == Quiescent /\ obj.exists => \E l \in Loops : loop[l] # "none"

(***************************************************************************)
(* In the end the file holds what is published, unless the worker hangs in  *)
(* the second Wait of Reload on a process that goes on running: every error *)
(* is retried, every event reaches the queue, a restart begins anew.        *)
(***************************************************************************)
EventuallyWritten ==
    <>[](obj.exists => FileCurrent \/ (pc = "waiting" /\ waits[Worker] \in Running))

(***************************************************************************)
(* In the end an onionbalance runs that has read the file as it is, however *)
(* often it died, could not be started, or took the agent with it.          *)
(***************************************************************************)
EventuallyBalanced ==
    <>[](obj.exists => file \in Texts /\ \E c \in Running : serves[c] = file.backends)
=============================================================================
