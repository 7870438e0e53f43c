----------------------------- MODULE TorDaemon -----------------------------
(***************************************************************************)
(* The supervision of the tor process by its agent                          *)
(* (src/agents/tor/tordaemon/daemon.go).  Start runs a loop in a goroutine  *)
(* of its own that makes a command, starts it, waits for it and sleeps;     *)
(* Reload, called by the agent's worker, starts such a loop when it thinks  *)
(* that tor is not running, and sends SIGHUP otherwise.  The loops and the  *)
(* worker share the field t.cmd, which each of their calls reads again, and *)
(* nothing ends a loop.                                                     *)
(*                                                                          *)
(* A step is one access to t.cmd with the call made on it.  Two processes   *)
(* cannot serve at once: tor locks its data directory and binds a fixed     *)
(* metrics port, so one that starts while another serves exits by itself.   *)
(***************************************************************************)
EXTENDS Naturals, FiniteSets

CONSTANTS
    Loops,       \* the loops Reload may start (a bound)
    Cmds,        \* the exec.Cmd values in use at a time (a bound)
    NoCmd,       \* the nil pointer
    MaxWrites,   \* bound: how often the agent writes new files
    MaxFaults    \* bound: how often tor dies or cannot be started

ASSUME NoCmdAssumption == NoCmd \notin Cmds
ASSUME LoopsAssumption == IsFiniteSet(Loops)
ASSUME BoundsAssumption == MaxWrites \in Nat /\ MaxFaults \in Nat

VARIABLES
    cmd,      \* t.cmd
    phase,    \* per Cmd: what became of it
    latest,   \* per Cmd: its process has read the files as they are now
    server,   \* the Cmd whose process serves
    loop,     \* per loop: where it stands
    waits,    \* per loop: the Cmd it waits for
    worker,   \* where the agent's worker stands with its files and Reload
    writes,   \* how often the agent may still write
    faults    \* how often something may still go wrong

vars == <<cmd, phase, latest, server, loop, waits, worker, writes, faults>>

(***************************************************************************)
(* made     exec.Command returned it, Process is nil                        *)
(* unborn   Start failed, Process is nil                                    *)
(* running  the process lives                                               *)
(* ended, slain      it called exit, or was killed by a signal, and nobody  *)
(*                   has waited for it: ProcessState is nil                 *)
(* exited, killed    the same after Wait; only exited makes Exited() true   *)
(* lost     a second waiter has overwritten ProcessState with nil           *)
(***************************************************************************)
Phases == {"made", "unborn", "running", "ended", "slain", "exited", "killed", "lost"}

Places == {"none", "make", "start", "wait", "waiting", "sleep"}

TypeOK ==
    /\ cmd \in Cmds \cup {NoCmd}
    /\ phase \in [Cmds -> Phases]
    /\ latest \in [Cmds -> BOOLEAN]
    /\ server \in {NoCmd} \cup {c \in Cmds : phase[c] = "running"}
    /\ loop \in [Loops -> Places]
    /\ waits \in [Loops -> Cmds \cup {NoCmd}]
    /\ worker \in {"idle", "reload", "signal"}
    /\ worker = "signal" => cmd # NoCmd
    /\ writes \in 0 .. MaxWrites
    /\ faults \in 0 .. MaxFaults

Init ==
    /\ cmd = NoCmd
    /\ phase = [c \in Cmds |-> "exited"]
    /\ latest = [c \in Cmds |-> FALSE]
    /\ server = NoCmd
    /\ loop = [l \in Loops |-> "none"]
    /\ waits = [l \in Loops |-> NoCmd]
    /\ worker = "reload"
    /\ writes = MaxWrites
    /\ faults = MaxFaults

---------------------------------------------------------------------------
(* A loop of Start *)

Goto(l, place) == loop' = [loop EXCEPT ![l] = place]

\* Cmds that no loop waits for, t.cmd does not point to and no process uses.
Unused == {c \in Cmds : /\ c # cmd /\ phase[c] # "running"
                        /\ \A l \in Loops : waits[l] # c}

\* t.cmd = exec.CommandContext(...).  What became of the unused is forgotten.
Make(l) ==
    /\ loop[l] = "make" /\ Unused # {}
    /\ LET c == CHOOSE c \in Unused : TRUE IN
          /\ cmd' = c
          /\ phase' = [d \in Cmds |-> IF d = c THEN "made"
                                     ELSE IF d \in Unused THEN "exited" ELSE phase[d]]
          /\ latest' = [d \in Cmds |-> latest[d] /\ d \notin Unused]
    /\ Goto(l, "start")
    /\ UNCHANGED <<server, waits, worker, writes, faults>>

\* t.cmd.Start() on whatever t.cmd points to now: "already started" is only
\* logged; a process that finds nobody serving reads the files and serves.
StartCmd(l) ==
    /\ loop[l] = "start"
    /\ IF phase[cmd] = "made"
       THEN /\ phase' = [phase EXCEPT ![cmd] = "running"]
            /\ latest' = [latest EXCEPT ![cmd] = TRUE]
            /\ server' = IF server = NoCmd THEN cmd ELSE server
       ELSE UNCHANGED <<phase, latest, server>>
    /\ Goto(l, "wait")
    /\ UNCHANGED <<cmd, waits, worker, writes, faults>>

\* The process cannot be started.
StartFails(l) ==
    /\ loop[l] = "start" /\ phase[cmd] = "made"
    /\ faults > 0 /\ faults' = faults - 1
    /\ phase' = [phase EXCEPT ![cmd] = "unborn"]
    /\ Goto(l, "wait")
    /\ UNCHANGED <<cmd, latest, server, waits, worker, writes>>

\* t.cmd.Wait() blocks on the process, or returns at once: "not started",
\* "Wait was already called".
Wait(l) ==
    /\ loop[l] = "wait"
    /\ IF phase[cmd] \in {"running", "ended", "slain", "lost"}
       THEN Goto(l, "waiting") /\ waits' = [waits EXCEPT ![l] = cmd]
       ELSE Goto(l, "sleep") /\ UNCHANGED waits
    /\ UNCHANGED <<cmd, phase, latest, server, worker, writes, faults>>

AfterWait(p) == CASE p = "ended" -> "exited" [] p = "slain" -> "killed" [] OTHER -> "lost"

\* A variant of Waited that ends the loop with the process.
WaitedAndReturned(l) ==
    /\ loop[l] = "waiting" /\ phase[waits[l]] # "running"
    /\ phase' = [phase EXCEPT ![waits[l]] = AfterWait(@)]
    /\ Goto(l, "none")
    /\ waits' = [waits EXCEPT ![l] = NoCmd]
    /\ UNCHANGED <<cmd, latest, server, worker, writes, faults>>

\* The process is gone and the waiter stores how it ended.
Waited(l) ==
    /\ loop[l] = "waiting" /\ phase[waits[l]] # "running"
    /\ phase' = [phase EXCEPT ![waits[l]] = AfterWait(@)]
    /\ Goto(l, "sleep")
    /\ waits' = [waits EXCEPT ![l] = NoCmd]
    /\ UNCHANGED <<cmd, latest, server, worker, writes, faults>>

\* Three seconds later.
Wake(l) ==
    /\ loop[l] = "sleep"
    /\ Goto(l, "make")
    /\ UNCHANGED <<cmd, phase, latest, server, waits, worker, writes, faults>>

---------------------------------------------------------------------------
(* The worker of the agent *)

\* sync has written files that differ; no process has read them yet.
WriteFiles ==
    /\ worker = "idle" /\ writes > 0 /\ writes' = writes - 1
    /\ worker' = "reload"
    /\ latest' = [c \in Cmds |-> FALSE]
    /\ UNCHANGED <<cmd, phase, server, loop, waits, faults>>

\* A variant of NotRunning that forgets the first Reload.
NotRunningExitedOnly == cmd # NoCmd /\ phase[cmd] = "exited"

\* t.cmd is nil, or ProcessState says that its process exited.
NotRunning == cmd \in {NoCmd} \cup {c \in Cmds : phase[c] = "exited"}

\* Reload takes the branch "tor is not running".
ReloadStarts ==
    /\ worker = "reload" /\ NotRunning
    /\ \E l \in Loops :
          /\ loop[l] = "none"
          /\ Goto(l, "make")
    /\ worker' = "idle"
    /\ UNCHANGED <<cmd, phase, latest, server, waits, writes, faults>>

\* Reload takes the other branch.
ReloadSignals ==
    /\ worker = "reload" /\ ~NotRunning
    /\ worker' = "signal"
    /\ UNCHANGED <<cmd, phase, latest, server, loop, waits, writes, faults>>

\* A variant of Signal that signals only a process somebody waits for.
SignalWaitedFor ==
    /\ worker = "signal" /\ phase[cmd] \notin {"made", "unborn"}
    /\ latest' = [latest EXCEPT ![cmd] = @ \/ \E l \in Loops : waits[l] = cmd]
    /\ worker' = "idle"
    /\ UNCHANGED <<cmd, phase, server, loop, waits, writes, faults>>

\* t.cmd.Process.Signal(SIGHUP): a process that lives reads the files again,
\* for another one there is an error, which is only logged.
Signal ==
    /\ worker = "signal" /\ phase[cmd] \notin {"made", "unborn"}
    /\ latest' = [latest EXCEPT ![cmd] = @ \/ phase[cmd] = "running"]
    /\ worker' = "idle"
    /\ UNCHANGED <<cmd, phase, server, loop, waits, writes, faults>>

\* t.cmd.Process is nil: the agent panics, the container ends with all that
\* runs in it, and a new one begins.
SignalPanics ==
    /\ worker = "signal" /\ phase[cmd] \in {"made", "unborn"}
    /\ cmd' = NoCmd
    /\ phase' = [c \in Cmds |-> "exited"]
    /\ latest' = [c \in Cmds |-> FALSE]
    /\ server' = NoCmd
    /\ loop' = [l \in Loops |-> "none"]
    /\ waits' = [l \in Loops |-> NoCmd]
    /\ worker' = "reload"
    /\ UNCHANGED <<writes, faults>>

---------------------------------------------------------------------------
(* The processes *)

\* One that found another one serving waits a while, then gives up ...
GivesUp(c) ==
    /\ phase[c] = "running" /\ c # server
    /\ phase' = [phase EXCEPT ![c] = "ended"]
    /\ UNCHANGED <<cmd, latest, server, loop, waits, worker, writes, faults>>

\* ... unless the other one is gone by then.
TakesOver(c) ==
    /\ phase[c] = "running" /\ server = NoCmd
    /\ server' = c
    /\ UNCHANGED <<cmd, phase, latest, loop, waits, worker, writes, faults>>

\* The one that serves fails, or is killed.
Dies ==
    /\ server # NoCmd
    /\ faults > 0 /\ faults' = faults - 1
    /\ \E end \in {"ended", "slain"} : phase' = [phase EXCEPT ![server] = end]
    /\ server' = NoCmd
    /\ UNCHANGED <<cmd, latest, loop, waits, worker, writes>>

---------------------------------------------------------------------------

Supervise(l) == Make(l) \/ StartCmd(l) \/ Wait(l) \/ Waited(l) \/ Wake(l)

Reload == ReloadStarts \/ ReloadSignals \/ Signal \/ SignalPanics

Next ==
    \/ \E l \in Loops : Supervise(l) \/ StartFails(l)
    \/ WriteFiles \/ Reload
    \/ \E c \in Cmds : GivesUp(c) \/ TakesOver(c)
    \/ Dies

Spec == Init /\ [][Next]_vars

\* Goroutines and the worker are scheduled, and a process that cannot serve
\* does give up.
Fairness ==
    /\ \A l \in Loops : WF_vars(Supervise(l))
    /\ WF_vars(Reload)
    /\ \A c \in Cmds : WF_vars(GivesUp(c) \/ TakesOver(c))

FairSpec == Spec /\ Fairness

---------------------------------------------------------------------------
(* Properties *)

Started == {l \in Loops : loop[l] # "none"}

(***************************************************************************)
(* Reload starts a loop only when no tor serves, as the comment of that     *)
(* branch says: "tor is not running".  Otherwise the tor that serves never  *)
(* learns of the new files, and one loop more supervises the same field.    *)
(***************************************************************************)
StartsOnlyWhenDown ==
    [][Started' # Started /\ worker = "reload" => server = NoCmd]_vars

(***************************************************************************)
(* As long as there is one loop, the tor that serves has read the files as  *)
(* they are once Reload has returned: t.cmd is its command, and a SIGHUP    *)
(* that finds nobody is made up for by the restart that reads them anyway.  *)
(***************************************************************************)
LoneServerIsCurrent ==
    Cardinality(Started) <= 1 /\ worker = "idle" /\ server # NoCmd => latest[server]

(***************************************************************************)
(* Once Reload has returned, the process t.cmd points to, if it lives, has  *)
(* read the files as they are, however many loops replace the field between *)
(* Reload's accesses to it: what is stale then is an older process, whose   *)
(* command the field no longer holds.                                       *)
(***************************************************************************)
NewestTorCurrent ==
    worker = "idle" /\ cmd # NoCmd /\ phase[cmd] = "running" => latest[cmd]

(***************************************************************************)
(* tor serves in the end, however often it died, could not be started, or   *)
(* took its agent with it, and however many loops get in each other's way.  *)
(***************************************************************************)
TorComesBack == <>[](server # NoCmd)
=============================================================================
