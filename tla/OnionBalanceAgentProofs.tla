---------------------- MODULE OnionBalanceAgentProofs ----------------------
(***************************************************************************)
(* What the agent of an OnionBalancedService promises for any number of     *)
(* backends, commands, loops, writes and failures: types, a config.yaml     *)
(* that is what was published when the agent rests, a Reload that reaches   *)
(* every onionbalance up to the second loop and the newest one beyond it,   *)
(* and a loop that supervises whenever the agent rests.                     *)
(***************************************************************************)
EXTENDS OnionBalanceAgent, FiniteSetTheorems, TLAPS

---------------------------------------------------------------------------
(* Types *)

ObjType == [exists : BOOLEAN, backends : SUBSET Backends]
KnownType == [exists : BOOLEAN, backends : SUBSET Backends, fresh : BOOLEAN]

\* The types of what belongs to the worker, and of what belongs to the daemon.
AgentType ==
    /\ obj \in ObjType /\ known \in KnownType
    /\ waiting \in BOOLEAN /\ dirty \in BOOLEAN /\ stopped \in BOOLEAN
    /\ pc \in {"idle", "compare", "ensure", "reload", "signal", "wait", "waiting"}
    /\ job \in Texts
    /\ file \in Texts \cup {NoFile, Torn}
    /\ writes \in 0 .. MaxWrites
    /\ faults \in 0 .. MaxFaults

DaemonType ==
    /\ cmd \in Cmds \cup {NoCmd}
    /\ phase \in [Cmds -> Phases]
    /\ serves \in [Cmds -> SUBSET Backends]
    /\ loop \in [Loops -> {"none", "make", "start", "wait", "waiting", "sleep"}]
    /\ waits \in [Loops \cup {Worker} -> Cmds \cup {NoCmd}]
    /\ \A l \in Loops : loop[l] \in {"start", "wait", "waiting"} => cmd # NoCmd

(***************************************************************************)
(* Both together are the type invariant.                                    *)
(***************************************************************************)
LEMMA TypeParts == TypeOK <=> AgentType /\ DaemonType
  BY DEF TypeOK, AgentType, DaemonType, ObjType, KnownType

(***************************************************************************)
(* A text without backends is a text, and what is generated for a set of    *)
(* backends has some order.                                                 *)
(***************************************************************************)
LEMMA TextTypes ==
    /\ NoJob \in Texts
    /\ \A backends \in SUBSET Backends : \A order \in Orders(backends) :
          [backends |-> backends, order |-> order] \in Texts
  <1>1. Orders({}) = {1}
    BY FS_EmptySet DEF Orders
  <1> QED
    BY <1>1 DEF NoJob, Texts, Orders

(***************************************************************************)
(* A failure is counted.                                                    *)
(***************************************************************************)
LEMMA FaultType ==
    ASSUME faults \in 0 .. MaxFaults, NEW kind, Fault(kind)
    PROVE  faults' \in 0 .. MaxFaults /\ writes' = writes
  BY BoundsAssumption DEF Fault

(***************************************************************************)
(* A write by others is counted.                                            *)
(***************************************************************************)
LEMMA WriteType ==
    ASSUME writes \in 0 .. MaxWrites, writes > 0, writes' = writes - 1
    PROVE  writes' \in 0 .. MaxWrites
  BY BoundsAssumption

(***************************************************************************)
(* What the informer delivers.                                              *)
(***************************************************************************)
LEMMA CurrentType ==
    ASSUME obj \in ObjType
    PROVE  Current \in KnownType /\ Current.exists = obj.exists /\ Current.backends = obj.backends
  BY DEF ObjType, KnownType, Current

(***************************************************************************)
(* Initially, and in a new container.                                       *)
(***************************************************************************)
LEMMA InitType == ASSUME Init PROVE AgentType /\ DaemonType
  <1>1. obj \in ObjType
    BY DEF Init, ObjType
  <1>2. known \in KnownType
    BY <1>1, CurrentType DEF Init
  <1>3. /\ waiting = TRUE /\ dirty = FALSE /\ stopped = FALSE /\ pc = "idle"
        /\ job = NoJob /\ file = NoFile
    BY DEF Init
  <1>4. writes \in 0 .. MaxWrites /\ faults \in 0 .. MaxFaults
    BY BoundsAssumption DEF Init
  <1>5. AgentType
    BY <1>1, <1>2, <1>3, <1>4, TextTypes DEF AgentType
  <1>6. DaemonType
    BY DEF Init, DaemonType, Phases
  <1> QED
    BY <1>5, <1>6

(***************************************************************************)
(* A new container keeps the types.                                         *)
(***************************************************************************)
LEMMA BootType ==
    ASSUME AgentType, Boot, UNCHANGED <<obj, writes>>, faults' \in 0 .. MaxFaults
    PROVE  AgentType' /\ DaemonType'
  <1>1. known' \in KnownType /\ waiting' \in BOOLEAN
    <2>1. known' = Current /\ waiting' = obj.exists /\ obj.exists \in BOOLEAN
      BY DEF Boot, AgentType, ObjType
    <2>2. known' \in KnownType
      BY <2>1, CurrentType DEF AgentType
    <2>3. waiting' \in BOOLEAN
      BY <2>1, Zenon
    <2> QED
      BY <2>2, <2>3
  <1>2. /\ dirty' = FALSE /\ stopped' = FALSE /\ pc' = "idle" /\ job' = NoJob /\ file' = file
        /\ obj' = obj /\ writes' = writes
    BY DEF Boot
  <1>3. AgentType'
    BY <1>1, <1>2, TextTypes DEF AgentType
  <1>4. DaemonType'
    BY DEF Boot, DaemonType, Phases
  <1> QED
    BY <1>3, <1>4

(***************************************************************************)
(* Every step keeps the types of what belongs to the worker.                *)
(***************************************************************************)
LEMMA NextAgentType == ASSUME AgentType, [Next]_vars PROVE AgentType'
  <1> USE DEF agent, daemon, bounds
  <1>1. CASE Notice
    BY <1>1, CurrentType DEF Notice, AgentType
  <1>2. CASE DelayElapsed
    BY <1>2 DEF DelayElapsed, AgentType
  <1>3. CASE Take
    <2>1. job' \in Texts
      BY <1>3, TextTypes DEF Take, AgentType, KnownType
    <2> QED
      BY <1>3, <2>1 DEF Take, AgentType
  <1>4. CASE TakeDeleted
    BY <1>4 DEF TakeDeleted, AgentType
  <1>5. CASE Write
    BY <1>5 DEF Write, Goto, AgentType
  <1>6. CASE Equal
    BY <1>6 DEF Equal, Goto, AgentType
  <1>7. CASE Unreadable
    BY <1>7, TextTypes, FaultType DEF Unreadable, Retry, AgentType
  <1>8. CASE WriteFails
    BY <1>8, TextTypes, FaultType DEF WriteFails, Retry, AgentType
  <1>9. CASE EnsureRunning \/ ReloadStarts \/ ReloadWaited
    BY <1>9, TextTypes DEF EnsureRunning, ReloadStarts, ReloadWaited, Finish, AgentType
  <1>10. CASE ReloadSignals \/ Signal \/ ReloadWait
    BY <1>10 DEF ReloadSignals, Signal, ReloadWait, Goto, AgentType
  <1>11. CASE SignalPanics
    BY <1>11, BootType DEF SignalPanics, AgentType
  <1>12. ASSUME NEW l \in Loops, Supervise(l)
         PROVE  AgentType'
    BY <1>12 DEF Supervise, Make, StartCmd, Wait, Waited, Wake, AgentType
  <1>13. ASSUME NEW l \in Loops, StartFails(l)
         PROVE  AgentType'
    BY <1>13, FaultType DEF StartFails, AgentType
  <1>14. CASE WriteObject \/ Delete
    <2>1. obj' \in ObjType
      <3>1. CASE WriteObject
        BY <3>1 DEF WriteObject, AgentType, ObjType
      <3>2. CASE Delete
        BY <3>2 DEF Delete, AgentType, ObjType
      <3> QED
        BY <1>14, <3>1, <3>2
    <2>2. known' \in KnownType
      BY <1>14 DEF WriteObject, Delete, Outdate, AgentType, KnownType
    <2>3. writes' \in 0 .. MaxWrites
      BY <1>14, WriteType DEF WriteObject, Delete, AgentType
    <2> QED
      BY <1>14, <2>1, <2>2, <2>3 DEF WriteObject, Delete, AgentType
  <1>15. CASE Dies
    BY <1>15, FaultType DEF Dies, AgentType
  <1>16. CASE Crash
    BY <1>16, FaultType, BootType DEF Crash, AgentType
  <1>17. CASE Terminate
    BY <1>17, FaultType DEF Terminate, AgentType
  <1>18. CASE Kill
    BY <1>18, BootType DEF Kill, AgentType
  <1>19. CASE UNCHANGED vars
    BY <1>19 DEF vars, AgentType
  <1> QED
    BY <1>1, <1>2, <1>3, <1>4, <1>5, <1>6, <1>7, <1>8, <1>9, <1>10, <1>11, <1>12, <1>13, <1>14,
       <1>15, <1>16, <1>17, <1>18, <1>19 DEF Next, Sync, Reload

(***************************************************************************)
(* What a Wait leaves of a process that does not run is a phase, and not    *)
(* the one that runs.                                                       *)
(***************************************************************************)
LEMMA AfterWaitPhase ==
    ASSUME NEW p \in Phases, p # "running", NEW q \in AfterWait(p)
    PROVE  q \in Phases /\ q # "running"
  BY DEF AfterWait, Phases

(***************************************************************************)
(* StartLoop makes one loop more.                                           *)
(***************************************************************************)
LEMMA StartLoopType ==
    ASSUME DaemonType, StartLoop
    PROVE  \E l \in Loops :
              /\ loop[l] = "none" /\ loop'[l] = "make"
              /\ \A m \in Loops \ {l} : loop'[m] = loop[m]
              /\ loop' \in [Loops -> {"none", "make", "start", "wait", "waiting", "sleep"}]
  BY DEF StartLoop, DaemonType

(***************************************************************************)
(* A change of what became of one command, t.cmd or one that is waited for. *)
(***************************************************************************)
LEMMA ChangedPhase ==
    ASSUME phase \in [Cmds -> Phases], NEW c, NEW p, c \in Cmds => p \in Phases,
           phase' = [phase EXCEPT ![c] = p]
    PROVE  /\ phase' \in [Cmds -> Phases]
           /\ \A d \in Cmds : phase'[d] = IF d = c THEN p ELSE phase[d]
  <1>1. CASE c \in Cmds
    BY <1>1
  <1>2. CASE c \notin Cmds
    <2>1. phase' = phase
      BY <1>2
    <2> QED
      BY <1>2, <2>1
  <1> QED
    BY <1>1, <1>2

(***************************************************************************)
(* A Wait returns: the command it waited for did not run, and does not run. *)
(***************************************************************************)
LEMMA WaitOver ==
    ASSUME DaemonType, NEW w \in Loops \cup {Worker}, phase[waits[w]] # "running",
           NEW p \in AfterWait(phase[waits[w]]), phase' = [phase EXCEPT ![waits[w]] = p]
    PROVE  /\ phase' \in [Cmds -> Phases]
           /\ \A c \in Cmds : phase'[c] = "running" => phase[c] = "running" /\ c # waits[w]
  <1> DEFINE c == waits[w]
  <1>1. phase \in [Cmds -> Phases]
    BY DEF DaemonType
  <1>2. c \in Cmds => p \in Phases /\ p # "running"
    BY <1>1, AfterWaitPhase
  <1>3. phase' = [phase EXCEPT ![c] = p]
    OBVIOUS
  <1> HIDE DEF c
  <1>4. /\ phase' \in [Cmds -> Phases]
        /\ \A d \in Cmds : phase'[d] = IF d = c THEN p ELSE phase[d]
    BY <1>1, <1>2, <1>3, ChangedPhase
  <1> QED
    BY <1>2, <1>4 DEF c

(***************************************************************************)
(* The signal leaves the types, and no process runs that did not.           *)
(***************************************************************************)
LEMMA SignalType ==
    ASSUME AgentType, DaemonType, Signal
    PROVE  /\ DaemonType'
           /\ \A c \in Cmds \ {cmd} : phase'[c] = phase[c] /\ serves'[c] = serves[c]
           /\ phase'[cmd] = "running" => phase[cmd] = "running"
           /\ file \in Texts /\ cmd \in Cmds =>
                 phase'[cmd] # "running" \/ serves'[cmd] = file.backends
  <1>1. phase \in [Cmds -> Phases] /\ serves \in [Cmds -> SUBSET Backends]
    BY DEF DaemonType
  <1>2. file \in Texts => file.backends \in SUBSET Backends
    BY DEF Texts
  <1>3. UNCHANGED <<obj, file, cmd, loop, waits>>
    BY DEF Signal
  <1>4. CASE /\ phase' = [phase EXCEPT ![cmd] = IF @ = "running" THEN "ended" ELSE @]
             /\ UNCHANGED serves
    <2> DEFINE p == IF phase[cmd] = "running" THEN "ended" ELSE phase[cmd]
    <2>1. phase' = [phase EXCEPT ![cmd] = p]
      BY <1>4
    <2>2. cmd \in Cmds => p \in Phases
      BY <1>1 DEF Phases
    <2>3. p # "running"
      OBVIOUS
    <2> HIDE DEF p
    <2>4. /\ phase' \in [Cmds -> Phases]
          /\ \A d \in Cmds : phase'[d] = IF d = cmd THEN p ELSE phase[d]
      BY <1>1, <2>1, <2>2, ChangedPhase
    <2>5. cmd \in Cmds \/ phase' = phase
      BY <1>1, <2>1
    <2> QED
      BY <1>1, <1>3, <1>4, <2>3, <2>4, <2>5 DEF DaemonType
  <1>5. CASE /\ phase[cmd] = "running" /\ file \in Texts
             /\ serves' = [serves EXCEPT ![cmd] = file.backends]
             /\ UNCHANGED phase
    BY <1>1, <1>2, <1>3, <1>5 DEF DaemonType
  <1> QED
    BY <1>4, <1>5 DEF Signal

(***************************************************************************)
(* A command is made where none is used.                                    *)
(***************************************************************************)
LEMMA MakeType ==
    ASSUME DaemonType, NEW l \in Loops, Make(l)
    PROVE  /\ DaemonType'
           /\ \A c \in Cmds : phase'[c] = "running" => phase[c] = "running" /\ serves'[c] = serves[c]
  <1> DEFINE new == CHOOSE c \in Unused : TRUE
  <1>1. new \in Cmds /\ phase[new] # "running" /\ \A c \in Unused : phase[c] # "running"
    BY DEF Make, Unused
  <1>2. NoCmd \notin Cmds
    BY NoCmdAssumption
  <1>3. /\ cmd' = new
        /\ phase' = [c \in Cmds |-> IF c = new THEN "made"
                                    ELSE IF c \in Unused THEN "exited" ELSE phase[c]]
        /\ serves' = [c \in Cmds |-> IF c \in Unused THEN {} ELSE serves[c]]
        /\ loop' = [loop EXCEPT ![l] = "start"] /\ waits' = waits
    BY DEF Make, Move
  <1> HIDE DEF new
  <1>4. /\ phase' \in [Cmds -> Phases] /\ serves' \in [Cmds -> SUBSET Backends]
        /\ cmd' \in Cmds /\ waits' \in [Loops \cup {Worker} -> Cmds \cup {NoCmd}]
        /\ loop' \in [Loops -> {"none", "make", "start", "wait", "waiting", "sleep"}]
    BY <1>1, <1>3 DEF DaemonType, Phases
  <1> QED
    BY <1>1, <1>2, <1>3, <1>4 DEF DaemonType

(***************************************************************************)
(* A process is started with the file as it is.                             *)
(***************************************************************************)
LEMMA StartCmdType ==
    ASSUME AgentType, DaemonType, NEW l \in Loops, StartCmd(l)
    PROVE  /\ DaemonType' /\ cmd' = cmd /\ file' = file /\ loop' = [loop EXCEPT ![l] = "wait"]
           /\ waits' = waits
           /\ \A c \in Cmds \ {cmd} : phase'[c] = phase[c] /\ serves'[c] = serves[c]
           /\ \/ phase'[cmd] = phase[cmd] /\ serves'[cmd] = serves[cmd]
              \/ phase'[cmd] = "ended"
              \/ file \in Texts /\ serves'[cmd] = file.backends
  <1>1. /\ cmd \in Cmds /\ loop' = [loop EXCEPT ![l] = "wait"] /\ file' = file
        /\ cmd' = cmd /\ waits' = waits
    BY DEF StartCmd, Move, DaemonType, agent
  <1>2. file \in Texts => file.backends \in SUBSET Backends
    BY DEF Texts
  <1>3. phase \in [Cmds -> Phases] /\ serves \in [Cmds -> SUBSET Backends]
    BY DEF DaemonType
  <1>4. /\ phase' \in [Cmds -> Phases] /\ serves' \in [Cmds -> SUBSET Backends]
        /\ \A c \in Cmds \ {cmd} : phase'[c] = phase[c] /\ serves'[c] = serves[c]
        /\ \/ phase'[cmd] = phase[cmd] /\ serves'[cmd] = serves[cmd]
           \/ phase'[cmd] = "ended"
           \/ file \in Texts /\ serves'[cmd] = file.backends
    <2>1. CASE phase[cmd] # "made"
      <3>1. UNCHANGED <<phase, serves>>
        BY <2>1 DEF StartCmd
      <3> QED
        BY <1>3, <3>1
    <2>2. CASE phase[cmd] = "made" /\ file \in Texts
      <3>1. /\ phase' = [phase EXCEPT ![cmd] = "running"]
            /\ serves' = [serves EXCEPT ![cmd] = file.backends]
        BY <2>2 DEF StartCmd
      <3> QED
        BY <1>1, <1>2, <1>3, <2>2, <3>1 DEF Phases
    <2>3. CASE phase[cmd] = "made" /\ file \notin Texts
      <3>1. phase' = [phase EXCEPT ![cmd] = "ended"] /\ serves' = serves
        BY <2>3 DEF StartCmd
      <3> QED
        BY <1>1, <1>3, <3>1 DEF Phases
    <2> QED
      BY <2>1, <2>2, <2>3
  <1>5. DaemonType'
    BY <1>1, <1>4, NoCmdAssumption DEF DaemonType
  <1> QED
    BY <1>1, <1>4, <1>5

(***************************************************************************)
(* Every step keeps the types of what belongs to the daemon.                *)
(***************************************************************************)
LEMMA NextDaemonType == ASSUME AgentType, DaemonType, [Next]_vars PROVE DaemonType'
  <1> USE DEF agent, daemon, bounds
  <1>1. CASE UNCHANGED daemon
    BY <1>1 DEF DaemonType
  <1>2. CASE Notice \/ DelayElapsed \/ Sync \/ Unreadable \/ WriteFails
    BY <1>1, <1>2 DEF Notice, DelayElapsed, Sync, Take, TakeDeleted, Write, Equal, Unreadable, WriteFails
  <1>3. CASE EnsureRunning \/ ReloadStarts
    <2>1. UNCHANGED <<cmd, phase, serves, waits>> /\ (loop' = loop \/ StartLoop)
      BY <1>3 DEF EnsureRunning, ReloadStarts
    <2> QED
      BY <2>1, StartLoopType DEF DaemonType
  <1>4. CASE Signal
    BY <1>4, SignalType
  <1>5. CASE ReloadSignals
    BY <1>1, <1>5 DEF ReloadSignals
  <1>6. CASE ReloadWait
    BY <1>6 DEF ReloadWait, DaemonType
  <1>7. CASE ReloadWaited
    <2>1. PICK p \in AfterWait(phase[waits[Worker]]) : phase' = [phase EXCEPT ![waits[Worker]] = p]
      BY <1>7 DEF ReloadWaited
    <2>2. phase' \in [Cmds -> Phases]
      BY <1>7, <2>1, WaitOver DEF ReloadWaited
    <2> QED
      BY <1>7, <2>2, StartLoopType DEF ReloadWaited, DaemonType
  <1>8. CASE SignalPanics \/ Crash \/ Kill
    BY <1>8 DEF SignalPanics, Crash, Kill, Boot, DaemonType, Phases
  <1>9. ASSUME NEW l \in Loops, Waited(l)
        PROVE  DaemonType'
    <2>1. PICK p \in AfterWait(phase[waits[l]]) : phase' = [phase EXCEPT ![waits[l]] = p]
      BY <1>9 DEF Waited
    <2>2. phase' \in [Cmds -> Phases]
      BY <1>9, <2>1, WaitOver DEF Waited
    <2> QED
      BY <1>9, <2>2 DEF Waited, Move, DaemonType
  <1>10. ASSUME NEW l \in Loops, Wait(l) \/ Wake(l)
         PROVE  DaemonType'
    BY <1>10 DEF Wait, Wake, Move, DaemonType
  <1>11. ASSUME NEW l \in Loops, StartFails(l)
         PROVE  DaemonType'
    BY <1>11 DEF StartFails, Move, DaemonType, Phases
  <1>12. CASE WriteObject \/ Delete \/ Terminate \/ UNCHANGED vars
    BY <1>1, <1>12 DEF WriteObject, Delete, Terminate, vars
  <1>13. CASE Dies
    BY <1>13 DEF Dies, DaemonType, Phases
  <1> QED
    BY <1>2, <1>3, <1>4, <1>5, <1>6, <1>7, <1>8, <1>9, <1>10, <1>11, <1>12, <1>13, MakeType,
       StartCmdType DEF Next, Reload, Supervise

---------------------------------------------------------------------------
(* The file *)

\* Without a conflict the informer's copy is the object.
Informed == known.fresh => known.exists = obj.exists /\ known.backends = obj.backends

\* Unless the key is on its way, the text generated last, or the file once it
\* was compared, is what the informer knows of.
Settled ==
    known.exists /\ ~waiting /\ ~dirty =>
        /\ pc = "compare" => job.backends = known.backends
        /\ pc # "compare" => file \in Texts /\ file.backends = known.backends

FileInv == AgentType /\ Informed /\ Settled

(***************************************************************************)
(* Every step keeps it.                                                     *)
(***************************************************************************)
LEMMA NextFileInv == ASSUME FileInv, [Next]_vars PROVE Informed' /\ Settled'
  <1> USE DEF FileInv, Informed, Settled, agent, daemon, bounds
  <1>1. CASE Notice
    BY <1>1, CurrentType DEF Notice, AgentType
  <1>2. CASE DelayElapsed
    BY <1>2 DEF DelayElapsed
  <1>3. CASE Take
    <2>1. job'.backends = known.backends /\ pc' = "compare" /\ UNCHANGED <<obj, known, waiting>>
      BY <1>3 DEF Take
    <2> QED
      BY <2>1
  <1>4. CASE TakeDeleted
    BY <1>4 DEF TakeDeleted
  <1>5. CASE Write \/ Equal
    BY <1>5 DEF Write, Equal, Goto, AgentType
  <1>6. CASE Unreadable \/ WriteFails
    BY <1>6 DEF Unreadable, WriteFails, Retry
  <1>7. CASE EnsureRunning \/ ReloadStarts \/ ReloadWaited
    BY <1>7 DEF EnsureRunning, ReloadStarts, ReloadWaited, Finish
  <1>8. CASE ReloadSignals \/ Signal \/ ReloadWait
    BY <1>8 DEF ReloadSignals, Signal, ReloadWait, Goto
  <1>9. CASE SignalPanics \/ Crash \/ Kill
    <2>1. known' = Current /\ waiting' = obj.exists /\ obj' = obj
      BY <1>9 DEF SignalPanics, Crash, Kill, Boot
    <2> QED
      BY <2>1, CurrentType DEF AgentType
  <1>10. ASSUME NEW l \in Loops, Supervise(l) \/ StartFails(l)
         PROVE  Informed' /\ Settled'
    BY <1>10 DEF Supervise, Make, StartCmd, Wait, Waited, Wake, StartFails
  <1>11. CASE WriteObject \/ Delete
    <2>1. /\ known' = [known EXCEPT !.fresh = FALSE] /\ known \in KnownType
          /\ UNCHANGED <<waiting, dirty, pc, job, file>>
      BY <1>11 DEF WriteObject, Delete, Outdate, AgentType
    <2>2. known'.exists = known.exists /\ known'.backends = known.backends /\ known'.fresh = FALSE
      BY <2>1 DEF KnownType
    <2> QED
      BY <2>1, <2>2
  <1>12. CASE Dies \/ Terminate \/ UNCHANGED vars
    BY <1>12 DEF Dies, Terminate, vars
  <1> QED
    BY <1>1, <1>2, <1>3, <1>4, <1>5, <1>6, <1>7, <1>8, <1>9, <1>10, <1>11, <1>12 DEF Next, Sync, Reload

---------------------------------------------------------------------------
(* One loop and two *)

AtMostOne == \A l, m \in Loops : loop[l] # "none" /\ loop[m] # "none" => l = m

AtMostTwo ==
    \A l, m, n \in Loops :
        loop[l] # "none" /\ loop[m] # "none" /\ loop[n] # "none" => l = m \/ l = n \/ m = n

\* A lone loop waits for the only process, which is that of t.cmd.
LoneLoop ==
    AtMostOne =>
        /\ \A c \in Cmds : phase[c] = "running" =>
              c = cmd /\ \E l \in Loops : loop[l] \in {"wait", "waiting"}
        /\ \A l \in Loops : loop[l] = "waiting" => waits[l] = cmd

AllCurrent == \A c \in Cmds : phase[c] = "running" => serves[c] = file.backends

\* With one loop the signal has reached everything; a second loop comes of the
\* Reload that is under way, or the next Reload makes a third.
Reached ==
    file \in Texts =>
        /\ AtMostOne /\ pc \notin {"reload", "signal"} => AllCurrent
        /\ AtMostTwo /\ pc \notin {"reload", "signal", "wait", "waiting"} => AllCurrent

LoopInv == AgentType /\ DaemonType /\ LoneLoop /\ Reached

(***************************************************************************)
(* One loop is at most two.                                                 *)
(***************************************************************************)
LEMMA OneIsTwo == AtMostOne => AtMostTwo
  BY DEF AtMostOne, AtMostTwo

(***************************************************************************)
(* If StartLoop has made a lone loop there was none, and if it has made the *)
(* second there was one.                                                    *)
(***************************************************************************)
LEMMA StartLoopCounts ==
    ASSUME DaemonType, StartLoop
    PROVE  /\ AtMostOne' => \A l \in Loops : loop[l] = "none"
           /\ AtMostTwo' => AtMostOne
           /\ AtMostOne \/ ~AtMostOne'
           /\ \A l \in Loops : loop'[l] = "waiting" => loop[l] = "waiting"
  <1>1. PICK l \in Loops :
              /\ loop[l] = "none" /\ loop'[l] = "make"
              /\ \A m \in Loops \ {l} : loop'[m] = loop[m]
    BY StartLoopType
  <1>2. AtMostOne' => \A m \in Loops : loop[m] = "none"
    BY <1>1 DEF AtMostOne
  <1>3. ASSUME AtMostTwo', NEW m \in Loops, NEW n \in Loops, loop[m] # "none", loop[n] # "none"
        PROVE  m = n
    <2>1. loop'[m] # "none" /\ loop'[n] # "none" /\ loop'[l] # "none" /\ m # l /\ n # l
      BY <1>1, <1>3
    <2> QED
      BY <1>3, <2>1 DEF AtMostTwo
  <1> QED
    BY <1>1, <1>2, <1>3 DEF AtMostOne

(***************************************************************************)
(* A step of a loop neither adds nor removes one.                           *)
(***************************************************************************)
LEMMA MoveCounts ==
    ASSUME DaemonType, NEW l \in Loops, NEW place, place # "none", loop[l] # "none", Move(l, place)
    PROVE  (AtMostOne' <=> AtMostOne) /\ (AtMostTwo' <=> AtMostTwo)
  <1>1. \A m \in Loops : loop'[m] # "none" <=> loop[m] # "none"
    BY DEF Move, DaemonType
  <1> QED
    BY <1>1 DEF AtMostOne, AtMostTwo

(***************************************************************************)
(* A new container has no loop, and nothing runs in it.                     *)
(***************************************************************************)
LEMMA BootLoops ==
    ASSUME Boot
    PROVE  LoneLoop' /\ Reached'
  <1>1. /\ \A c \in Cmds : phase'[c] # "running"
        /\ \A l \in Loops : loop'[l] = "none"
    BY DEF Boot
  <1> QED
    BY <1>1 DEF LoneLoop, Reached, AllCurrent

(***************************************************************************)
(* Steps of the worker and of others that leave loops and commands alone.   *)
(***************************************************************************)
LEMMA LoopsLeftAlone ==
    ASSUME LoopInv, UNCHANGED <<cmd, phase, serves, loop>>,
           \A l \in Loops : waits'[l] = waits[l],
           \/ file' = file /\ pc' = pc
           \/ file' = file /\ pc \notin {"reload", "signal", "wait", "waiting"}
           \/ file' = file /\ pc = "wait" /\ pc' = "waiting"
           \/ pc' \in {"reload", "signal"}
           \/ file' \notin Texts
    PROVE  LoneLoop' /\ Reached'
  <1>1. (AtMostOne' <=> AtMostOne) /\ (AtMostTwo' <=> AtMostTwo) /\ (AtMostOne => AtMostTwo)
    BY OneIsTwo DEF AtMostOne, AtMostTwo
  <1>2. LoneLoop'
    BY <1>1 DEF LoopInv, LoneLoop
  <1>3. Reached'
    BY <1>1 DEF LoopInv, Reached, AllCurrent
  <1> QED
    BY <1>2, <1>3

(***************************************************************************)
(* A loop is started by EnsureRunning, by a Reload where t.cmd does not     *)
(* run, or by one that has waited.                                          *)
(***************************************************************************)
LEMMA StartLoopKeeps ==
    ASSUME LoopInv, StartLoop, UNCHANGED <<cmd, serves, file>>,
           \A c \in Cmds : phase'[c] = "running" => phase[c] = "running",
           \A l \in Loops : waits'[l] = waits[l],
           \/ pc \notin {"reload", "signal"}
           \/ ~IsRunning
    PROVE  LoneLoop' /\ Reached'
  <1>1. DaemonType /\ LoneLoop /\ Reached
    BY DEF LoopInv
  <1>2. /\ AtMostOne' => \A l \in Loops : loop[l] = "none"
        /\ AtMostTwo' => AtMostOne
        /\ AtMostOne \/ ~AtMostOne'
        /\ \A l \in Loops : loop'[l] = "waiting" => loop[l] = "waiting"
    BY <1>1, StartLoopCounts
  <1>3. LoneLoop'
    BY <1>1, <1>2 DEF LoneLoop
  <1>4. AtMostOne /\ file \in Texts => AllCurrent
    <2>1. CASE pc \notin {"reload", "signal"}
      BY <1>1, <2>1 DEF Reached
    <2>2. CASE ~IsRunning
      <3>1. cmd \in Cmds => phase[cmd] # "running"
        BY <2>2 DEF IsRunning
      <3> QED
        BY <1>1, <3>1 DEF LoneLoop, AllCurrent
    <2> QED
      BY <2>1, <2>2
  <1>5. AtMostOne' \/ AtMostTwo' => AtMostOne
    BY <1>2
  <1>6. Reached'
    BY <1>4, <1>5 DEF Reached, AllCurrent
  <1> QED
    BY <1>3, <1>6

(***************************************************************************)
(* A loop that is not waiting, or waits no more, and is alone: nothing ran, *)
(* and what the step starts is t.cmd's.                                     *)
(***************************************************************************)
LEMMA LoopStepKeeps ==
    ASSUME LoopInv, NEW l \in Loops, NEW place, place # "none", loop[l] # "none", Move(l, place),
           UNCHANGED <<pc, file>>,
           \A m \in Loops \ {l} : waits'[m] = waits[m],
           place = "waiting" => waits'[l] = cmd',
           AtMostOne => \A c \in Cmds : phase'[c] = "running" =>
               c = cmd' /\ place \in {"wait", "waiting"},
           file \in Texts => \A c \in Cmds : phase'[c] = "running" =>
               \/ phase[c] = "running" /\ serves'[c] = serves[c]
               \/ serves'[c] = file.backends
    PROVE  LoneLoop' /\ Reached'
  <1>1. /\ loop'[l] = place
        /\ (AtMostOne' <=> AtMostOne) /\ (AtMostTwo' <=> AtMostTwo)
    BY MoveCounts DEF LoopInv, DaemonType, Move
  <1>2. ASSUME AtMostOne, NEW m \in Loops, loop'[m] = "waiting"
        PROVE  waits'[m] = cmd'
    <2>1. m = l
      BY <1>1, <1>2 DEF AtMostOne
    <2> QED
      BY <1>1, <1>2, <2>1
  <1>3. LoneLoop'
    BY <1>1, <1>2 DEF LoneLoop
  <1>4. Reached'
    BY <1>1 DEF LoopInv, Reached, AllCurrent
  <1> QED
    BY <1>3, <1>4

(***************************************************************************)
(* What a lone loop that is not waiting says of the commands.               *)
(***************************************************************************)
LEMMA LoneNotWaiting ==
    ASSUME LoneLoop, AtMostOne, NEW l \in Loops, loop[l] \in {"make", "start", "sleep"}
    PROVE  \A c \in Cmds : phase[c] # "running"
  BY DEF LoneLoop, AtMostOne

(***************************************************************************)
(* Every step of a loop keeps both parts.                                   *)
(***************************************************************************)
LEMMA SuperviseKeeps ==
    ASSUME LoopInv, NEW l \in Loops, Supervise(l) \/ StartFails(l)
    PROVE  LoneLoop' /\ Reached'
  <1>1. AgentType /\ DaemonType /\ LoneLoop
    BY DEF LoopInv
  <1>2. CASE Make(l)
    <2>1. \A c \in Cmds : phase'[c] = "running" => phase[c] = "running" /\ serves'[c] = serves[c]
      BY <1>1, <1>2, MakeType
    <2>2. /\ Move(l, "start") /\ loop[l] = "make" /\ waits' = waits /\ pc' = pc /\ file' = file
      BY <1>2 DEF Make, agent
    <2>3. AtMostOne => \A c \in Cmds : phase'[c] # "running"
      BY <1>1, <2>1, <2>2, LoneNotWaiting
    <2> QED
      BY <2>1, <2>2, <2>3, LoopStepKeeps
  <1>3. CASE StartCmd(l)
    <2>1. /\ cmd' = cmd /\ file' = file
          /\ \A c \in Cmds \ {cmd} : phase'[c] = phase[c] /\ serves'[c] = serves[c]
          /\ \/ phase'[cmd] = phase[cmd] /\ serves'[cmd] = serves[cmd]
             \/ phase'[cmd] = "ended"
             \/ file \in Texts /\ serves'[cmd] = file.backends
      BY <1>1, <1>3, StartCmdType
    <2>2. /\ Move(l, "wait") /\ loop[l] = "start" /\ waits' = waits /\ pc' = pc
      BY <1>3 DEF StartCmd, agent
    <2>3. AtMostOne => \A c \in Cmds : phase'[c] = "running" => c = cmd'
      BY <1>1, <2>1, <2>2, LoneNotWaiting
    <2>4. \A c \in Cmds : phase'[c] = "running" =>
              \/ phase[c] = "running" /\ serves'[c] = serves[c]
              \/ serves'[c] = file.backends
      BY <2>1
    <2> QED
      BY <2>1, <2>2, <2>3, <2>4, LoopStepKeeps
  <1>4. CASE StartFails(l)
    <2>1. /\ Move(l, "wait") /\ loop[l] = "start" /\ waits' = waits /\ pc' = pc /\ file' = file
          /\ cmd' = cmd /\ serves' = serves /\ phase' = [phase EXCEPT ![cmd] = "unborn"]
      BY <1>4 DEF StartFails, agent
    <2>2. \A c \in Cmds : phase'[c] = "running" => phase[c] = "running"
      BY <1>1, <2>1 DEF DaemonType
    <2>3. AtMostOne => \A c \in Cmds : phase'[c] # "running"
      BY <1>1, <2>1, <2>2, LoneNotWaiting
    <2> QED
      BY <2>1, <2>2, <2>3, LoopStepKeeps
  <1>5. CASE Wait(l)
    <2>1. /\ Move(l, "waiting") /\ loop[l] = "wait" /\ waits' = [waits EXCEPT ![l] = cmd]
          /\ pc' = pc /\ file' = file /\ cmd' = cmd /\ serves' = serves /\ phase' = phase
      BY <1>5 DEF Wait, agent
    <2>2. waits'[l] = cmd /\ \A m \in Loops \ {l} : waits'[m] = waits[m]
      BY <1>1, <2>1 DEF DaemonType
    <2>3. AtMostOne => \A c \in Cmds : phase'[c] = "running" => c = cmd'
      BY <1>1, <2>1 DEF LoneLoop
    <2> QED
      BY <2>1, <2>2, <2>3, LoopStepKeeps
  <1>6. CASE Waited(l)
    <2>1. PICK p \in AfterWait(phase[waits[l]]) : phase' = [phase EXCEPT ![waits[l]] = p]
      BY <1>6 DEF Waited
    <2>2. /\ Move(l, "sleep") /\ loop[l] = "waiting" /\ waits' = [waits EXCEPT ![l] = NoCmd]
          /\ pc' = pc /\ file' = file /\ cmd' = cmd /\ serves' = serves
          /\ phase[waits[l]] # "running"
      BY <1>6 DEF Waited, agent
    <2>3. \A c \in Cmds : phase'[c] = "running" => phase[c] = "running" /\ c # waits[l]
      BY <1>1, <2>1, <2>2, WaitOver
    <2>4. AtMostOne => \A c \in Cmds : phase'[c] # "running"
      BY <1>1, <2>2, <2>3 DEF LoneLoop
    <2>5. \A m \in Loops \ {l} : waits'[m] = waits[m]
      BY <1>1, <2>2 DEF DaemonType
    <2> QED
      BY <2>2, <2>3, <2>4, <2>5, LoopStepKeeps
  <1>7. CASE Wake(l)
    <2>1. /\ Move(l, "make") /\ loop[l] = "sleep" /\ waits' = waits
          /\ pc' = pc /\ file' = file /\ cmd' = cmd /\ serves' = serves /\ phase' = phase
      BY <1>7 DEF Wake, agent
    <2>2. AtMostOne => \A c \in Cmds : phase'[c] # "running"
      BY <1>1, <2>1, LoneNotWaiting
    <2> QED
      BY <2>1, <2>2, LoopStepKeeps
  <1> QED
    BY <1>2, <1>3, <1>4, <1>5, <1>6, <1>7 DEF Supervise

(***************************************************************************)
(* So does every step.                                                      *)
(***************************************************************************)
LEMMA NextLoops == ASSUME LoopInv, [Next]_vars PROVE LoneLoop' /\ Reached'
  <1> USE DEF agent, daemon, bounds
  <1>1. AgentType /\ DaemonType /\ LoneLoop /\ Reached
    BY DEF LoopInv
  <1>2. CASE Notice \/ DelayElapsed \/ TakeDeleted \/ WriteObject \/ Delete \/ Terminate \/ UNCHANGED vars
    <2>1. UNCHANGED <<cmd, phase, serves, loop, waits, file, pc>>
      BY <1>2 DEF Notice, DelayElapsed, TakeDeleted, WriteObject, Delete, Terminate, vars
    <2> QED
      BY <2>1, LoopsLeftAlone
  <1>3. CASE Take \/ Equal \/ Unreadable
    <2>1. UNCHANGED <<cmd, phase, serves, loop, waits, file>> /\ pc \in {"idle", "compare"}
      BY <1>3 DEF Take, Equal, Unreadable
    <2> QED
      BY <2>1, LoopsLeftAlone
  <1>4. CASE Write \/ ReloadSignals
    <2>1. UNCHANGED <<cmd, phase, serves, loop, waits>> /\ pc' \in {"reload", "signal"}
      BY <1>4 DEF Write, ReloadSignals, Goto
    <2> QED
      BY <2>1, LoopsLeftAlone
  <1>5. CASE WriteFails
    <2>1. /\ UNCHANGED <<cmd, phase, serves, loop, waits>> /\ pc = "compare"
          /\ file' = file \/ file' \notin Texts
      BY <1>5, FilesAssumption DEF WriteFails
    <2> QED
      BY <2>1, LoopsLeftAlone
  <1>6. CASE EnsureRunning /\ IsRunning
    <2>1. UNCHANGED <<cmd, phase, serves, loop, waits, file>> /\ pc = "ensure"
      BY <1>6 DEF EnsureRunning
    <2> QED
      BY <2>1, LoopsLeftAlone
  <1>7. CASE (EnsureRunning /\ ~IsRunning) \/ ReloadStarts
    <2>1. StartLoop /\ ~IsRunning /\ UNCHANGED <<cmd, phase, serves, waits, file>>
      BY <1>7 DEF EnsureRunning, ReloadStarts
    <2> QED
      BY <2>1, StartLoopKeeps
  <1>8. CASE ReloadWaited
    <2>1. PICK p \in AfterWait(phase[waits[Worker]]) : phase' = [phase EXCEPT ![waits[Worker]] = p]
      BY <1>8 DEF ReloadWaited
    <2>2. \A c \in Cmds : phase'[c] = "running" => phase[c] = "running"
      BY <1>1, <1>8, <2>1, WaitOver DEF ReloadWaited
    <2>3. /\ StartLoop /\ UNCHANGED <<cmd, serves, file>> /\ pc = "waiting"
          /\ waits' = [waits EXCEPT ![Worker] = NoCmd]
      BY <1>8 DEF ReloadWaited
    <2>4. \A l \in Loops : waits'[l] = waits[l]
      BY <1>1, <2>3, WorkerAssumption DEF DaemonType
    <2> QED
      BY <2>2, <2>3, <2>4, StartLoopKeeps
  <1>9. CASE ReloadWait
    <2>1. /\ UNCHANGED <<cmd, phase, serves, loop, file>> /\ pc = "wait" /\ pc' = "waiting"
          /\ waits' = [waits EXCEPT ![Worker] = cmd]
      BY <1>9 DEF ReloadWait, Goto
    <2>2. \A l \in Loops : waits'[l] = waits[l]
      BY <1>1, <2>1, WorkerAssumption DEF DaemonType
    <2> QED
      BY <2>1, <2>2, LoopsLeftAlone
  <1>10. CASE Signal
    <2>1. /\ \A c \in Cmds \ {cmd} : phase'[c] = phase[c] /\ serves'[c] = serves[c]
          /\ phase'[cmd] = "running" => phase[cmd] = "running"
          /\ file \in Texts /\ cmd \in Cmds =>
                phase'[cmd] # "running" \/ serves'[cmd] = file.backends
      BY <1>1, <1>10, SignalType
    <2>2. UNCHANGED <<cmd, loop, waits, file>> /\ pc' = "wait"
      BY <1>10 DEF Signal, Goto
    <2>3. \A c \in Cmds : phase'[c] = "running" => phase[c] = "running"
      BY <2>1
    <2>4. AtMostOne' <=> AtMostOne
      BY <2>2 DEF AtMostOne
    <2>5. LoneLoop'
      BY <1>1, <2>2, <2>3, <2>4 DEF LoneLoop
    <2>6. AtMostOne /\ file \in Texts => AllCurrent'
      BY <1>1, <2>1, <2>2, <2>3 DEF LoneLoop, AllCurrent
    <2> QED
      BY <2>2, <2>4, <2>5, <2>6 DEF Reached
  <1>11. CASE SignalPanics \/ Crash \/ Kill
    BY <1>11, BootLoops DEF SignalPanics, Crash, Kill
  <1>12. CASE Dies
    <2>1. PICK d \in Cmds : phase' = [phase EXCEPT ![d] = "ended"]
      BY <1>12 DEF Dies
    <2>2. \A c \in Cmds : phase'[c] = "running" => phase[c] = "running"
      BY <1>1, <2>1 DEF DaemonType
    <2>3. UNCHANGED <<cmd, serves, loop, waits, file, pc>>
      BY <1>12 DEF Dies
    <2>4. (AtMostOne' <=> AtMostOne) /\ (AtMostTwo' <=> AtMostTwo)
      BY <2>3 DEF AtMostOne, AtMostTwo
    <2>5. LoneLoop'
      BY <1>1, <2>2, <2>3, <2>4 DEF LoneLoop
    <2>6. Reached'
      BY <1>1, <2>2, <2>3, <2>4 DEF Reached, AllCurrent
    <2> QED
      BY <2>5, <2>6
  <1> QED
    BY <1>2, <1>3, <1>4, <1>5, <1>6, <1>7, <1>8, <1>9, <1>10, <1>11, <1>12, SuperviseKeeps
    DEF Next, Sync, Reload

---------------------------------------------------------------------------
(* The theorems *)

Inv == AgentType /\ DaemonType /\ Informed /\ Settled /\ LoneLoop /\ Reached

(***************************************************************************)
(* The key is on its way and no loop runs at first.                         *)
(***************************************************************************)
LEMMA InitInv == ASSUME Init PROVE Inv
  <1>1. AgentType /\ DaemonType
    BY InitType
  <1>2. Informed /\ Settled
    BY <1>1, CurrentType DEF Init, Informed, Settled, AgentType
  <1>3. LoneLoop /\ Reached
    BY DEF Init, LoneLoop, Reached, AllCurrent
  <1> QED
    BY <1>1, <1>2, <1>3 DEF Inv

(***************************************************************************)
(* The invariant holds throughout.                                          *)
(***************************************************************************)
THEOREM Invariant == Spec => []Inv
  <1>1. Init => Inv
    BY InitInv
  <1>2. Inv /\ [Next]_vars => Inv'
    BY NextAgentType, NextDaemonType, NextFileInv, NextLoops DEF Inv, FileInv, LoopInv
  <1> QED
    BY <1>1, <1>2, PTL DEF Spec

(***************************************************************************)
(* The types; among them, that a loop never starts or waits for a nil       *)
(* t.cmd, although it reads the field anew at each step.                    *)
(***************************************************************************)
THEOREM TypeCorrect == Spec => []TypeOK
  <1>1. Inv => TypeOK
    BY TypeParts DEF Inv
  <1> QED
    BY <1>1, Invariant, PTL

(***************************************************************************)
(* No end of sync leaves a file behind that nothing will make good.         *)
(***************************************************************************)
THEOREM ConfigIsPublishedHolds == Spec => []ConfigIsPublished
  <1>1. Inv => ConfigIsPublished
    BY DEF Inv, Informed, Settled, ConfigIsPublished, Quiescent, FileCurrent
  <1> QED
    BY <1>1, Invariant, PTL

(***************************************************************************)
(* Three distinct loops are more than two.                                  *)
(***************************************************************************)
LEMMA TwoByCardinality ==
    ASSUME Cardinality({l \in Loops : loop[l] # "none"}) <= 2
    PROVE  AtMostTwo
  <1> DEFINE S == {l \in Loops : loop[l] # "none"}
  <1> SUFFICES ASSUME NEW l \in S, NEW m \in S, NEW n \in S, l # m, l # n, m # n
               PROVE  FALSE
    BY DEF AtMostTwo
  <1>1. IsFiniteSet(S) /\ Cardinality(S) \in Nat
    BY LoopsAssumption, FS_Subset, FS_CardinalityType
  <1>2. IsFiniteSet({l, m}) /\ Cardinality({l, m}) = 2
    <2>1. IsFiniteSet({l}) /\ Cardinality({l}) = 1
      BY FS_Singleton
    <2>2. {l, m} = {l} \cup {m} /\ m \notin {l}
      OBVIOUS
    <2>3. IsFiniteSet({l} \cup {m}) /\ Cardinality({l} \cup {m}) = 1 + 1
      BY <2>1, <2>2, FS_AddElement
    <2> QED
      BY <2>2, <2>3
  <1>3. Cardinality({l, m} \cup {n}) = 2 + 1
    <2>1. n \notin {l, m}
      OBVIOUS
    <2> QED
      BY <1>2, <2>1, FS_AddElement
  <1>4. {l, m} \cup {n} \subseteq S
    OBVIOUS
  <1>5. Cardinality({l, m} \cup {n}) <= Cardinality(S)
    BY <1>1, <1>4, FS_Subset
  <1>6. Cardinality(S) <= 2
    OBVIOUS
  <1> HIDE DEF S
  <1> QED
    BY <1>1, <1>3, <1>5, <1>6

(***************************************************************************)
(* Up to the second loop a Reload reaches every onionbalance.               *)
(***************************************************************************)
THEOREM FirstReloadReachesAllHolds == Spec => []FirstReloadReachesAll
  <1>1. Inv => FirstReloadReachesAll
    BY TwoByCardinality
    DEF Inv, Reached, AllCurrent, FirstReloadReachesAll, BalancersCurrent, Running
  <1> QED
    BY <1>1, Invariant, PTL
---------------------------------------------------------------------------
(* The newest process, beside any number of loops *)

(***************************************************************************)
(* Steps that give no process to t.cmd and leave alone what its process has *)
(* read, and those that the worker takes on its way to the signal.          *)
(***************************************************************************)
LEMMA NewestLeftAlone ==
    ASSUME DaemonType, NewestBalancerCurrent, UNCHANGED <<cmd, serves>>,
           \A c \in Cmds : phase'[c] = "running" => phase[c] = "running",
           \/ file' = file /\ pc \notin {"reload", "signal"}
           \/ file' = file /\ pc' = pc
           \/ pc' \in {"reload", "signal"}
           \/ file' \notin Texts
    PROVE  NewestBalancerCurrent'
  BY DEF DaemonType, NewestBalancerCurrent

(***************************************************************************)
(* Every step keeps it.                                                     *)
(***************************************************************************)
LEMMA NextNewest ==
    ASSUME AgentType, DaemonType, NewestBalancerCurrent, [Next]_vars
    PROVE  NewestBalancerCurrent'
  <1> USE DEF agent, daemon, bounds
  <1>1. phase \in [Cmds -> Phases] /\ cmd \in Cmds \cup {NoCmd}
    BY DEF DaemonType
  <1>2. CASE Notice \/ DelayElapsed \/ TakeDeleted \/ WriteObject \/ Delete \/ Terminate \/ UNCHANGED vars
    <2>1. UNCHANGED <<cmd, phase, serves, file, pc>>
      BY <1>2 DEF Notice, DelayElapsed, TakeDeleted, WriteObject, Delete, Terminate, vars
    <2> QED
      BY <2>1, NewestLeftAlone
  <1>3. CASE Take \/ Equal \/ Unreadable
    <2>1. UNCHANGED <<cmd, phase, serves, file>> /\ pc \in {"idle", "compare"}
      BY <1>3 DEF Take, Equal, Unreadable
    <2> QED
      BY <2>1, NewestLeftAlone
  <1>4. CASE Write \/ ReloadSignals
    <2>1. UNCHANGED <<cmd, phase, serves>> /\ pc' \in {"reload", "signal"}
      BY <1>4 DEF Write, ReloadSignals, Goto
    <2> QED
      BY <2>1, NewestLeftAlone
  <1>5. CASE WriteFails
    <2>1. /\ UNCHANGED <<cmd, phase, serves>> /\ pc = "compare"
          /\ file' = file \/ file' \notin Texts
      BY <1>5, FilesAssumption DEF WriteFails
    <2> QED
      BY <2>1, NewestLeftAlone
  <1>6. CASE EnsureRunning \/ ReloadWait
    <2>1. UNCHANGED <<cmd, phase, serves, file>> /\ pc \in {"ensure", "wait"}
      BY <1>6 DEF EnsureRunning, ReloadWait
    <2> QED
      BY <2>1, NewestLeftAlone
  <1>7. CASE ReloadStarts
    <2>1. UNCHANGED <<cmd, phase>> /\ ~IsRunning
      BY <1>7 DEF ReloadStarts
    <2> QED
      BY <1>1, <2>1 DEF IsRunning, NewestBalancerCurrent
  <1>8. CASE Signal
    <2>1. file \in Texts /\ cmd \in Cmds => phase'[cmd] # "running" \/ serves'[cmd] = file.backends
      BY <1>8, SignalType
    <2>2. UNCHANGED <<cmd, file>>
      BY <1>8 DEF Signal
    <2> QED
      BY <1>1, <2>1, <2>2 DEF NewestBalancerCurrent
  <1>9. CASE SignalPanics \/ Crash \/ Kill
    <2>1. cmd' = NoCmd
      BY <1>9 DEF SignalPanics, Crash, Kill, Boot
    <2> QED
      BY <2>1 DEF NewestBalancerCurrent
  <1>10. CASE ReloadWaited
    <2>1. PICK p \in AfterWait(phase[waits[Worker]]) : phase' = [phase EXCEPT ![waits[Worker]] = p]
      BY <1>10 DEF ReloadWaited
    <2>2. \A c \in Cmds : phase'[c] = "running" => phase[c] = "running"
      BY <1>10, <2>1, WaitOver DEF ReloadWaited
    <2>3. UNCHANGED <<cmd, serves, file>> /\ pc = "waiting"
      BY <1>10 DEF ReloadWaited
    <2> QED
      BY <2>2, <2>3, NewestLeftAlone
  <1>11. ASSUME NEW l \in Loops, Make(l)
         PROVE  NewestBalancerCurrent'
    <2> DEFINE new == CHOOSE c \in Unused : TRUE
    <2>1. new \in Cmds
      BY <1>11 DEF Make, Unused
    <2>2. /\ cmd' = new
          /\ phase' = [c \in Cmds |-> IF c = new THEN "made"
                                      ELSE IF c \in Unused THEN "exited" ELSE phase[c]]
      BY <1>11 DEF Make
    <2> HIDE DEF new
    <2>3. phase'[cmd'] = "made"
      BY <2>1, <2>2
    <2> QED
      BY <2>3 DEF NewestBalancerCurrent
  <1>12. ASSUME NEW l \in Loops, StartCmd(l)
         PROVE  NewestBalancerCurrent'
    <2>1. /\ cmd' = cmd /\ file' = file
          /\ \/ phase'[cmd] = phase[cmd] /\ serves'[cmd] = serves[cmd]
             \/ phase'[cmd] = "ended"
             \/ file \in Texts /\ serves'[cmd] = file.backends
      BY <1>12, StartCmdType
    <2>2. pc' = pc
      BY <1>12 DEF StartCmd
    <2> QED
      BY <2>1, <2>2 DEF NewestBalancerCurrent
  <1>13. ASSUME NEW l \in Loops, Waited(l)
         PROVE  NewestBalancerCurrent'
    <2>1. PICK p \in AfterWait(phase[waits[l]]) : phase' = [phase EXCEPT ![waits[l]] = p]
      BY <1>13 DEF Waited
    <2>2. \A c \in Cmds : phase'[c] = "running" => phase[c] = "running"
      BY <1>13, <2>1, WaitOver DEF Waited
    <2>3. UNCHANGED <<cmd, serves, file, pc>>
      BY <1>13 DEF Waited
    <2> QED
      BY <2>2, <2>3, NewestLeftAlone
  <1>14. ASSUME NEW l \in Loops, StartFails(l) \/ Wait(l) \/ Wake(l)
         PROVE  NewestBalancerCurrent'
    <2>1. UNCHANGED <<cmd, serves, file, pc>>
      BY <1>14 DEF StartFails, Wait, Wake
    <2>2. \A c \in Cmds : phase'[c] = "running" => phase[c] = "running"
      BY <1>1, <1>14 DEF StartFails, Wait, Wake
    <2> QED
      BY <2>1, <2>2, NewestLeftAlone
  <1>15. CASE Dies
    <2>1. PICK d \in Cmds : phase' = [phase EXCEPT ![d] = "ended"]
      BY <1>15 DEF Dies
    <2>2. \A c \in Cmds : phase'[c] = "running" => phase[c] = "running"
      BY <1>1, <2>1
    <2>3. UNCHANGED <<cmd, serves, file, pc>>
      BY <1>15 DEF Dies
    <2> QED
      BY <2>2, <2>3, NewestLeftAlone
  <1> QED
    BY <1>2, <1>3, <1>4, <1>5, <1>6, <1>7, <1>8, <1>9, <1>10, <1>11, <1>12, <1>13, <1>14, <1>15
    DEF Next, Sync, Reload, Supervise

(***************************************************************************)
(* However many loops replace t.cmd, unless Reload is about to signal it    *)
(* the process it points to serves what the file says.                      *)
(***************************************************************************)
THEOREM NewestBalancerCurrentHolds == Spec => []NewestBalancerCurrent
  <1>1. Init => NewestBalancerCurrent
    BY DEF Init, NewestBalancerCurrent
  <1>2. Inv /\ NewestBalancerCurrent /\ [Next]_vars => NewestBalancerCurrent'
    BY NextNewest DEF Inv
  <1> QED
    BY <1>1, <1>2, Invariant, PTL DEF Spec

---------------------------------------------------------------------------
(* A loop for every rest *)

Looped == \E l \in Loops : loop[l] # "none"

\* A command comes of a loop, and sync ends with one unless it will run again.
Supervised ==
    /\ cmd # NoCmd => Looped
    /\ pc = "idle" /\ known.exists /\ ~waiting /\ ~dirty => Looped

(***************************************************************************)
(* A loop that moves, and one that was started, is one.                     *)
(***************************************************************************)
LEMMA LoopedNow ==
    ASSUME DaemonType,
           \/ StartLoop
           \/ \E l \in Loops, place \in {"make", "start", "wait", "waiting", "sleep"} : Move(l, place)
    PROVE  Looped'
  BY StartLoopType DEF DaemonType, Looped, Move

(***************************************************************************)
(* Every step keeps it.                                                     *)
(***************************************************************************)
LEMMA NextSupervised ==
    ASSUME AgentType, DaemonType, Supervised, [Next]_vars
    PROVE  Supervised'
  <1> USE DEF agent, daemon, bounds
  <1>1. CASE Notice \/ Unreadable \/ WriteFails
    <2>1. waiting' = TRUE /\ UNCHANGED <<cmd, loop>>
      BY <1>1 DEF Notice, Unreadable, WriteFails, Retry
    <2> QED
      BY <2>1 DEF Supervised, Looped
  <1>2. CASE DelayElapsed
    BY <1>2 DEF DelayElapsed, Supervised, Looped
  <1>3. CASE Take \/ Write \/ Equal \/ ReloadSignals \/ Signal \/ ReloadWait
    <2>1. pc' # "idle" /\ UNCHANGED <<cmd, loop>>
      BY <1>3 DEF Take, Write, Equal, ReloadSignals, Signal, ReloadWait, Goto
    <2> QED
      BY <2>1 DEF Supervised, Looped
  <1>4. CASE TakeDeleted
    BY <1>4 DEF TakeDeleted, Supervised, Looped
  <1>5. CASE EnsureRunning /\ IsRunning
    <2>1. cmd # NoCmd /\ UNCHANGED <<cmd, loop>>
      BY <1>5, NoCmdAssumption DEF EnsureRunning, IsRunning
    <2> QED
      BY <2>1 DEF Supervised, Looped
  <1>6. CASE (EnsureRunning /\ ~IsRunning) \/ ReloadStarts \/ ReloadWaited
    <2>1. StartLoop
      BY <1>6 DEF EnsureRunning, ReloadStarts, ReloadWaited
    <2> QED
      BY <2>1, LoopedNow DEF Supervised
  <1>7. CASE SignalPanics \/ Crash \/ Kill
    <2>1. cmd' = NoCmd /\ known' = Current /\ waiting' = obj.exists
      BY <1>7 DEF SignalPanics, Crash, Kill, Boot
    <2> QED
      BY <2>1, CurrentType DEF AgentType, Supervised
  <1>8. ASSUME NEW l \in Loops, Supervise(l) \/ StartFails(l)
        PROVE  Supervised'
    <2>1. \E place \in {"make", "start", "wait", "waiting", "sleep"} : Move(l, place)
      BY <1>8 DEF Supervise, Make, StartCmd, Wait, Waited, Wake, StartFails
    <2> QED
      BY <2>1, LoopedNow DEF Supervised
  <1>9. CASE WriteObject \/ Delete
    <2>1. /\ UNCHANGED <<cmd, loop, pc, waiting, dirty>>
          /\ known' = [known EXCEPT !.fresh = FALSE] /\ known \in KnownType
      BY <1>9 DEF WriteObject, Delete, Outdate, AgentType
    <2>2. known'.exists = known.exists
      BY <2>1 DEF KnownType
    <2> QED
      BY <2>1, <2>2 DEF Supervised, Looped
  <1>10. CASE Dies \/ Terminate \/ UNCHANGED vars
    BY <1>10 DEF Dies, Terminate, vars, Supervised, Looped
  <1> QED
    BY <1>1, <1>2, <1>3, <1>4, <1>5, <1>6, <1>7, <1>8, <1>9, <1>10 DEF Next, Sync, Reload

(***************************************************************************)
(* The agent only rests when a loop supervises onionbalance, in a container *)
(* that found the file as it should be, too: SupervisedAtRest.              *)
(***************************************************************************)
THEOREM SupervisedAtRestHolds == Spec => []SupervisedAtRest
  <1>1. Init => Supervised
    BY DEF Init, Supervised
  <1>2. Inv /\ Supervised /\ [Next]_vars => Supervised'
    BY NextSupervised DEF Inv
  <1>3. Inv /\ Supervised => SupervisedAtRest
    BY DEF Inv, Informed, Supervised, Looped, SupervisedAtRest, Quiescent
  <1> QED
    BY <1>1, <1>2, <1>3, Invariant, PTL DEF Spec
=============================================================================
