-------------------------- MODULE TorDaemonProofs --------------------------
(***************************************************************************)
(* What the supervision of tor promises for any number of loops, commands,  *)
(* new configurations and failures: types, that a lone loop's tor has read  *)
(* the latest files, and so has the newest process of several loops.        *)
(***************************************************************************)
EXTENDS TorDaemon, FiniteSetTheorems, TLAPS

---------------------------------------------------------------------------
(* Types *)

\* A loop that uses t.cmd has set it.
LoopsHaveCmd == \A l \in Loops : loop[l] \in {"start", "wait"} => cmd \in Cmds

\* A loop that waits waits for a command that was started.
LoopsWait == \A l \in Loops : loop[l] = "waiting" => waits[l] \in Cmds

TypeInv == TypeOK /\ LoopsHaveCmd /\ LoopsWait

(***************************************************************************)
(* What a Wait leaves is a phase.                                           *)
(***************************************************************************)
LEMMA AfterWaitPhase == \A p \in Phases : AfterWait(p) \in Phases /\ AfterWait(p) # "running"
  BY DEF AfterWait, Phases

(***************************************************************************)
(* A command is made where none is used.                                    *)
(***************************************************************************)
LEMMA MakeFacts ==
    ASSUME TypeInv, NEW l \in Loops, Make(l)
    PROVE  /\ cmd' \in Cmds
           /\ phase' \in [Cmds -> Phases] /\ latest' \in [Cmds -> BOOLEAN]
           /\ \A c \in Cmds : phase'[c] = "running" <=> phase[c] = "running"
           /\ \A c \in Cmds : phase[c] = "running" => latest'[c] = latest[c]
  <1> DEFINE new == CHOOSE c \in Unused : TRUE
  <1>1. new \in Cmds /\ phase[new] # "running" /\ \A c \in Unused : phase[c] # "running"
    BY DEF Make, Unused
  <1>2. /\ cmd' = new
        /\ phase' = [d \in Cmds |-> IF d = new THEN "made"
                                   ELSE IF d \in Unused THEN "exited" ELSE phase[d]]
        /\ latest' = [d \in Cmds |-> latest[d] /\ d \notin Unused]
    BY DEF Make
  <1> HIDE DEF new
  <1>3. phase \in [Cmds -> Phases] /\ latest \in [Cmds -> BOOLEAN]
    BY DEF TypeInv, TypeOK
  <1>4. cmd' \in Cmds /\ phase' \in [Cmds -> Phases]
    BY <1>1, <1>2, <1>3 DEF Phases
  <1>5. \A c \in Cmds : phase'[c] = "running" <=> phase[c] = "running"
    BY <1>1, <1>2, <1>3
  <1>6. latest' \in [Cmds -> BOOLEAN]
    BY <1>2, Zenon
  <1>7. \A c \in Cmds : phase[c] = "running" => latest'[c] = latest[c]
    <2>1. \A c \in Cmds : latest'[c] = (latest[c] /\ c \notin Unused)
      BY <1>2, Zenon
    <2>2. \A c \in Cmds : phase[c] = "running" => c \notin Unused
      BY <1>1
    <2>3. \A c \in Cmds : latest[c] \in BOOLEAN
      BY <1>3
    <2> QED
      BY <2>1, <2>2, <2>3
  <1> QED
    BY <1>4, <1>5, <1>6, <1>7

(***************************************************************************)
(* The signal makes what it reaches read the files.                         *)
(***************************************************************************)
LEMMA SignalFacts ==
    ASSUME TypeInv, Signal
    PROVE  /\ cmd \in Cmds /\ latest' \in [Cmds -> BOOLEAN]
           /\ phase[cmd] = "running" => latest'[cmd]
           /\ \A c \in Cmds \ {cmd} : latest'[c] = latest[c]
  <1>1. cmd \in Cmds /\ latest \in [Cmds -> BOOLEAN]
    BY DEF TypeInv, TypeOK, Signal
  <1> DEFINE read == latest[cmd] \/ phase[cmd] = "running"
  <1>2. read \in BOOLEAN /\ (phase[cmd] = "running" => read)
    BY Zenon
  <1>3. latest' = [latest EXCEPT ![cmd] = read]
    BY DEF Signal
  <1> HIDE DEF read
  <1> QED
    BY <1>1, <1>2, <1>3

(***************************************************************************)
(* Every step keeps the types.                                              *)
(***************************************************************************)
LEMMA NextType == ASSUME TypeInv, [Next]_vars PROVE TypeInv'
  <1> USE DEF TypeInv, TypeOK, LoopsHaveCmd, LoopsWait
  <1>1. ASSUME NEW l \in Loops, Make(l)
        PROVE  TypeInv'
    <2>1. /\ cmd' \in Cmds
          /\ phase' \in [Cmds -> Phases] /\ latest' \in [Cmds -> BOOLEAN]
          /\ \A c \in Cmds : phase'[c] = "running" <=> phase[c] = "running"
      BY <1>1, MakeFacts
    <2>2. /\ loop' = [loop EXCEPT ![l] = "start"]
          /\ UNCHANGED <<server, waits, worker, writes, faults>>
      BY <1>1 DEF Make, Goto
    <2>3. server' \in {NoCmd} \cup {c \in Cmds : phase'[c] = "running"}
      BY <2>1, <2>2
    <2>4. loop' \in [Loops -> Places] /\ (worker' = "signal" => cmd' # NoCmd)
      BY <2>1, <2>2, NoCmdAssumption DEF Places
    <2> QED
      BY <2>1, <2>2, <2>3, <2>4
  <1>2. ASSUME NEW l \in Loops, StartCmd(l)
        PROVE  TypeInv'
    <2>1. /\ cmd \in Cmds /\ loop' = [loop EXCEPT ![l] = "wait"]
          /\ UNCHANGED <<cmd, waits, worker, writes, faults>>
      BY <1>2 DEF StartCmd, Goto
    <2>2. loop' \in [Loops -> Places]
      BY <2>1 DEF Places
    <2>3. CASE phase[cmd] = "made"
      <3>1. /\ phase' = [phase EXCEPT ![cmd] = "running"]
            /\ latest' = [latest EXCEPT ![cmd] = TRUE]
            /\ server' \in {cmd, server}
        BY <1>2, <2>3 DEF StartCmd
      <3>2. phase' \in [Cmds -> Phases] /\ latest' \in [Cmds -> BOOLEAN]
        BY <2>1, <3>1 DEF Phases
      <3>3. server' \in {NoCmd} \cup {c \in Cmds : phase'[c] = "running"}
        BY <2>1, <3>1
      <3> QED
        BY <2>1, <2>2, <3>2, <3>3
    <2>4. CASE phase[cmd] # "made"
      <3>1. UNCHANGED <<phase, latest, server>>
        BY <1>2, <2>4 DEF StartCmd
      <3> QED
        BY <2>1, <2>2, <3>1
    <2> QED
      BY <2>3, <2>4
  <1>3. ASSUME NEW l \in Loops, StartFails(l)
        PROVE  TypeInv'
    <2>1. /\ cmd \in Cmds /\ loop' = [loop EXCEPT ![l] = "wait"] /\ phase[cmd] = "made"
          /\ phase' = [phase EXCEPT ![cmd] = "unborn"]
          /\ UNCHANGED <<cmd, latest, server, waits, worker, writes>>
      BY <1>3 DEF StartFails, Goto
    <2>2. faults' \in 0 .. MaxFaults
      BY <1>3, BoundsAssumption DEF StartFails
    <2>3. loop' \in [Loops -> Places] /\ phase' \in [Cmds -> Phases]
      BY <2>1 DEF Places, Phases
    <2>4. server' \in {NoCmd} \cup {c \in Cmds : phase'[c] = "running"}
      BY <2>1
    <2> QED
      BY <2>1, <2>2, <2>3, <2>4
  <1>4. ASSUME NEW l \in Loops, Wait(l)
        PROVE  TypeInv'
    BY <1>4 DEF Wait, Goto, Places
  <1>5. ASSUME NEW l \in Loops, Waited(l)
        PROVE  TypeInv'
    <2>1. /\ loop[l] = "waiting" /\ phase[waits[l]] # "running"
          /\ loop' = [loop EXCEPT ![l] = "sleep"] /\ waits' = [waits EXCEPT ![l] = NoCmd]
          /\ phase' = [phase EXCEPT ![waits[l]] = AfterWait(phase[waits[l]])]
          /\ UNCHANGED <<cmd, latest, server, worker, writes, faults>>
      BY <1>5 DEF Waited, Goto
    <2>2. /\ loop' \in [Loops -> Places] /\ waits' \in [Loops -> Cmds \cup {NoCmd}]
          /\ phase' \in [Cmds -> Phases]
      BY <2>1, AfterWaitPhase DEF Places
    <2>3. server' \in {NoCmd} \cup {c \in Cmds : phase'[c] = "running"}
      BY <2>1
    <2> QED
      BY <2>1, <2>2, <2>3
  <1>6. ASSUME NEW l \in Loops, Wake(l)
        PROVE  TypeInv'
    BY <1>6 DEF Wake, Goto, Places
  <1>7. CASE WriteFiles
    BY <1>7, BoundsAssumption DEF WriteFiles
  <1>8. CASE ReloadStarts
    BY <1>8 DEF ReloadStarts, Goto, Places
  <1>9. CASE ReloadSignals
    BY <1>9 DEF ReloadSignals, NotRunning
  <1>10. CASE Signal
    BY <1>10, SignalFacts DEF Signal
  <1>11. CASE SignalPanics
    BY <1>11 DEF SignalPanics, Phases, Places
  <1>12. ASSUME NEW c \in Cmds, GivesUp(c)
         PROVE  TypeInv'
    BY <1>12 DEF GivesUp, Phases
  <1>13. ASSUME NEW c \in Cmds, TakesOver(c)
         PROVE  TypeInv'
    BY <1>13 DEF TakesOver
  <1>14. CASE Dies
    BY <1>14, BoundsAssumption DEF Dies, Phases
  <1>15. CASE UNCHANGED vars
    BY <1>15 DEF vars
  <1> QED
    BY <1>1, <1>2, <1>3, <1>4, <1>5, <1>6, <1>7, <1>8, <1>9, <1>10, <1>11, <1>12, <1>13, <1>14,
       <1>15 DEF Next, Supervise, Reload

---------------------------------------------------------------------------
(* A lone loop *)

AtMostOne == \A l, m \in Loops : loop[l] # "none" /\ loop[m] # "none" => l = m

\* Nothing runs unless the lone loop waits for it; it is then t.cmd's.
LoneLoop ==
    AtMostOne =>
        /\ \A c \in Cmds : phase[c] = "running" =>
              c = cmd /\ \E l \in Loops : loop[l] \in {"wait", "waiting"}
        /\ \A l \in Loops : loop[l] = "waiting" => waits[l] = cmd

\* What runs has read the files, as long as they have not been written again.
LoneCurrent ==
    AtMostOne /\ worker = "idle" => \A c \in Cmds : phase[c] = "running" => latest[c]

IInv == TypeInv /\ LoneLoop /\ LoneCurrent

(***************************************************************************)
(* A step of a lone loop: what runs after it is t.cmd's and waited for, and *)
(* has read the files.                                                      *)
(***************************************************************************)
LEMMA LoopStepKeeps ==
    ASSUME IInv, NEW l \in Loops, NEW place, place # "none", loop[l] # "none", Goto(l, place),
           UNCHANGED worker,
           place = "waiting" => waits'[l] = cmd',
           AtMostOne => \A c \in Cmds : phase'[c] = "running" =>
               /\ c = cmd' /\ place \in {"wait", "waiting"}
               /\ \/ phase[c] = "running" /\ latest'[c] = latest[c]
                  \/ latest'[c] = TRUE
    PROVE  LoneLoop' /\ LoneCurrent'
  <1>1. loop' = [loop EXCEPT ![l] = place] /\ loop \in [Loops -> Places]
    BY DEF Goto, IInv, TypeInv, TypeOK
  <1>2. loop'[l] = place /\ \A m \in Loops : loop'[m] # "none" <=> loop[m] # "none"
    BY <1>1
  <1>3. AtMostOne' <=> AtMostOne
    BY <1>2 DEF AtMostOne
  <1>4. ASSUME AtMostOne, NEW m \in Loops, loop'[m] = "waiting"
        PROVE  waits'[m] = cmd'
    <2>1. m = l
      BY <1>2, <1>4 DEF AtMostOne
    <2> QED
      BY <1>2, <1>4, <2>1
  <1>5. LoneLoop'
    BY <1>2, <1>3, <1>4 DEF LoneLoop
  <1>6. LoneCurrent'
    BY <1>3 DEF LoneCurrent, IInv
  <1> QED
    BY <1>5, <1>6

(***************************************************************************)
(* What a lone loop that is not waiting says of the commands.               *)
(***************************************************************************)
LEMMA LoneNotWaiting ==
    ASSUME LoneLoop, AtMostOne, NEW l \in Loops, loop[l] \in {"make", "start", "sleep"}
    PROVE  \A c \in Cmds : phase[c] # "running"
  BY DEF LoneLoop, AtMostOne

(***************************************************************************)
(* Every step of a loop keeps the invariant.                                *)
(***************************************************************************)
LEMMA SuperviseKeeps ==
    ASSUME IInv, NEW l \in Loops, Supervise(l) \/ StartFails(l)
    PROVE  LoneLoop' /\ LoneCurrent'
  <1>1. TypeInv /\ LoneLoop /\ phase \in [Cmds -> Phases] /\ latest \in [Cmds -> BOOLEAN]
    BY DEF IInv, TypeInv, TypeOK
  <1>2. CASE Make(l)
    <2>1. \A c \in Cmds : phase'[c] = "running" <=> phase[c] = "running"
      BY <1>1, <1>2, MakeFacts
    <2>2. Goto(l, "start") /\ loop[l] = "make" /\ worker' = worker
      BY <1>2 DEF Make
    <2> QED
      BY <1>1, <2>1, <2>2, LoneNotWaiting, LoopStepKeeps
  <1>3. CASE StartCmd(l)
    <2>1. /\ Goto(l, "wait") /\ loop[l] = "start" /\ worker' = worker /\ cmd' = cmd
          /\ \/ UNCHANGED <<phase, latest>>
             \/ /\ phase' = [phase EXCEPT ![cmd] = "running"]
                /\ latest' = [latest EXCEPT ![cmd] = TRUE]
      BY <1>3 DEF StartCmd
    <2>2. ASSUME AtMostOne, NEW c \in Cmds, phase'[c] = "running"
          PROVE  c = cmd' /\ latest'[c] = TRUE
      <3>1. phase[c] # "running"
        BY <1>1, <2>1, <2>2, LoneNotWaiting
      <3> QED
        BY <1>1, <2>1, <2>2, <3>1
    <2> QED
      BY <2>1, <2>2, LoopStepKeeps
  <1>4. CASE StartFails(l)
    <2>1. /\ Goto(l, "wait") /\ loop[l] = "start" /\ worker' = worker /\ cmd' = cmd
          /\ phase' = [phase EXCEPT ![cmd] = "unborn"]
      BY <1>4 DEF StartFails
    <2>2. \A c \in Cmds : phase'[c] = "running" => phase[c] = "running"
      BY <1>1, <2>1
    <2> QED
      BY <1>1, <2>1, <2>2, LoneNotWaiting, LoopStepKeeps
  <1>5. CASE Wait(l)
    <2>1. /\ loop[l] = "wait" /\ worker' = worker /\ cmd' = cmd /\ phase' = phase /\ latest' = latest
          /\ waits \in [Loops -> Cmds \cup {NoCmd}]
      BY <1>5 DEF Wait, IInv, TypeInv, TypeOK
    <2>2. CASE phase[cmd] \in {"running", "ended", "slain", "lost"}
      <3>1. Goto(l, "waiting") /\ waits' = [waits EXCEPT ![l] = cmd]
        BY <1>5, <2>2 DEF Wait
      <3>2. waits'[l] = cmd'
        BY <2>1, <3>1
      <3> QED
        BY <1>1, <2>1, <3>1, <3>2, LoopStepKeeps DEF LoneLoop
    <2>3. CASE phase[cmd] \notin {"running", "ended", "slain", "lost"}
      <3>1. Goto(l, "sleep")
        BY <1>5, <2>3 DEF Wait
      <3>2. AtMostOne => \A c \in Cmds : phase'[c] # "running"
        BY <1>1, <2>1, <2>3 DEF LoneLoop
      <3> QED
        BY <2>1, <3>1, <3>2, LoopStepKeeps
    <2> QED
      BY <2>2, <2>3
  <1>6. CASE Waited(l)
    <2>1. /\ Goto(l, "sleep") /\ loop[l] = "waiting" /\ worker' = worker /\ cmd' = cmd
          /\ phase[waits[l]] # "running" /\ waits[l] \in Cmds
          /\ phase' = [phase EXCEPT ![waits[l]] = AfterWait(phase[waits[l]])]
      BY <1>1, <1>6 DEF Waited, TypeInv, LoopsWait
    <2>2. \A c \in Cmds : phase'[c] = "running" => phase[c] = "running" /\ c # waits[l]
      BY <1>1, <2>1, AfterWaitPhase
    <2>3. AtMostOne => \A c \in Cmds : phase'[c] # "running"
      BY <1>1, <2>1, <2>2 DEF LoneLoop
    <2> QED
      BY <2>1, <2>3, LoopStepKeeps
  <1>7. CASE Wake(l)
    <2>1. Goto(l, "make") /\ loop[l] = "sleep" /\ worker' = worker /\ phase' = phase
      BY <1>7 DEF Wake
    <2> QED
      BY <1>1, <2>1, LoneNotWaiting, LoopStepKeeps
  <1> QED
    BY <1>2, <1>3, <1>4, <1>5, <1>6, <1>7 DEF Supervise

(***************************************************************************)
(* Steps that leave the loops alone, start no process and have none forget  *)
(* what it has read, unless the worker has something to tell.               *)
(***************************************************************************)
LEMMA NothingStarts ==
    ASSUME IInv, UNCHANGED <<cmd, loop, waits>>,
           \A c \in Cmds : phase'[c] = "running" => phase[c] = "running",
           worker' = "idle" => worker = "idle" /\ latest' = latest
    PROVE  LoneLoop' /\ LoneCurrent'
  <1>1. AtMostOne' <=> AtMostOne
    BY DEF AtMostOne
  <1> QED
    BY <1>1 DEF IInv, LoneLoop, LoneCurrent

(***************************************************************************)
(* Every step keeps the invariant.                                          *)
(***************************************************************************)
LEMMA NextKeeps == ASSUME IInv, [Next]_vars PROVE LoneLoop' /\ LoneCurrent'
  <1>1. /\ TypeInv /\ LoneLoop /\ LoneCurrent
        /\ phase \in [Cmds -> Phases] /\ latest \in [Cmds -> BOOLEAN]
        /\ loop \in [Loops -> Places]
    BY DEF IInv, TypeInv, TypeOK
  <1>2. CASE WriteFiles
    <2>1. worker' = "reload" /\ UNCHANGED <<cmd, phase, loop, waits>>
      BY <1>2 DEF WriteFiles
    <2> QED
      BY <2>1, NothingStarts
  <1>3. CASE ReloadStarts
    <2>1. PICK l \in Loops : loop[l] = "none" /\ loop' = [loop EXCEPT ![l] = "make"]
      BY <1>3 DEF ReloadStarts, Goto
    <2>2. UNCHANGED <<cmd, phase, latest, waits>>
      BY <1>3 DEF ReloadStarts
    <2>3. ASSUME AtMostOne'
          PROVE  \A m \in Loops : loop[m] = "none"
      BY <1>1, <2>1, <2>3 DEF AtMostOne
    <2>4. AtMostOne' => AtMostOne /\ (\A c \in Cmds : phase'[c] # "running")
      BY <1>1, <2>2, <2>3 DEF AtMostOne, LoneLoop
    <2>5. \A m \in Loops : loop'[m] = "waiting" => loop[m] = "waiting"
      BY <1>1, <2>1
    <2> QED
      BY <1>1, <2>2, <2>3, <2>4, <2>5 DEF LoneLoop, LoneCurrent
  <1>4. CASE ReloadSignals
    <2>1. worker' = "signal" /\ UNCHANGED <<cmd, phase, loop, waits>>
      BY <1>4 DEF ReloadSignals
    <2> QED
      BY <2>1, NothingStarts
  <1>5. CASE Signal
    <2>1. phase[cmd] = "running" => latest'[cmd]
      BY <1>1, <1>5, SignalFacts
    <2>2. UNCHANGED <<cmd, phase, loop, waits>>
      BY <1>5 DEF Signal
    <2>3. AtMostOne' <=> AtMostOne
      BY <2>2 DEF AtMostOne
    <2> QED
      BY <1>1, <2>1, <2>2, <2>3 DEF LoneLoop, LoneCurrent
  <1>6. CASE SignalPanics
    <2>1. /\ \A c \in Cmds : phase'[c] # "running"
          /\ \A l \in Loops : loop'[l] = "none"
      BY <1>6 DEF SignalPanics
    <2> QED
      BY <2>1 DEF LoneLoop, LoneCurrent
  <1>7. ASSUME NEW c \in Cmds, GivesUp(c) \/ TakesOver(c)
        PROVE  LoneLoop' /\ LoneCurrent'
    <2>1. /\ UNCHANGED <<cmd, loop, waits, worker, latest>>
          /\ phase' = phase \/ phase' = [phase EXCEPT ![c] = "ended"]
      BY <1>7 DEF GivesUp, TakesOver
    <2>2. \A d \in Cmds : phase'[d] = "running" => phase[d] = "running"
      BY <1>1, <2>1
    <2> QED
      BY <2>1, <2>2, NothingStarts
  <1>8. CASE Dies
    <2>1. PICK end \in {"ended", "slain"} : phase' = [phase EXCEPT ![server] = end]
      BY <1>8 DEF Dies
    <2>2. UNCHANGED <<cmd, loop, waits, worker, latest>>
      BY <1>8 DEF Dies
    <2>3. \A d \in Cmds : phase'[d] = "running" => phase[d] = "running"
      BY <1>1, <2>1
    <2> QED
      BY <2>2, <2>3, NothingStarts
  <1>9. CASE UNCHANGED vars
    BY <1>9, NothingStarts DEF vars
  <1> QED
    BY <1>2, <1>3, <1>4, <1>5, <1>6, <1>7, <1>8, <1>9, SuperviseKeeps DEF Next, Reload

---------------------------------------------------------------------------
(* The theorems *)

(***************************************************************************)
(* Nothing runs at first.                                                   *)
(***************************************************************************)
LEMMA InitIInv == ASSUME Init PROVE IInv
  <1>1. TypeInv
    BY BoundsAssumption DEF Init, TypeInv, TypeOK, LoopsHaveCmd, LoopsWait, Phases, Places
  <1>2. LoneLoop /\ LoneCurrent
    BY DEF Init, LoneLoop, LoneCurrent
  <1> QED
    BY <1>1, <1>2 DEF IInv

(***************************************************************************)
(* The invariant holds throughout.                                          *)
(***************************************************************************)
THEOREM Invariant == Spec => []IInv
  <1>1. Init => IInv
    BY InitIInv
  <1>2. IInv /\ [Next]_vars => IInv'
    BY NextType, NextKeeps DEF IInv
  <1> QED
    BY <1>1, <1>2, PTL DEF Spec

(***************************************************************************)
(* The types; among them, that what serves is a process that lives and that *)
(* Reload never signals through a nil t.cmd.                                *)
(***************************************************************************)
THEOREM TypeCorrect == Spec => []TypeOK
  <1>1. IInv => TypeOK
    BY DEF IInv, TypeInv
  <1> QED
    BY <1>1, Invariant, PTL

(***************************************************************************)
(* Two loops are more than one.                                             *)
(***************************************************************************)
LEMMA OneByCardinality == ASSUME Cardinality(Started) <= 1 PROVE AtMostOne
  <1> SUFFICES ASSUME NEW l \in Started, NEW m \in Started, l # m
               PROVE  FALSE
    BY DEF AtMostOne, Started
  <1>1. IsFiniteSet(Started) /\ Cardinality(Started) \in Nat
    BY LoopsAssumption, FS_Subset, FS_CardinalityType DEF Started
  <1>2. IsFiniteSet({l}) /\ Cardinality({l}) = 1
    BY FS_Singleton
  <1>3. Cardinality({l} \cup {m}) = 1 + 1
    <2>1. m \notin {l}
      OBVIOUS
    <2> QED
      BY <1>2, <2>1, FS_AddElement
  <1>4. {l} \cup {m} \subseteq Started
    OBVIOUS
  <1>5. Cardinality({l} \cup {m}) <= Cardinality(Started)
    BY <1>1, <1>4, FS_Subset
  <1> QED
    BY <1>1, <1>3, <1>5

(***************************************************************************)
(* A lone loop's tor has read the latest files once Reload has returned,    *)
(* whether the SIGHUP reached it or it was started anew.                    *)
(***************************************************************************)
THEOREM LoneServerIsCurrentHolds == Spec => []LoneServerIsCurrent
  <1>1. ASSUME IInv PROVE LoneServerIsCurrent
    <2>1. server # NoCmd => server \in Cmds /\ phase[server] = "running"
      BY <1>1 DEF IInv, TypeInv, TypeOK
    <2> QED
      BY <1>1, <2>1, OneByCardinality DEF IInv, LoneCurrent, LoneServerIsCurrent
  <1> QED
    BY <1>1, Invariant, PTL

---------------------------------------------------------------------------
(* The newest process, beside any number of loops *)

(***************************************************************************)
(* The process of t.cmd has read the latest files after every step: a step  *)
(* that leaves t.cmd alone starts it, signals it or leaves it as it was,    *)
(* and a command just made has no process.                                  *)
(***************************************************************************)
LEMMA NextNewest ==
    ASSUME TypeInv, NewestTorCurrent, [Next]_vars
    PROVE  NewestTorCurrent'
  <1>1. /\ phase \in [Cmds -> Phases] /\ latest \in [Cmds -> BOOLEAN]
        /\ cmd \in Cmds \cup {NoCmd} /\ server \in {NoCmd} \cup {c \in Cmds : phase[c] = "running"}
    BY DEF TypeInv, TypeOK
  <1>a. ASSUME UNCHANGED <<cmd, latest>>, worker' = "idle" => worker = "idle",
               \A c \in Cmds : phase'[c] = "running" => phase[c] = "running"
        PROVE  NewestTorCurrent'
    BY <1>1, <1>a DEF NewestTorCurrent
  <1>2. ASSUME NEW l \in Loops, Make(l)
        PROVE  NewestTorCurrent'
    <2>1. phase'[cmd'] = "made"
      <3> DEFINE new == CHOOSE c \in Unused : TRUE
      <3>1. new \in Cmds
        BY <1>2 DEF Make, Unused
      <3>2. /\ cmd' = new
            /\ phase' = [d \in Cmds |-> IF d = new THEN "made"
                                       ELSE IF d \in Unused THEN "exited" ELSE phase[d]]
        BY <1>2 DEF Make
      <3> HIDE DEF new
      <3> QED
        BY <3>1, <3>2
    <2> QED
      BY <2>1 DEF NewestTorCurrent
  <1>3. ASSUME NEW l \in Loops, StartCmd(l)
        PROVE  NewestTorCurrent'
    <2>1. UNCHANGED <<cmd, worker>>
      BY <1>3 DEF StartCmd
    <2>2. CASE phase[cmd] = "made"
      <3>1. latest' = [latest EXCEPT ![cmd] = TRUE]
        BY <1>3, <2>2 DEF StartCmd
      <3>2. cmd \in Cmds => latest'[cmd]
        BY <1>1, <3>1
      <3> QED
        BY <1>1, <2>1, <3>2, NoCmdAssumption DEF NewestTorCurrent
    <2>3. CASE phase[cmd] # "made"
      BY <1>3, <1>a, <2>3 DEF StartCmd
    <2> QED
      BY <2>2, <2>3
  <1>4. ASSUME NEW l \in Loops, StartFails(l) \/ Wait(l) \/ Wake(l)
        PROVE  NewestTorCurrent'
    <2>1. UNCHANGED <<cmd, latest, worker>>
      BY <1>4 DEF StartFails, Wait, Wake
    <2>2. \A c \in Cmds : phase'[c] = "running" => phase[c] = "running"
      BY <1>1, <1>4 DEF StartFails, Wait, Wake
    <2> QED
      BY <1>a, <2>1, <2>2
  <1>5. ASSUME NEW l \in Loops, Waited(l)
        PROVE  NewestTorCurrent'
    <2>1. /\ UNCHANGED <<cmd, latest, worker>> /\ waits[l] \in Cmds
          /\ phase' = [phase EXCEPT ![waits[l]] = AfterWait(phase[waits[l]])]
      BY <1>5 DEF Waited, TypeInv, LoopsWait
    <2>2. \A c \in Cmds : phase'[c] = "running" => phase[c] = "running"
      BY <1>1, <2>1, AfterWaitPhase
    <2> QED
      BY <1>a, <2>1, <2>2
  <1>6. CASE WriteFiles \/ ReloadSignals
    BY <1>6 DEF WriteFiles, ReloadSignals, NewestTorCurrent
  <1>7. CASE ReloadStarts
    BY <1>7 DEF ReloadStarts, NotRunning, NewestTorCurrent
  <1>8. CASE Signal
    <2>1. UNCHANGED <<cmd, phase>> /\ cmd # NoCmd
      BY <1>8 DEF Signal, TypeInv, TypeOK
    <2>2. phase[cmd] = "running" => latest'[cmd]
      BY <1>8, SignalFacts
    <2> QED
      BY <2>1, <2>2 DEF NewestTorCurrent
  <1>9. CASE SignalPanics
    BY <1>9 DEF SignalPanics, NewestTorCurrent
  <1>10. ASSUME NEW c \in Cmds, GivesUp(c) \/ TakesOver(c)
         PROVE  NewestTorCurrent'
    <2>1. /\ UNCHANGED <<cmd, latest, worker>>
          /\ phase' = phase \/ phase' = [phase EXCEPT ![c] = "ended"]
      BY <1>10 DEF GivesUp, TakesOver
    <2>2. \A d \in Cmds : phase'[d] = "running" => phase[d] = "running"
      BY <1>1, <2>1
    <2> QED
      BY <1>a, <2>1, <2>2
  <1>11. CASE Dies
    <2>1. PICK end \in {"ended", "slain"} : phase' = [phase EXCEPT ![server] = end]
      BY <1>11 DEF Dies
    <2>2. UNCHANGED <<cmd, latest, worker>>
      BY <1>11 DEF Dies
    <2>3. \A d \in Cmds : phase'[d] = "running" => phase[d] = "running"
      BY <1>1, <2>1
    <2> QED
      BY <1>a, <2>2, <2>3
  <1>12. CASE UNCHANGED vars
    BY <1>12, <1>a DEF vars
  <1> QED
    BY <1>2, <1>3, <1>4, <1>5, <1>6, <1>7, <1>8, <1>9, <1>10, <1>11, <1>12
       DEF Next, Supervise, Reload

(***************************************************************************)
(* However many loops replace t.cmd, once Reload has returned the process   *)
(* it points to has read the files as they are: NewestTorCurrent.           *)
(***************************************************************************)
THEOREM NewestTorCurrentHolds == Spec => []NewestTorCurrent
  <1>1. Init => NewestTorCurrent
    BY DEF Init, NewestTorCurrent
  <1>2. IInv /\ NewestTorCurrent /\ [Next]_vars => NewestTorCurrent'
    BY NextNewest DEF IInv
  <1> QED
    BY <1>1, <1>2, Invariant, PTL DEF Spec
=============================================================================
