--------------------------- MODULE TorAgentProofs ---------------------------
(***************************************************************************)
(* What the agent of an OnionService promises for any number of specs,      *)
(* writes and failures: types, that no reload is lost, whose hostname is    *)
(* published, and that the agent does not rest before it is.                *)
(***************************************************************************)
EXTENDS TorAgent, TLAPS

---------------------------------------------------------------------------
(* Types *)

(***************************************************************************)
(* A job taken from the indexer, and the zero values outside of sync, are   *)
(* jobs.                                                                    *)
(***************************************************************************)
LEMMA NoJobType == ASSUME TypeOK PROVE NoJob \in Jobs
  <1>1. obj.spec \in Specs
    BY DEF TypeOK, Objects
  <1>2. (CHOOSE spec \in Specs : TRUE) \in Specs
    BY <1>1
  <1> QED
    BY <1>2 DEF NoJob, Jobs, Hostnames, Origins

(***************************************************************************)
(* What the generators of the two files return can be in those files.       *)
(***************************************************************************)
LEMMA ConfigTypes ==
    ASSUME NEW spec \in Specs
    PROVE  /\ TorConfig(spec) \in TorFiles
           /\ spec.master # NoMaster => ObConfig(spec) \in ObFiles
  BY DEF Specs, TorConfig, ObConfig, TorFiles, ObFiles

(***************************************************************************)
(* A failure is counted and recorded.                                       *)
(***************************************************************************)
LEMMA FaultType ==
    ASSUME TypeOK, NEW kind, Fault(kind)
    PROVE  faults' \in 0 .. MaxFaults /\ failed' \subseteq Faults
  BY BoundsAssumption DEF TypeOK, Fault

(***************************************************************************)
(* Initially every variable has its type.                                   *)
(***************************************************************************)
LEMMA InitType == Init => TypeOK
  <1> SUFFICES ASSUME Init PROVE TypeOK
    OBVIOUS
  <1>1. PICK spec \in Specs : obj = [exists |-> TRUE, spec |-> spec, hostname |-> "none"]
    BY DEF Init
  <1>2. obj \in Objects /\ known \in Copies
    BY <1>1 DEF Init, Current, Objects, Copies, Hostnames, Origins
  <1>3. job \in Jobs
    <2>1. (CHOOSE s \in Specs : TRUE) \in Specs
      BY <1>1
    <2> QED
      BY <2>1 DEF Init, NoJob, Jobs, Hostnames, Origins
  <1>4. /\ torfile \in TorFiles /\ obfile \in ObFiles /\ told \in TorFiles \X ObFiles
        /\ hostfile \in Origins /\ keyfile \in Origins
    BY DEF Init, TorFiles, ObFiles, Origins
  <1>5. writes \in 0 .. MaxWrites /\ faults \in 0 .. MaxFaults /\ failed \subseteq Faults
    BY BoundsAssumption DEF Init
  <1> QED
    BY <1>2, <1>3, <1>4, <1>5 DEF Init, TypeOK

(***************************************************************************)
(* The steps of the informer and the queue, and a new container.            *)
(***************************************************************************)
LEMMA QueueType ==
    ASSUME TypeOK, Notice \/ DelayElapsed \/ Take \/ TakeDeleted \/ Crash
    PROVE  TypeOK'
  <1>1. Current \in Copies
    BY DEF TypeOK, Current, Objects, Copies
  <1>2. CASE Notice
    BY <1>1, <1>2 DEF Notice, TypeOK, files, keys, bounds
  <1>3. CASE DelayElapsed
    BY <1>3 DEF DelayElapsed, TypeOK, files, keys, bounds
  <1>4. CASE Take
    <2>1. job' \in Jobs
      BY <1>4 DEF Take, TypeOK, Copies, Jobs
    <2> QED
      BY <1>4, <2>1 DEF Take, TypeOK, files, keys, bounds
  <1>5. CASE TakeDeleted
    BY <1>5 DEF TakeDeleted, TypeOK, files, keys, bounds
  <1>6. CASE Crash
    <2>1. Boot /\ Fault("crash") /\ UNCHANGED <<obj, writes>>
      BY <1>6 DEF Crash
    <2>2. faults' \in 0 .. MaxFaults /\ failed' \subseteq Faults
      BY <2>1, FaultType
    <2>3. obj.exists \in BOOLEAN
      BY DEF TypeOK, Objects
    <2> QED
      BY <1>1, <2>1, <2>2, <2>3, NoJobType
         DEF Boot, TypeOK, TorFiles, ObFiles, Origins
  <1> QED
    BY <1>2, <1>3, <1>4, <1>5, <1>6

(***************************************************************************)
(* The steps of sync that follow its torfile, the keys and ob_config.       *)
(***************************************************************************)
LEMMA SyncType ==
    ASSUME TypeOK, SyncTorfile \/ SyncKeys \/ SyncObConfig \/ SyncReload
    PROVE  TypeOK'
  <1>1. job.spec \in Specs /\ job.reload \in BOOLEAN
    BY DEF TypeOK, Jobs
  <1>2. /\ TorConfig(job.spec) \in TorFiles
        /\ job.spec.master # NoMaster => ObConfig(job.spec) \in ObFiles
    BY <1>1, ConfigTypes
  <1>3. \A b \in BOOLEAN : [job EXCEPT !.reload = b] \in Jobs
    BY DEF TypeOK, Jobs
  <1>4. CASE SyncTorfile
    <2>1. job' \in Jobs
      BY <1>4, <1>3 DEF SyncTorfile
    <2> QED
      BY <1>2, <1>4, <2>1 DEF SyncTorfile, TypeOK, keys, bounds
  <1>5. CASE SyncKeys
    BY <1>5 DEF SyncKeys, Copied, TypeOK, Origins, bounds
  <1>6. CASE SyncObConfig
    <2>1. job' \in Jobs /\ obfile' \in ObFiles
      <3>1. CASE job.spec.master = NoMaster
        BY <1>6, <3>1 DEF SyncObConfig, TypeOK
      <3>2. CASE job.spec.master # NoMaster
        <4>1. (job.reload \/ obfile # ObConfig(job.spec)) \in BOOLEAN
          OBVIOUS
        <4>2. job' = [job EXCEPT !.reload = job.reload \/ obfile # ObConfig(job.spec)]
          BY <1>6, <3>2 DEF SyncObConfig
        <4>3. job' \in Jobs
          BY <4>1, <4>2, <1>3
        <4> QED
          BY <1>6, <3>2, <4>3, <1>2 DEF SyncObConfig
      <3> QED
        BY <3>1, <3>2
    <2> QED
      BY <1>6, <2>1 DEF SyncObConfig, TypeOK, keys, bounds
  <1>7. CASE SyncReload
    BY <1>7 DEF SyncReload, TypeOK, keys, bounds
  <1> QED
    BY <1>4, <1>5, <1>6, <1>7

(***************************************************************************)
(* The ends of sync: the status, and its failures.                          *)
(***************************************************************************)
LEMMA EndType ==
    ASSUME TypeOK,
           \/ StatusCurrent \/ StatusWritten \/ StatusConflict \/ HostnameMissing
           \/ TorfileUnreadable \/ TorfileTorn \/ KeysNotCopied
           \/ ObConfigUnreadable \/ ObConfigNotWritten \/ StatusFails
    PROVE  TypeOK'
  <1> USE NoJobType
  <1>1. CASE StatusCurrent
    BY <1>1 DEF StatusCurrent, Finish, TypeOK, files, keys, bounds
  <1>2. CASE StatusWritten
    <2>1. Trimmed(hostfile) \in Hostnames
      BY DEF TypeOK, Trimmed, Hostnames, Origins
    <2>2. obj' \in Objects /\ known' \in Copies
      BY <1>2, <2>1 DEF StatusWritten, TypeOK, Objects, Copies
    <2> QED
      BY <1>2, <2>2 DEF StatusWritten, Finish, TypeOK, files, keys, bounds
  <1>3. CASE StatusConflict
    BY <1>3 DEF StatusConflict, Retry, TypeOK, files, keys, bounds
  <1>4. CASE HostnameMissing
    BY <1>4 DEF HostnameMissing, Retry, TypeOK, files, keys, bounds
  <1>5. CASE TorfileUnreadable
    BY <1>5, FaultType DEF TorfileUnreadable, Retry, TypeOK, files, keys
  <1>6. CASE TorfileTorn
    BY <1>6, FaultType DEF TorfileTorn, Retry, TypeOK, TorFiles, keys
  <1>7. CASE KeysNotCopied
    <2>1. hostfile' \in Origins /\ keyfile' \in Origins
      BY <1>7 DEF KeysNotCopied, MaybeCopied, TypeOK, Origins
    <2> QED
      BY <1>7, <2>1, FaultType DEF KeysNotCopied, TypeOK
  <1>8. CASE ObConfigUnreadable
    BY <1>8, FaultType DEF ObConfigUnreadable, Retry, TypeOK, files, keys
  <1>9. CASE ObConfigNotWritten
    BY <1>9, FaultType DEF ObConfigNotWritten, Retry, TypeOK, ObFiles, keys
  <1>10. CASE StatusFails
    BY <1>10, FaultType DEF StatusFails, Retry, TypeOK, files, keys
  <1> QED
    BY <1>1, <1>2, <1>3, <1>4, <1>5, <1>6, <1>7, <1>8, <1>9, <1>10

(***************************************************************************)
(* The steps of tor, of users and of the operator.                          *)
(***************************************************************************)
LEMMA OthersType ==
    ASSUME TypeOK, TorLoadsKeys \/ WriteSpec \/ WriteTarget \/ Delete
    PROVE  TypeOK'
  <1>1. CASE TorLoadsKeys
    BY <1>1 DEF TorLoadsKeys, TypeOK, Origins, bounds
  <1>2. ASSUME OutdateCopies PROVE known' \in Copies /\ job' \in Jobs
    BY <1>2 DEF OutdateCopies, TypeOK, Copies, Jobs
  <1>3. ASSUME writes > 0, writes' = writes - 1 PROVE writes' \in 0 .. MaxWrites
    BY <1>3, BoundsAssumption DEF TypeOK
  <1>4. CASE WriteSpec
    <2>1. obj' \in Objects
      BY <1>4 DEF WriteSpec, TypeOK, Objects
    <2> QED
      BY <1>4, <1>2, <1>3, <2>1 DEF WriteSpec, TypeOK, files, keys
  <1>5. CASE WriteTarget
    BY <1>5, <1>2, <1>3 DEF WriteTarget, TypeOK, files, keys
  <1>6. CASE Delete
    <2>1. obj' \in Objects
      BY <1>6 DEF Delete, TypeOK, Objects
    <2> QED
      BY <1>6, <1>2, <1>3, <2>1 DEF Delete, TypeOK, files, keys
  <1> QED
    BY <1>1, <1>4, <1>5, <1>6

(***************************************************************************)
(* Every step keeps the types.                                              *)
(***************************************************************************)
LEMMA StepType == TypeOK /\ [Next]_vars => TypeOK'
  <1>1. ASSUME TypeOK, UNCHANGED vars PROVE TypeOK'
    BY <1>1 DEF vars, TypeOK
  <1> QED
    BY <1>1, QueueType, SyncType, EndType, OthersType DEF Next, Worker, Failure

(***************************************************************************)
(* Type correctness: TypeOK is an invariant of the agent.                   *)
(***************************************************************************)
THEOREM AgentTypeCorrect == Spec => []TypeOK
  BY InitType, StepType, PTL DEF Spec
---------------------------------------------------------------------------
(* No reload is lost *)

(***************************************************************************)
(* The files are those of a spec, and they are loaded.                      *)
(***************************************************************************)
Written(spec) ==
    /\ torfile = TorConfig(spec)
    /\ spec.master # NoMaster => obfile = ObConfig(spec)

Told == told = <<torfile, obfile>>

(***************************************************************************)
(* What each place of sync knows of the files while ob_config can be read   *)
(* and written.  At rest a torfile that is whole is loaded, because once    *)
(* sync has written one nothing keeps it from its Reload; in between, the   *)
(* flag reload stands for what is not loaded yet.                           *)
(***************************************************************************)
FilesSound ==
    /\ pc \in {"idle", "torfile"} => torfile \in {NoFile, Torn} \/ Told
    /\ pc \in {"keys", "obconfig"} => torfile = TorConfig(job.spec) /\ (job.reload \/ Told)
    /\ pc = "reload" => Written(job.spec) /\ (job.reload \/ Told)
    /\ pc = "status" => Written(job.spec) /\ Told

(***************************************************************************)
(* Without a key in the queue or on its way there, the worker is done with, *)
(* or at work on, what the informer knows, and a fresh copy is the object.  *)
(***************************************************************************)
QueueSound ==
    ~waiting /\ ~dirty /\ known.exists =>
        IF pc = "idle" THEN Written(known.spec) /\ Told ELSE job.spec = known.spec

CopySound == known.fresh => known.exists = obj.exists /\ known.spec = obj.spec

ReloadInv == CopySound /\ (ObConfigAccessible => FilesSound /\ QueueSound)

(***************************************************************************)
(* ReloadInv implies what it is for.                                        *)
(***************************************************************************)
LEMMA ReloadInvSuffices == ReloadInv => ReloadNotLost
  <1> SUFFICES ASSUME ReloadInv, ObConfigAccessible, Quiescent, obj.exists PROVE Loaded
    BY DEF ReloadNotLost, ReloadNeverLost
  <1>1. known.exists /\ known.spec = obj.spec
    BY DEF ReloadInv, CopySound, Quiescent
  <1>2. Written(known.spec) /\ Told
    BY <1>1 DEF ReloadInv, QueueSound, Quiescent
  <1> QED
    BY <1>1, <1>2 DEF Written, Told, Loaded

(***************************************************************************)
(* It holds initially: a key is waiting and nothing is written.             *)
(***************************************************************************)
LEMMA InitReload == Init => ReloadInv
  BY DEF Init, Current, ReloadInv, CopySound, FilesSound, QueueSound

(***************************************************************************)
(* A fault of another kind leaves ob_config as accessible as it was, and    *)
(* one of these two kinds ends that.                                        *)
(***************************************************************************)
LEMMA AccessStep ==
    /\ \A kind : Fault(kind) /\ ObConfigAccessible' => ObConfigAccessible
    /\ ~((Fault("obread") \/ Fault("obwrite")) /\ ObConfigAccessible')
    /\ UNCHANGED failed /\ ObConfigAccessible' => ObConfigAccessible
  BY DEF Fault, ObConfigAccessible

(***************************************************************************)
(* Every step keeps ReloadInv.                                              *)
(***************************************************************************)
LEMMA CopySoundStep == TypeOK /\ CopySound /\ [Next]_vars => CopySound'
  <1> SUFFICES ASSUME TypeOK, CopySound, [Next]_vars PROVE CopySound'
    OBVIOUS
  <1> USE DEF CopySound
  <1>1. CASE UNCHANGED <<obj, known>>
    BY <1>1
  <1>2. CASE UNCHANGED obj /\ known' = Current
    BY <1>2 DEF Current
  <1>3. CASE known' = [known EXCEPT !.fresh = FALSE]
    BY <1>3 DEF TypeOK, Copies
  <1>4. CASE Notice \/ Crash
    BY <1>4, <1>2 DEF Notice, Crash, Boot
  <1>5. CASE StatusWritten \/ WriteSpec \/ WriteTarget \/ Delete
    BY <1>5, <1>3 DEF StatusWritten, WriteSpec, WriteTarget, Delete, OutdateCopies
  <1>6. CASE DelayElapsed \/ TorLoadsKeys \/ UNCHANGED vars
    BY <1>6, <1>1 DEF DelayElapsed, TorLoadsKeys, vars
  <1>7. CASE Worker
    BY <1>7, <1>1, <1>5
       DEF Worker, Take, TakeDeleted, SyncTorfile, SyncKeys, SyncObConfig, SyncReload,
           StatusCurrent, StatusConflict, HostnameMissing
  <1>8. CASE Failure
    BY <1>8, <1>1, <1>4
       DEF Failure, TorfileUnreadable, TorfileTorn, KeysNotCopied, ObConfigUnreadable,
           ObConfigNotWritten, StatusFails
  <1> QED
    BY <1>4, <1>5, <1>6, <1>7, <1>8 DEF Next

(***************************************************************************)
(* Every step of an agent that can reach ob_config keeps the files sound    *)
(* and the queue from forgetting.                                           *)
(***************************************************************************)
LEMMA ReloadStep ==
    ASSUME TypeOK, ReloadInv, [Next]_vars, ObConfigAccessible'
    PROVE  FilesSound' /\ QueueSound'
  <1>a. /\ waiting \in BOOLEAN /\ dirty \in BOOLEAN
        /\ known \in Copies /\ job \in Jobs /\ obj \in Objects
        /\ pc \in {"idle", "torfile", "keys", "obconfig", "reload", "status"}
    BY DEF TypeOK
  <1>b. CASE UNCHANGED <<waiting, dirty, known, pc, job, torfile, obfile, told, failed>>
    BY <1>b, AccessStep
       DEF ReloadInv, FilesSound, QueueSound, Written, Told, ObConfigAccessible
  <1>c. ASSUME ObConfigAccessible, waiting', torfile' \in {NoFile, Torn} \/ Told', pc' = "idle"
        PROVE  FilesSound' /\ QueueSound'
    BY <1>c DEF FilesSound, QueueSound
  <1>1. CASE Notice
    BY <1>1, <1>a, AccessStep
       DEF Notice, ReloadInv, FilesSound, QueueSound, Written, Told, files, bounds
  <1>2. CASE DelayElapsed
    BY <1>2, <1>a, AccessStep
       DEF DelayElapsed, ReloadInv, FilesSound, QueueSound, Written, Told, files, bounds
  <1>3. CASE Take
    <2>1. job'.spec = known.spec
      BY <1>3 DEF Take
    <2> QED
      BY <1>3, <2>1, <1>a, AccessStep
         DEF Take, ReloadInv, FilesSound, QueueSound, Told, files, bounds
  <1>4. CASE TakeDeleted
    BY <1>4, <1>a, AccessStep
       DEF TakeDeleted, ReloadInv, FilesSound, QueueSound, Told, files, bounds
  <1>5. CASE SyncTorfile
    <2>1. job'.spec = job.spec /\ job'.reload = (torfile # TorConfig(job.spec))
      BY <1>5, <1>a DEF SyncTorfile, Jobs
    <2>2. torfile' = TorConfig(job.spec) /\ UNCHANGED <<obfile, told>>
      BY <1>5 DEF SyncTorfile
    <2>3. torfile \in {NoFile, Torn} \/ Told
      BY <1>5, AccessStep DEF SyncTorfile, ReloadInv, FilesSound, bounds
    <2>4. job.spec \in Specs
      BY <1>a DEF Jobs
    <2>5. TorConfig(job.spec) \notin {NoFile, Torn}
      <3>1. job.spec.tor \in TorConfigs /\ (job.spec.master # NoMaster) \in BOOLEAN
        BY <2>4 DEF Specs
      <3>2. TorConfig(job.spec) \in TorConfigs \X BOOLEAN
        BY <3>1 DEF TorConfig
      <3> QED
        BY <3>2, NoFileAssumption
    <2>6. FilesSound'
      BY <1>5, <2>1, <2>2, <2>3, <2>5 DEF SyncTorfile, FilesSound, Told
    <2>7. QueueSound'
      BY <1>5, <2>1, <1>a, AccessStep DEF SyncTorfile, ReloadInv, QueueSound, bounds
    <2> QED
      BY <2>6, <2>7
  <1>6. CASE SyncKeys \/ KeysNotCopied
    BY <1>6, <1>a, AccessStep
       DEF SyncKeys, KeysNotCopied, ReloadInv, FilesSound, QueueSound, Told, bounds
  <1>7. CASE SyncObConfig
    <2>1. ObConfigAccessible /\ FilesSound /\ QueueSound
      BY <1>7, AccessStep DEF SyncObConfig, ReloadInv, bounds
    <2>2. torfile = TorConfig(job.spec) /\ (job.reload \/ Told)
      BY <1>7, <2>1 DEF SyncObConfig, FilesSound
    <2>3. /\ job'.spec = job.spec
          /\ job.spec.master = NoMaster => job'.reload = job.reload /\ obfile' = obfile
          /\ job.spec.master # NoMaster =>
                /\ job'.reload = (job.reload \/ obfile # ObConfig(job.spec))
                /\ obfile' = ObConfig(job.spec)
      BY <1>7, <1>a DEF SyncObConfig, Jobs
    <2>4. /\ pc = "obconfig" /\ pc' = "reload"
          /\ UNCHANGED <<torfile, told, waiting, dirty, known>>
      BY <1>7 DEF SyncObConfig
    <2>5. FilesSound'
      BY <2>2, <2>3, <2>4 DEF FilesSound, Written, Told, TorConfig, ObConfig
    <2>6. QueueSound'
      BY <2>1, <2>3, <2>4 DEF QueueSound
    <2> QED
      BY <2>5, <2>6
  <1>8. CASE SyncReload
    BY <1>8, <1>a, AccessStep
       DEF SyncReload, ReloadInv, FilesSound, QueueSound, Written, Told, bounds
  <1>9. CASE StatusCurrent \/ StatusWritten
    <2>1. ObConfigAccessible /\ FilesSound /\ QueueSound
      BY <1>9, AccessStep DEF StatusCurrent, StatusWritten, ReloadInv, bounds
    <2>2. Written(job.spec) /\ Told
      BY <1>9, <2>1 DEF StatusCurrent, StatusWritten, FilesSound
    <2>3. known'.spec = known.spec /\ known'.exists = known.exists
      BY <1>9, <1>a DEF StatusCurrent, StatusWritten, Copies
    <2>4. /\ pc = "status" /\ pc' = "idle"
          /\ UNCHANGED <<torfile, obfile, told, waiting, dirty>>
      BY <1>9 DEF StatusCurrent, StatusWritten, Finish, files
    <2> QED
      BY <2>1, <2>2, <2>3, <2>4 DEF FilesSound, QueueSound, Written, Told
  <1>10. CASE StatusConflict \/ HostnameMissing \/ StatusFails
    <2>1. ObConfigAccessible /\ FilesSound
      BY <1>10, AccessStep DEF StatusConflict, HostnameMissing, StatusFails, ReloadInv, bounds
    <2> QED
      BY <1>10, <1>c, <2>1
         DEF StatusConflict, HostnameMissing, StatusFails, Retry, FilesSound, Told, files
  <1>11. CASE TorfileUnreadable \/ TorfileTorn
    <2>1. ObConfigAccessible /\ FilesSound
      BY <1>11, AccessStep DEF TorfileUnreadable, TorfileTorn, ReloadInv
    <2> QED
      BY <1>11, <1>c, <2>1
         DEF TorfileUnreadable, TorfileTorn, Retry, FilesSound, Told, files
  <1>12. CASE ObConfigUnreadable \/ ObConfigNotWritten
    BY <1>12, AccessStep DEF ObConfigUnreadable, ObConfigNotWritten
  <1>13. CASE Crash
    BY <1>13 DEF Crash, Boot, Current, FilesSound, QueueSound
  <1>14. CASE TorLoadsKeys \/ UNCHANGED vars
    BY <1>14, <1>b DEF TorLoadsKeys, bounds, vars
  <1>15. CASE WriteSpec \/ WriteTarget \/ Delete
    <2>1. /\ known'.spec = known.spec /\ known'.exists = known.exists
          /\ job'.spec = job.spec /\ job'.reload = job.reload
      BY <1>15, <1>a DEF WriteSpec, WriteTarget, Delete, OutdateCopies, Copies, Jobs
    <2>2. UNCHANGED <<torfile, obfile, told, waiting, dirty, pc, failed>>
      BY <1>15 DEF WriteSpec, WriteTarget, Delete, files
    <2> QED
      BY <2>1, <2>2, AccessStep
         DEF ReloadInv, FilesSound, QueueSound, Written, Told, ObConfigAccessible
  <1> QED
    BY <1>1, <1>2, <1>3, <1>4, <1>5, <1>6, <1>7, <1>8, <1>9, <1>10, <1>11, <1>12, <1>13,
       <1>14, <1>15 DEF Next, Worker, Failure

(***************************************************************************)
(* The agent never rests with a file written and tor untold, unless         *)
(* ob_config could not be read or written: ReloadNotLost.                   *)
(***************************************************************************)
THEOREM ReloadNotLostHolds == Spec => []ReloadNotLost
  <1>1. TypeOK /\ ReloadInv /\ [Next]_vars => ReloadInv'
    BY CopySoundStep, ReloadStep DEF ReloadInv
  <1> QED
    BY <1>1, AgentTypeCorrect, InitReload, ReloadInvSuffices, PTL DEF Spec

---------------------------------------------------------------------------
(* The hostname published is the one of the secret *)

(***************************************************************************)
(* As long as no copy failed nothing but the secret's files was ever there, *)
(* and the keys are in place whenever tor has been told something or is     *)
(* about to be.                                                             *)
(***************************************************************************)
KeysSound ==
    /\ {hostfile, keyfile, obj.hostname} \subseteq {"none", "secret"}
    /\ told[1] # NoFile \/ pc \in {"obconfig", "reload", "status"} => keyfile = "secret"

KeysInv == "copy" \notin failed => KeysSound

(***************************************************************************)
(* Every step keeps KeysInv.                                                *)
(***************************************************************************)
LEMMA KeysStep == TypeOK /\ KeysInv /\ [Next]_vars => KeysInv'
  <1> SUFFICES ASSUME TypeOK, KeysInv, [Next]_vars, "copy" \notin failed' PROVE KeysSound'
    BY DEF KeysInv
  <1>a. \A kind : Fault(kind) => failed \subseteq failed'
    BY DEF Fault
  <1>b. CASE /\ UNCHANGED <<keys, told>> /\ failed \subseteq failed'
             /\ obj'.hostname = obj.hostname
             /\ pc' = pc \/ pc' \in {"idle", "torfile", "keys"}
                  \/ pc \in {"obconfig", "reload", "status"}
    BY <1>b DEF KeysInv, KeysSound, keys
  <1>1. CASE Notice \/ DelayElapsed \/ UNCHANGED vars
    BY <1>1, <1>b DEF Notice, DelayElapsed, files, keys, bounds, vars
  <1>2. CASE Take \/ TakeDeleted \/ SyncTorfile \/ SyncObConfig
    BY <1>2, <1>b DEF Take, TakeDeleted, SyncTorfile, SyncObConfig, files, keys, bounds
  <1>3. CASE SyncKeys
    BY <1>3 DEF SyncKeys, Copied, KeysInv, KeysSound, bounds
  <1>4. CASE SyncReload
    BY <1>4 DEF SyncReload, KeysInv, KeysSound, keys, bounds
  <1>5. CASE StatusCurrent \/ StatusConflict \/ HostnameMissing
    BY <1>5, <1>b
       DEF StatusCurrent, StatusConflict, HostnameMissing, Finish, Retry, files, keys, bounds
  <1>6. CASE StatusWritten
    <2>1. obj'.hostname = Trimmed(hostfile)
      BY <1>6 DEF StatusWritten, TypeOK, Objects
    <2> QED
      BY <1>6, <2>1
         DEF StatusWritten, Finish, Trimmed, KeysInv, KeysSound, files, keys, bounds
  <1>7. CASE TorfileUnreadable \/ TorfileTorn \/ ObConfigUnreadable \/ ObConfigNotWritten
             \/ StatusFails
    BY <1>7, <1>a, <1>b
       DEF TorfileUnreadable, TorfileTorn, ObConfigUnreadable, ObConfigNotWritten,
           StatusFails, Retry, files, keys
  <1>8. CASE KeysNotCopied
    BY <1>8 DEF KeysNotCopied, Fault
  <1>9. CASE Crash
    BY <1>9, <1>a DEF Crash, Boot, KeysInv, KeysSound
  <1>10. CASE TorLoadsKeys
    BY <1>10 DEF TorLoadsKeys, KeysInv, KeysSound, bounds
  <1>11. CASE WriteSpec \/ WriteTarget \/ Delete
    <2>1. obj'.hostname = obj.hostname
      BY <1>11 DEF WriteSpec, WriteTarget, Delete, TypeOK, Objects
    <2> QED
      BY <1>11, <2>1, <1>b DEF WriteSpec, WriteTarget, Delete, files, keys
  <1> QED
    BY <1>1, <1>2, <1>3, <1>4, <1>5, <1>6, <1>7, <1>8, <1>9, <1>10, <1>11
       DEF Next, Worker, Failure

(***************************************************************************)
(* Only a failed copy lets tor choose the address that is published:        *)
(* PublishedIsSecrets.                                                      *)
(***************************************************************************)
THEOREM PublishedIsSecretsHolds == Spec => []PublishedIsSecrets
  <1>1. Init => KeysInv
    BY DEF Init, KeysInv, KeysSound
  <1>2. KeysInv => PublishedIsSecrets
    BY DEF KeysInv, KeysSound, PublishedIsSecrets
  <1> QED
    BY <1>1, <1>2, KeysStep, AgentTypeCorrect, PTL DEF Spec
---------------------------------------------------------------------------
(* Rest only with a hostname published *)

(***************************************************************************)
(* Unless a copy failed, a hostname that the informer or a job knows of is  *)
(* published.  Without a key in the queue or on its way there a sync came   *)
(* to its end: it found a hostname file, and unless a copy failed it        *)
(* published what that says, and the keys are in place.                     *)
(***************************************************************************)
HostnamesSeen ==
    /\ known.hostname # "none" => obj.hostname # "none"
    /\ job.hostname # "none" => obj.hostname # "none"

Idle == pc = "idle" /\ known.exists /\ ~waiting /\ ~dirty

InPlace == obj.hostname # "none" /\ keys = <<"secret", "secret">>

RestInv ==
    /\ "copy" \notin failed => HostnamesSeen /\ (Idle => InPlace)
    /\ Idle => hostfile # "none"

(***************************************************************************)
(* Steps that publish nothing, after which the agent rests only if it did   *)
(* before, and the keys are what they were.                                 *)
(***************************************************************************)
LEMMA RestsAsBefore ==
    ASSUME RestInv, obj'.hostname = obj.hostname,
           known'.hostname \in {known.hostname, obj.hostname},
           job'.hostname \in {"none", job.hostname, known.hostname},
           Idle' => Idle, keys' = keys, failed \subseteq failed'
    PROVE  RestInv'
  BY DEF RestInv, HostnamesSeen, InPlace, keys

(***************************************************************************)
(* Every step keeps it.                                                     *)
(***************************************************************************)
LEMMA RestStep ==
    ASSUME TypeOK, KeysInv, RestInv, [Next]_vars
    PROVE  RestInv'
  <1>a. \A kind : Fault(kind) => failed \subseteq failed'
    BY DEF Fault
  <1>b. obj \in Objects /\ known \in Copies /\ job \in Jobs /\ NoJob.hostname = "none"
    BY DEF TypeOK, NoJob
  <1>1. CASE Notice
    <2>1. known'.hostname = obj.hostname /\ ~Idle'
      BY <1>1 DEF Notice, Current, Idle
    <2> QED
      BY <1>1, <2>1, RestsAsBefore DEF Notice, files, bounds
  <1>2. CASE DelayElapsed \/ UNCHANGED vars
    <2>1. UNCHANGED <<obj, known, job, keys, failed>> /\ (Idle' => Idle)
      BY <1>2 DEF DelayElapsed, vars, files, keys, bounds, Idle
    <2> QED
      BY <2>1, RestsAsBefore
  <1>3. CASE Take
    <2>1. job'.hostname = known.hostname /\ ~Idle'
      BY <1>3 DEF Take, Idle
    <2> QED
      BY <1>3, <2>1, RestsAsBefore DEF Take, files, bounds
  <1>4. CASE TakeDeleted
    <2>1. ~Idle' /\ UNCHANGED <<obj, known, job, keys, failed>>
      BY <1>4 DEF TakeDeleted, Idle, files, bounds
    <2> QED
      BY <2>1, RestsAsBefore
  <1>5. CASE SyncTorfile \/ SyncObConfig \/ SyncReload
    <2>1. job'.hostname = job.hostname
      BY <1>5, <1>b DEF SyncTorfile, SyncObConfig, SyncReload, Jobs
    <2>2. ~Idle' /\ UNCHANGED <<obj, known, keys, failed>>
      BY <1>5 DEF SyncTorfile, SyncObConfig, SyncReload, Idle, bounds
    <2> QED
      BY <2>1, <2>2, RestsAsBefore
  <1>6. CASE SyncKeys \/ KeysNotCopied
    <2>1. ~Idle' /\ UNCHANGED <<obj, known, job>> /\ failed \subseteq failed'
      BY <1>6, <1>a DEF SyncKeys, KeysNotCopied, Idle, bounds
    <2> QED
      BY <2>1 DEF RestInv, HostnamesSeen
  <1>7. CASE StatusCurrent \/ StatusWritten
    <2>1. /\ pc = "status" /\ hostfile # "none" /\ UNCHANGED <<keys, failed>>
          /\ job'.hostname = "none" /\ known'.hostname = known.hostname
      BY <1>7, <1>b
         DEF StatusCurrent, StatusWritten, HostnameDiffers, Finish, Copies, files, bounds
    <2>2. ASSUME "copy" \notin failed PROVE InPlace'
      <3>1. /\ KeysSound /\ HostnamesSeen /\ hostfile = "secret" /\ keyfile = "secret"
            /\ Trimmed(hostfile) = "secret"
        BY <2>1, <2>2 DEF KeysInv, KeysSound, RestInv, Trimmed
      <3>2. CASE StatusCurrent
        BY <2>1, <3>1, <3>2 DEF StatusCurrent, HostnameDiffers, HostnamesSeen, InPlace, keys
      <3>3. CASE StatusWritten
        BY <2>1, <3>1, <3>3, <1>b DEF StatusWritten, Objects, InPlace, keys
      <3> QED
        BY <1>7, <3>2, <3>3
    <2>3. hostfile' # "none"
      BY <2>1 DEF keys
    <2> QED
      BY <2>1, <2>2, <2>3 DEF RestInv, HostnamesSeen, InPlace
  <1>8. CASE StatusConflict \/ HostnameMissing
    <2>1. /\ job'.hostname = "none" /\ ~Idle'
          /\ UNCHANGED <<obj, known, keys, failed>>
      BY <1>8, <1>b DEF StatusConflict, HostnameMissing, Retry, Idle, files, bounds
    <2> QED
      BY <2>1, RestsAsBefore
  <1>9. CASE \/ TorfileUnreadable \/ TorfileTorn \/ ObConfigUnreadable
             \/ ObConfigNotWritten \/ StatusFails
    <2>1. /\ job'.hostname = "none" /\ ~Idle'
          /\ UNCHANGED <<obj, known, keys>>
      BY <1>9, <1>b
         DEF TorfileUnreadable, TorfileTorn, ObConfigUnreadable, ObConfigNotWritten,
             StatusFails, Retry, Idle, files
    <2>2. failed \subseteq failed'
      BY <1>9, <1>a
         DEF TorfileUnreadable, TorfileTorn, ObConfigUnreadable, ObConfigNotWritten, StatusFails
    <2> QED
      BY <2>1, <2>2, RestsAsBefore
  <1>10. CASE Crash
    <2>1. /\ known'.hostname = obj.hostname /\ job'.hostname = "none" /\ obj' = obj
          /\ ~Idle' /\ failed \subseteq failed'
      BY <1>10, <1>a, <1>b DEF Crash, Boot, Current, Idle
    <2> QED
      BY <2>1 DEF RestInv, HostnamesSeen
  <1>11. CASE TorLoadsKeys
    <2>1. /\ UNCHANGED <<obj, known, waiting, dirty, pc, job, failed>> /\ told[1] # NoFile
          /\ keyfile' = IF keyfile = "none" THEN "own" ELSE keyfile
          /\ hostfile' = keyfile'
      BY <1>11 DEF TorLoadsKeys, bounds
    <2>2. hostfile' # "none" /\ (keys = <<"secret", "secret">> => keys' = keys)
      BY <2>1 DEF keys
    <2> QED
      BY <2>1, <2>2 DEF RestInv, HostnamesSeen, Idle, InPlace
  <1>12. CASE WriteSpec \/ WriteTarget \/ Delete
    <2>1. /\ known'.hostname = known.hostname /\ known'.exists = known.exists
          /\ job'.hostname = job.hostname
      BY <1>12, <1>b DEF WriteSpec, WriteTarget, Delete, OutdateCopies, Copies, Jobs
    <2>2. obj'.hostname = obj.hostname
      BY <1>12, <1>b DEF WriteSpec, WriteTarget, Delete, Objects
    <2>3. UNCHANGED <<waiting, dirty, pc, keys, failed>>
      BY <1>12 DEF WriteSpec, WriteTarget, Delete, files
    <2> QED
      BY <2>1, <2>2, <2>3, RestsAsBefore DEF Idle
  <1> QED
    BY <1>1, <1>2, <1>3, <1>4, <1>5, <1>6, <1>7, <1>8, <1>9, <1>10, <1>11, <1>12
       DEF Next, Worker, Failure

(***************************************************************************)
(* The agent never rests before there is a hostname file, and unless a copy *)
(* failed the one of the operator's keys is published, which are those tor  *)
(* has: RestsOnlyWhenPublished.                                             *)
(***************************************************************************)
THEOREM RestsOnlyWhenPublishedHolds == Spec => []RestsOnlyWhenPublished
  <1>1. Init => TypeOK /\ CopySound /\ KeysInv /\ RestInv
    <2> SUFFICES ASSUME Init PROVE TypeOK /\ CopySound /\ KeysInv /\ RestInv
      OBVIOUS
    <2>1. /\ obj.hostname = "none" /\ known = Current /\ job.hostname = "none" /\ waiting = TRUE
          /\ hostfile = "none" /\ keyfile = "none" /\ told = <<NoFile, NoFile>> /\ pc = "idle"
      BY DEF Init, NoJob
    <2>2. CopySound /\ KeysInv /\ RestInv
      BY <2>1 DEF Current, CopySound, KeysInv, KeysSound, RestInv, HostnamesSeen, Idle
    <2> QED
      BY <2>2, InitType
  <1>2. TypeOK /\ CopySound /\ KeysInv /\ RestInv /\ [Next]_vars
        => TypeOK' /\ CopySound' /\ KeysInv' /\ RestInv'
    BY StepType, CopySoundStep, KeysStep, RestStep
  <1>3. CopySound /\ KeysInv /\ RestInv => RestsOnlyWhenPublished
    BY DEF CopySound, KeysInv, KeysSound, RestInv, Idle, InPlace,
           RestsOnlyWhenPublished, Quiescent
  <1> QED
    BY <1>1, <1>2, <1>3, PTL DEF Spec
=============================================================================
