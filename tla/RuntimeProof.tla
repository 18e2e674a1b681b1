---------------------------- MODULE RuntimeProof -----------------------------
(***************************************************************************)
(* Proofs about module Runtime for any number of concurrent commands, of   *)
(* creates and of aborted commands, and any choice of the commands that    *)
(* are invoked.                                                            *)
(*                                                                         *)
(* None of the properties is inductive.  The invariant IInv adds           *)
(*   - which command may be at which step (TypeInv),                       *)
(*   - that one monitor at most owns the name, that a live init has a      *)
(*     monitor waiting for it, and that an instance belongs to one create  *)
(*     command, which launches its monitor once (ProcInv),                 *)
(*   - that a fifo with a reader was opened by a start and that a message  *)
(*     in it comes from an init past it and was read by nobody (FifoInv),  *)
(*   - what a start and a kill have learnt so far (CommandInv).            *)
(* What a command learnt stays true because the life of monitors and inits *)
(* only goes forward (LifeGoesForward); what it learns is decided by the   *)
(* step that moves it on (Turn).                                           *)
(***************************************************************************)
EXTENDS Runtime, TLAPS

-----------------------------------------------------------------------------
(***************************************************************************)
(* Types.  TypeOK is not inductive: where a loaded command goes next       *)
(* depends on which command it is, so PcOp says which steps are whose.     *)
(***************************************************************************)

StopSteps == {"stop", "waitStopped", "drain", "drainLoop"}

\* Command o may be at step s.
OpAt(s, o) ==
  /\ s \in CreateSteps => o = "create"
  /\ s \in LoadSteps   => o \in AllOps \ {"create"}
  /\ s \in StartSteps  => o = "start"
  /\ s \in StateSteps  => o = "state"
  /\ s = "killState"   => o \in {"kill", "term", "signal"}
  /\ s \in StopSteps   => o \in {"kill", "term", "force"}
  /\ s = "signal"      => o = "signal"
  /\ s \in DeleteSteps => o \in {"delete", "force"}
  /\ s = "attach"      => o = "exec"

PcOp ==
  \A p \in Procs : OpAt(pc[p], op[p]) /\ (op[p] = "create" => inst[p] \in Instances)

InitHasFifo == \A i \in Instances : init[i] # "none" => initFifo[i] \in Instances

TypeInv == TypeOK /\ PcOp /\ InitHasFifo

Classes == {CreateSteps, LoadSteps, StartSteps, StateSteps, StopSteps, DeleteSteps}

\* A step that only moves the program counter keeps the types.
LEMMA GotoKeepsTypes ==
  ASSUME CommandTypeOK, PcOp, NEW p \in Procs, NEW s \in Steps,
         OpAt(s, op[p]), Goto(p, s)
  PROVE  CommandTypeOK' /\ PcOp'
BY DEF CommandTypeOK, PcOp, OpAt, Goto

\* So does one that also turns to an instance.
LEMMA GotoWithKeepsTypes ==
  ASSUME CommandTypeOK, PcOp, NEW p \in Procs, NEW s \in Steps,
         NEW i \in Instances, OpAt(s, op[p]), GotoWith(p, s, i)
  PROVE  CommandTypeOK' /\ PcOp'
BY DEF CommandTypeOK, PcOp, OpAt, GotoWith

\* So does a return.
LEMMA ReturnKeepsTypes ==
  ASSUME CommandTypeOK, PcOp, NEW p \in Procs, NEW r \in {"ok", "fail", "abort"},
         Return(p, r)
  PROVE  CommandTypeOK' /\ PcOp'
BY DEF CommandTypeOK, PcOp, OpAt, Return, CreateSteps, LoadSteps, StartSteps,
       StateSteps, StopSteps, DeleteSteps

\* A step that leaves the container alone keeps its types.
LEMMA ContainerUnchanged ==
  ASSUME ContainerTypeOK, InitHasFifo, UNCHANGED containerVars
  PROVE  ContainerTypeOK' /\ InitHasFifo'
BY DEF ContainerTypeOK, InitHasFifo, containerVars

\* The steps of a class belong to the same commands.
LEMMA GotoInClass ==
  ASSUME CommandTypeOK, PcOp, NEW p \in Procs, NEW C \in Classes,
         pc[p] \in C, NEW s \in C, Goto(p, s)
  PROVE  CommandTypeOK' /\ PcOp'
<1> USE DEF CreateSteps, LoadSteps, StartSteps, StateSteps, StopSteps, DeleteSteps
<1>1. OpAt(s, op[p])
  BY DEF Classes, PcOp, OpAt
<1>2. s \in Steps
  BY DEF Classes, Steps, KillSteps
<1> QED BY <1>1, <1>2, GotoKeepsTypes

\* delete and delete --force may go to any step of delete.
LEMMA GotoToDelete ==
  ASSUME CommandTypeOK, PcOp, NEW p \in Procs, op[p] \in {"delete", "force"},
         NEW s \in DeleteSteps, Goto(p, s)
  PROVE  CommandTypeOK' /\ PcOp'
<1> s \in Steps /\ OpAt(s, op[p])
  BY DEF OpAt, Steps, CreateSteps, LoadSteps, StartSteps, StateSteps, StopSteps,
         DeleteSteps
<1> QED BY GotoKeepsTypes

\* A report keeps the types.
LEMMA ReportKeepsTypes ==
  ASSUME CommandTypeOK, PcOp, NEW p \in Procs,
         NEW s \in {"creating", "created", "running", "stopped"}, Report(p, s)
  PROVE  CommandTypeOK' /\ PcOp'
<1>1. Rank[s] \in 0 .. 4
  BY DEF Rank
<1> QED
  BY <1>1 DEF CommandTypeOK, PcOp, OpAt, Report, CreateSteps, LoadSteps, StartSteps,
              StateSteps, StopSteps, DeleteSteps

-----------------------------------------------------------------------------
(***************************************************************************)
(* The steps of a command by what they may change.                         *)
(***************************************************************************)

\* Steps that change nothing but the command itself.
Looks(p) ==
  \/ CheckNotExist(p) \/ StatConfigTmp(p) \/ StatConfig(p) \/ WaitCreated(p)
  \/ CheckCreatedInit(p) \/ LoadCheckDir(p) \/ LoadInfo(p) \/ LoadStatConfig(p)
  \/ LoadConfigFile(p) \/ StartCheckState(p) \/ StartCheckInit(p)
  \/ WaitNotCreated(p) \/ ReadPid(p) \/ GetState(p) \/ GetInitState(p)
  \/ KillCheckState(p) \/ WaitStopped(p) \/ OpenCgroup(p) \/ CgroupDrained(p)
  \/ Signal(p) \/ DeleteCheckState(p) \/ Destroy(p)

\* Steps that change files but neither processes nor the fifo.
ChangesFiles(p) ==
  \/ MakeDir(p) \/ MakeConfigTmp(p) \/ CreateInfo(p) \/ EncodeInfo(p)
  \/ MakeInitDir(p) \/ MakeFifo(p) \/ SaveConfigFile(p) \/ RenameConfig(p)
  \/ CreatePidFile(p) \/ RemoveFile(p) \/ RemoveDir(p)

\* The others.
ChangesProcesses(p) ==
  Launch(p) \/ Stop(p) \/ KillCgroupProcs(p) \/ DeleteCgroup(p) \/ Attach(p)

ChangesFifo(p) == OpenFifo(p) \/ ReadFifo(p) \/ ReadFifoEof(p)

\* Every step is of one of these kinds.
LEMMA StepKinds ==
  ASSUME NEW p \in Procs, Step(p)
  PROVE  Looks(p) \/ ChangesFiles(p) \/ ChangesProcesses(p) \/ ChangesFifo(p)
BY DEF Step, Looks, ChangesFiles, ChangesProcesses, ChangesFifo

\* A look leaves everything outside the command as it is.
LEMMA LooksChangeNothing ==
  ASSUME NEW p \in Procs, Looks(p)
  PROVE  UNCHANGED containerVars
BY DEF Looks, CheckNotExist, StatConfigTmp, StatConfig, WaitCreated,
       CheckCreatedInit, LoadCheckDir, LoadInfo, LoadStatConfig, LoadConfigFile,
       StartCheckState, StartCheckInit, WaitNotCreated, ReadPid, GetState,
       GetInitState, KillCheckState, WaitStopped, OpenCgroup, CgroupDrained,
       Signal, DeleteCheckState, Destroy

\* A change of files leaves processes and fifo as they are.
LEMMA FileStepsChangeFiles ==
  ASSUME NEW p \in Procs, ChangesFiles(p)
  PROVE  UNCHANGED <<processes, fifo>>
BY DEF ChangesFiles, MakeDir, MakeConfigTmp, CreateInfo, EncodeInfo, MakeInitDir,
       MakeFifo, SaveConfigFile, RenameConfig, CreatePidFile, RemoveFile, RemoveDir

\* What a look does to the command keeps the command's types.
LEMMA LooksKeepTypes ==
  ASSUME TypeInv, NEW p \in Procs, Looks(p)
  PROVE  CommandTypeOK' /\ PcOp'
<1> CommandTypeOK /\ PcOp
  BY DEF TypeInv, TypeOK
<1> USE GotoInClass, ReturnKeepsTypes DEF Classes
<1>1. CASE CheckNotExist(p)
  BY <1>1 DEF CheckNotExist, CreateSteps
<1>2. CASE StatConfigTmp(p)
  BY <1>2 DEF StatConfigTmp, CreateSteps
<1>3. CASE StatConfig(p)
  BY <1>3 DEF StatConfig, CreateSteps
<1>4. CASE WaitCreated(p)
  BY <1>4 DEF WaitCreated, CreateSteps
<1>5. CASE CheckCreatedInit(p)
  BY <1>5 DEF CheckCreatedInit, CreateSteps
<1>6. CASE LoadCheckDir(p)
  BY <1>6 DEF LoadCheckDir, LoadSteps
<1>7. CASE StartCheckState(p)
  BY <1>7 DEF StartCheckState, StartSteps
<1>8. CASE StartCheckInit(p)
  BY <1>8 DEF StartCheckInit, StartSteps
<1>9. CASE WaitNotCreated(p)
  BY <1>9 DEF WaitNotCreated, StartSteps
<1>10. CASE ReadPid(p)
  BY <1>10 DEF ReadPid, StateSteps
<1>11. CASE WaitStopped(p)
  BY <1>11 DEF WaitStopped, StopSteps
<1>12. CASE OpenCgroup(p)
  BY <1>12 DEF OpenCgroup, StopSteps
<1>13. CASE Destroy(p)
  BY <1>13 DEF Destroy, DeleteSteps
<1>14. CASE LoadInfo(p)
  <2>1. CASE /\ fs["container.json"] \in encoded
             /\ GotoWith(p, "loadStat", fs["container.json"])
    <3>1. fs["container.json"] \in Instances
      BY <2>1 DEF TypeInv, TypeOK, ContainerTypeOK
    <3>2. OpAt("loadStat", op[p])
      BY <1>14 DEF LoadInfo, PcOp, OpAt, CreateSteps, LoadSteps, StartSteps,
                   StateSteps, StopSteps, DeleteSteps
    <3> QED BY <2>1, <3>1, <3>2, GotoWithKeepsTypes DEF Steps, LoadSteps
  <2>2. CASE IsDelete(p) /\ Goto(p, "removeAll")
    BY <2>2, GotoToDelete DEF IsDelete, DeleteSteps
  <2> QED BY <1>14, <2>1, <2>2 DEF LoadInfo
<1>15. CASE LoadStatConfig(p)
  BY <1>15, GotoToDelete DEF LoadStatConfig, IsDelete, LoadSteps, DeleteSteps
<1>16. CASE LoadConfigFile(p)
  <2>1. CASE Goto(p, AfterLoad[op[p]])
    <3>1. op[p] \in AllOps \ {"create"}
      BY <1>16 DEF LoadConfigFile, PcOp, OpAt, LoadSteps
    <3>2. AfterLoad[op[p]] \in Steps /\ OpAt(AfterLoad[op[p]], op[p])
      BY <3>1 DEF AfterLoad, AllOps, OpAt, Steps, CreateSteps, LoadSteps, StartSteps,
                  StateSteps, KillSteps, StopSteps, DeleteSteps
    <3> QED BY <2>1, <3>2, GotoKeepsTypes
  <2>2. CASE IsDelete(p) /\ Goto(p, "destroy")
    BY <2>2, GotoToDelete DEF IsDelete, DeleteSteps
  <2> QED BY <1>16, <2>1, <2>2 DEF LoadConfigFile
<1>17. CASE GetState(p)
  BY <1>17, ReportKeepsTypes DEF GetState, StateSteps
<1>18. CASE GetInitState(p)
  BY <1>18, ReportKeepsTypes DEF GetInitState
<1>19. CASE KillCheckState(p)
  <2>1. op[p] \in {"kill", "term", "signal"}
    BY <1>19 DEF KillCheckState, PcOp, OpAt
  <2>2. ASSUME NEW s \in {"signal", "stop"}, s = "signal" <=> op[p] = "signal"
        PROVE  s \in Steps /\ OpAt(s, op[p])
    BY <2>1, <2>2 DEF OpAt, Steps, CreateSteps, LoadSteps, StartSteps,
                      StateSteps, KillSteps, StopSteps, DeleteSteps
  <2> QED BY <1>19, <2>1, <2>2, GotoKeepsTypes DEF KillCheckState
<1>20. CASE CgroupDrained(p)
  BY <1>20, GotoToDelete DEF CgroupDrained, IsDelete, DeleteSteps
<1>21. CASE Signal(p)
  BY <1>21 DEF Signal
<1>22. CASE DeleteCheckState(p)
  <2>1. CASE op[p] = "force" /\ Goto(p, "stop")
    <3>1. "stop" \in Steps /\ OpAt("stop", op[p])
      BY <2>1 DEF OpAt, Steps, CreateSteps, LoadSteps, StartSteps,
                  StateSteps, KillSteps, StopSteps, DeleteSteps
    <3> QED BY <2>1, <3>1, GotoKeepsTypes
  <2> QED BY <1>22, <2>1 DEF DeleteCheckState, DeleteSteps
<1> QED
  BY <1>1, <1>2, <1>3, <1>4, <1>5, <1>6, <1>7, <1>8, <1>9, <1>10, <1>11, <1>12,
     <1>13, <1>14, <1>15, <1>16, <1>17, <1>18, <1>19, <1>20, <1>21, <1>22 DEF Looks

\* So does what the other steps do to the command.
LEMMA ChangesKeepCommandTypes ==
  ASSUME TypeInv, NEW p \in Procs,
         ChangesFiles(p) \/ ChangesProcesses(p) \/ ChangesFifo(p)
  PROVE  CommandTypeOK' /\ PcOp'
<1> CommandTypeOK /\ PcOp
  BY DEF TypeInv, TypeOK
<1> USE GotoInClass, ReturnKeepsTypes DEF Classes
<1>1. CASE ChangesFiles(p)
  <2>1. CASE RemoveFile(p)
    BY <2>1 DEF RemoveFile, command, CommandTypeOK, PcOp
  <2> QED
    BY <1>1, <2>1 DEF ChangesFiles, MakeDir, MakeConfigTmp, CreateInfo, EncodeInfo,
         MakeInitDir, MakeFifo, SaveConfigFile, RenameConfig, CreatePidFile,
         RemoveDir, CreateSteps
<1>2. CASE Launch(p)
  BY <1>2 DEF Launch, CreateSteps
<1>3. CASE Stop(p)
  <2>1. ASSUME NEW i \in Instances, GotoWith(p, "waitStopped", i)
        PROVE  CommandTypeOK' /\ PcOp'
    <3>1. "waitStopped" \in Steps /\ OpAt("waitStopped", op[p])
      BY <1>3 DEF Stop, PcOp, OpAt, Steps, CreateSteps, LoadSteps, StartSteps,
                  StateSteps, KillSteps, StopSteps, DeleteSteps
    <3> QED BY <2>1, <3>1, GotoWithKeepsTypes
  <2> QED BY <1>3, <2>1 DEF Stop
<1>4. CASE KillCgroupProcs(p)
  BY <1>4 DEF KillCgroupProcs, command, CommandTypeOK, PcOp
<1>5. CASE DeleteCgroup(p)
  BY <1>5 DEF DeleteCgroup, DeleteSteps
<1>6. CASE Attach(p)
  BY <1>6 DEF Attach
<1>7. CASE OpenFifo(p)
  BY <1>7 DEF OpenFifo, StartSteps
<1>8. CASE ReadFifo(p)
  <2>1. ASSUME NEW i \in Instances, GotoWith(p, "waitNot", i)
        PROVE  CommandTypeOK' /\ PcOp'
    <3>1. "waitNot" \in Steps /\ OpAt("waitNot", op[p])
      BY <1>8 DEF ReadFifo, PcOp, OpAt, Steps, CreateSteps, LoadSteps, StartSteps,
                  StateSteps, StopSteps, DeleteSteps
    <3> QED BY <2>1, <3>1, GotoWithKeepsTypes
  <2>2. PICK m \in pipe : GotoWith(p, "waitNot", m[2])
    BY <1>8 DEF ReadFifo
  <2>3. m[2] \in Instances
    BY DEF TypeInv, TypeOK, ContainerTypeOK
  <2> QED BY <2>1, <2>2, <2>3
<1>9. CASE ReadFifoEof(p)
  BY <1>9 DEF ReadFifoEof
<1> QED
  BY <1>1, <1>2, <1>3, <1>4, <1>5, <1>6, <1>7, <1>8, <1>9
     DEF ChangesProcesses, ChangesFifo

\* Closing the fifo keeps the types of its state.
LEMMA CloseFifoKeepsTypes ==
  ASSUME ContainerTypeOK, NEW p \in Procs, NEW unread \in SUBSET pipe,
         CloseFifo(p, unread)
  PROVE  /\ pipe' \subseteq Instances \X Instances
         /\ rfd' \in [Procs -> Instances \cup {None}]
         /\ rd' \in [Procs -> {"none", "waiting", "open"}]
BY DEF ContainerTypeOK, CloseFifo

\* What the steps do to files, processes and fifo keeps their types.
LEMMA ChangesKeepContainerTypes ==
  ASSUME TypeInv, NEW p \in Procs,
         ChangesFiles(p) \/ ChangesProcesses(p) \/ ChangesFifo(p)
  PROVE  ContainerTypeOK' /\ InitHasFifo'
<1> ContainerTypeOK /\ InitHasFifo
  BY DEF TypeInv, TypeOK
<1>1. inst[p] \in Instances \cup {None}
  BY DEF TypeInv, TypeOK, CommandTypeOK
<1> USE DEF ContainerTypeOK, InitHasFifo, disk, processes, fifo
<1>2. CASE ChangesFiles(p)
  <2>1. CASE EncodeInfo(p) \/ CreatePidFile(p)
    <3>1. inst[p] \in Instances
      BY <2>1 DEF TypeInv, PcOp, OpAt, EncodeInfo, CreatePidFile, CreateSteps
    <3> QED BY <2>1, <3>1 DEF EncodeInfo, CreatePidFile
  <2>2. CASE MakeDir(p) \/ MakeInitDir(p)
    BY <1>1, <2>2 DEF MakeDir, MakeInitDir
  <2>3. CASE MakeConfigTmp(p) \/ CreateInfo(p) \/ MakeFifo(p) \/ SaveConfigFile(p)
    BY <1>1, <2>3 DEF MakeConfigTmp, CreateInfo, MakeFifo, SaveConfigFile, Make
  <2>4. CASE RenameConfig(p)
    BY <2>4 DEF RenameConfig, Files
  <2>5. CASE RemoveFile(p) \/ RemoveDir(p)
    BY <2>5 DEF RemoveFile, RemoveDir
  <2> QED BY <1>2, <2>1, <2>2, <2>3, <2>4, <2>5 DEF ChangesFiles
<1>3. CASE Launch(p)
  BY <1>3 DEF Launch, MonStates
<1>4. CASE Stop(p)
  BY <1>4 DEF Stop, MonStates, InitStates, Alive, Created
<1>5. CASE KillCgroupProcs(p)
  BY <1>5 DEF KillCgroupProcs, MonStates, InitStates
<1>6. CASE DeleteCgroup(p)
  BY <1>6 DEF DeleteCgroup
<1>7. CASE Attach(p)
  BY <1>7 DEF Attach
<1>8. CASE OpenFifo(p)
  BY <1>8 DEF OpenFifo, Writes, InitStates, Files
<1>9. CASE ReadFifo(p)
  <2>1. PICK m \in pipe : /\ acks' = [acks EXCEPT ![m[2]] = @ + 1]
                          /\ CloseFifo(p, pipe \ {m})
    BY <1>9 DEF ReadFifo
  <2>2. acks' \in [Instances -> Nat]
    BY <2>1
  <2> QED BY <1>9, <2>1, <2>2, CloseFifoKeepsTypes DEF ReadFifo
<1>10. CASE ReadFifoEof(p)
  BY <1>10, CloseFifoKeepsTypes DEF ReadFifoEof
<1> QED
  BY <1>2, <1>3, <1>4, <1>5, <1>6, <1>7, <1>8, <1>9, <1>10
     DEF ChangesProcesses, ChangesFifo

\* So does what monitor, init and kernel do by themselves.
LEMMA ProgressKeepsTypes ==
  ASSUME ContainerTypeOK, InitHasFifo, NEW i \in Instances, Progress(i) \/ Accident(i)
  PROVE  ContainerTypeOK' /\ InitHasFifo'
<1> USE DEF ContainerTypeOK, InitHasFifo, disk, fifo
<1>1. CASE StartLoadsConfig(i)
  BY <1>1 DEF StartLoadsConfig, MonStates
<1>2. CASE StartFails(i) \/ SetupFails(i)
  BY <1>2 DEF StartFails, SetupFails, MonStates
<1>3. CASE SetRunning(i) \/ MonitorExits(i)
  BY <1>3 DEF SetRunning, MonitorExits, MonStates
<1>4. CASE MonitorReaps(i)
  BY <1>4 DEF MonitorReaps, MonStates, InitStates
<1>5. CASE SpawnInit(i)
  BY <1>5 DEF SpawnInit, InitStates, Files
<1>6. CASE InitReady(i)
  BY <1>6 DEF InitReady, InitStates
<1>7. CASE InitWrites(i)
  <2>1. initFifo[i] \in Instances
    BY <1>7 DEF InitWrites
  <2> QED BY <1>7, <2>1 DEF InitWrites, InitStates
<1>8. CASE InitFails(i) \/ InitBrokenPipe(i) \/ InitExec(i) \/ InitDies(i)
  BY <1>8 DEF InitFails, InitBrokenPipe, InitExec, InitDies, InitStates
<1>9. CASE Forks(i) \/ StrayExits(i)
  BY <1>9 DEF Forks, StrayExits
<1> QED BY <1>1, <1>2, <1>3, <1>4, <1>5, <1>6, <1>7, <1>8, <1>9 DEF Progress, Accident

\* No step of Next leaves the types.
LEMMA NextKeepsTypes ==
  ASSUME TypeInv, [Next]_vars
  PROVE  TypeInv'
<1> ContainerTypeOK /\ CommandTypeOK /\ PcOp /\ InitHasFifo
  BY DEF TypeInv, TypeOK
<1> SUFFICES ContainerTypeOK' /\ CommandTypeOK' /\ PcOp' /\ InitHasFifo'
  BY DEF TypeInv, TypeOK
<1>1. ASSUME NEW p \in Procs, InvokeCreate(p) \/ Invoke(p)
      PROVE  ContainerTypeOK' /\ CommandTypeOK' /\ PcOp' /\ InitHasFifo'
  <2>1. UNCHANGED containerVars
    BY <1>1 DEF InvokeCreate, Invoke
  <2>2. ASSUME InvokeCreate(p) PROVE CommandTypeOK' /\ PcOp'
    BY <2>2 DEF InvokeCreate, CommandTypeOK, PcOp, OpAt, AllOps, Steps, CreateSteps,
                LoadSteps, StartSteps, StateSteps, StopSteps, DeleteSteps
  <2>3. ASSUME Invoke(p) PROVE CommandTypeOK' /\ PcOp'
    BY <2>3, OpsAssumption DEF Invoke, CommandTypeOK, PcOp, OpAt, AllOps, Steps,
         CreateSteps, LoadSteps, StartSteps, StateSteps, StopSteps, DeleteSteps
  <2> QED BY <1>1, <2>1, <2>2, <2>3, ContainerUnchanged
<1>2. ASSUME NEW p \in Procs, Step(p)
      PROVE  ContainerTypeOK' /\ CommandTypeOK' /\ PcOp' /\ InitHasFifo'
  BY <1>2, StepKinds, LooksKeepTypes, LooksChangeNothing, ContainerUnchanged,
     ChangesKeepCommandTypes, ChangesKeepContainerTypes
<1>3. ASSUME NEW p \in Procs, Timeout(p) \/ Abort(p)
      PROVE  ContainerTypeOK' /\ CommandTypeOK' /\ PcOp' /\ InitHasFifo'
  <2>1. ContainerTypeOK' /\ InitHasFifo'
    <3>1. CloseFifo(p, pipe) /\ UNCHANGED <<released, acks, disk, processes>>
      BY <1>3 DEF Timeout, Abort
    <3> QED BY <3>1, CloseFifoKeepsTypes
            DEF ContainerTypeOK, InitHasFifo, disk, processes
  <2>2. ASSUME Timeout(p) PROVE CommandTypeOK' /\ PcOp'
    BY <2>2, ReturnKeepsTypes DEF Timeout
  <2>3. ASSUME Abort(p) PROVE CommandTypeOK' /\ PcOp'
    BY <2>3, MaxAbortsAssumption
       DEF Abort, CommandTypeOK, PcOp, OpAt, CreateSteps, LoadSteps, StartSteps,
           StateSteps, StopSteps, DeleteSteps
  <2> QED BY <1>3, <2>1, <2>2, <2>3
<1>4. ASSUME NEW i \in Instances, Progress(i) \/ Accident(i), UNCHANGED command
      PROVE  ContainerTypeOK' /\ CommandTypeOK' /\ PcOp' /\ InitHasFifo'
  BY <1>4, ProgressKeepsTypes DEF command, CommandTypeOK, PcOp
<1>5. CASE UNCHANGED vars
  BY <1>5 DEF vars, ContainerTypeOK, CommandTypeOK, PcOp, InitHasFifo
<1> QED BY <1>1, <1>2, <1>3, <1>4, <1>5 DEF Next

\* The initial states have the types.
LEMMA InitTypes ==
  ASSUME Init
  PROVE  TypeInv
<1>1. ContainerTypeOK /\ InitHasFifo
  BY DEF Init, ContainerInit, ContainerTypeOK, InitHasFifo, MonStates, InitStates
<1>2. CommandTypeOK
  BY MaxAbortsAssumption DEF Init, CommandTypeOK
<1>3. PcOp
  BY DEF Init, PcOp, OpAt, CreateSteps, LoadSteps, StartSteps, StateSteps,
         StopSteps, DeleteSteps
<1> QED BY <1>1, <1>2, <1>3 DEF TypeInv, TypeOK

\* Every variable keeps its type in every behaviour, for any number of slots,
\* instances, aborted commands and any choice of the commands invoked.
THEOREM TypeCorrect == Spec => []TypeOK
<1>1. TypeInv => TypeOK
  BY DEF TypeInv
<1> QED BY <1>1, InitTypes, NextKeepsTypes, PTL DEF Spec

-----------------------------------------------------------------------------
(***************************************************************************)
(* Monitors and inits.                                                     *)
(***************************************************************************)

\* At most one monitor answers for the container's name.
OneOwner == \A i, j \in Instances : Owns(i) /\ Owns(j) => i = j

\* An init that is not reaped has a monitor that waits for it, and a monitor that
\* has not started, or says RUNNING, has no init or has one.
InitHasMonitor ==
  \A i \in Instances :
    /\ init[i] \in Alive \cup {"zombie"} => mon[i] \in {"starting", "running"}
    /\ mon[i] \in {"none", "exec"} => init[i] = "none"
    /\ mon[i] = "running" => init[i] # "none"

PreLaunch == CreateSteps \ {"waitCreated", "createdInit", "createPid"}

\* An instance belongs to one create command, which starts its monitor once.
CreateOwns ==
  /\ \A p \in Procs : pc[p] \in CreateSteps => inst[p] \in used
  /\ \A p, q \in Procs :
       pc[p] \in CreateSteps /\ pc[q] \in CreateSteps /\ inst[p] = inst[q] => p = q
  /\ \A p \in Procs : pc[p] \in PreLaunch => mon[inst[p]] = "none"
  /\ \A i \in Instances : mon[i] # "none" => i \in used

ProcInv == OneOwner /\ InitHasMonitor /\ CreateOwns

\* The steps of a command that touch a monitor or an init.
TouchesInit(p) == Launch(p) \/ Stop(p) \/ KillCgroupProcs(p) \/ OpenFifo(p)

\* Nothing else does, besides monitors, inits and the kernel themselves.
LEMMA OthersLeaveInit ==
  ASSUME NEW p \in Procs,
         InvokeCreate(p) \/ Invoke(p) \/ Step(p) \/ Timeout(p) \/ Abort(p),
         ~TouchesInit(p)
  PROVE  UNCHANGED <<mon, init, initFifo>>
<1>1. CASE Looks(p) \/ ChangesFiles(p)
  BY <1>1, LooksChangeNothing, FileStepsChangeFiles DEF containerVars, processes
<1>2. CASE DeleteCgroup(p) \/ Attach(p) \/ ReadFifo(p) \/ ReadFifoEof(p)
  BY <1>2 DEF DeleteCgroup, Attach, ReadFifo, ReadFifoEof, processes
<1>3. CASE InvokeCreate(p) \/ Invoke(p) \/ Timeout(p) \/ Abort(p)
  BY <1>3 DEF InvokeCreate, Invoke, Timeout, Abort, containerVars, processes
<1> QED
  BY <1>1, <1>2, <1>3, StepKinds DEF TouchesInit, ChangesProcesses, ChangesFifo

\* Commands, monitors and inits keep one owner and its init together.
LEMMA NextKeepsOwner ==
  ASSUME TypeInv, ProcInv, [Next]_vars
  PROVE  OneOwner' /\ InitHasMonitor'
<1> mon \in [Instances -> MonStates] /\ init \in [Instances -> InitStates]
  BY DEF TypeInv, TypeOK, ContainerTypeOK
<1> OneOwner /\ InitHasMonitor
  BY DEF ProcInv
<1> USE DEF OneOwner, InitHasMonitor, Owns, Alive, Created
<1>1. ASSUME UNCHANGED <<mon, init>> PROVE OneOwner' /\ InitHasMonitor'
  BY <1>1
<1>2. ASSUME NEW i \in Instances, Progress(i) PROVE OneOwner' /\ InitHasMonitor'
  <2>1. CASE StartLoadsConfig(i) \/ StartFails(i) \/ SetupFails(i) \/ SetRunning(i)
    BY <2>1 DEF StartLoadsConfig, StartFails, SetupFails, SetRunning, LxcStopped
  <2>2. CASE MonitorReaps(i) \/ MonitorExits(i)
    BY <2>2 DEF MonitorReaps, MonitorExits, InitStates
  <2>3. CASE SpawnInit(i) \/ InitReady(i) \/ InitFails(i)
    BY <2>3 DEF SpawnInit, InitReady, InitFails
  <2>4. CASE InitWrites(i) \/ InitBrokenPipe(i) \/ InitExec(i)
    BY <2>4 DEF InitWrites, InitBrokenPipe, InitExec
  <2> QED BY <1>2, <2>1, <2>2, <2>3, <2>4 DEF Progress
<1>3. ASSUME NEW i \in Instances, Accident(i) PROVE OneOwner' /\ InitHasMonitor'
  BY <1>3 DEF Accident, InitDies, Forks, StrayExits
<1>4. ASSUME NEW p \in Procs, Launch(p) PROVE OneOwner' /\ InitHasMonitor'
  <2>1. mon[inst[p]] = "none" /\ inst[p] \in Instances
    BY <1>4 DEF TypeInv, PcOp, OpAt, ProcInv, CreateOwns, Launch, PreLaunch, CreateSteps
  <2> QED BY <1>4, <2>1 DEF Launch
<1>5. ASSUME NEW p \in Procs, Stop(p) PROVE OneOwner' /\ InitHasMonitor'
  BY <1>5 DEF Stop
<1>6. ASSUME NEW p \in Procs, KillCgroupProcs(p) PROVE OneOwner' /\ InitHasMonitor'
  BY <1>6 DEF KillCgroupProcs, InCgroup
<1>7. ASSUME NEW p \in Procs, OpenFifo(p) PROVE OneOwner' /\ InitHasMonitor'
  BY <1>7 DEF OpenFifo, Writes
<1>8. CASE UNCHANGED vars
  BY <1>8 DEF vars
<1> QED
  BY <1>1, <1>2, <1>3, <1>4, <1>5, <1>6, <1>7, <1>8, OthersLeaveInit
     DEF Next, TouchesInit

-----------------------------------------------------------------------------
(***************************************************************************)
(* A container's life only goes forward.                                   *)
(***************************************************************************)

\* The user program was executed or will never be; init is through the fifo.
Left == {"user", "zombie", "gone"}
Past == Left \cup {"written"}

Forward ==
  \A i \in Instances :
    /\ mon[i] # "none" => mon'[i] # "none"
    /\ mon[i] \notin {"none", "exec"} => mon'[i] \notin {"none", "exec"}
    /\ mon[i] = "exited" => mon'[i] = "exited" /\ (i \notin stray => i \notin stray')
    /\ init[i] \in Past => init'[i] \in Past
    /\ init[i] \in Left => init'[i] \in Left

\* No step takes a monitor or an init back, and the cgroup of a container whose
\* monitor exited gets no new process.
LEMMA LifeGoesForward ==
  ASSUME TypeInv, ProcInv, [Next]_vars
  PROVE  Forward
<1> mon \in [Instances -> MonStates] /\ init \in [Instances -> InitStates]
  BY DEF TypeInv, TypeOK, ContainerTypeOK
<1> InitHasMonitor
  BY DEF ProcInv
<1> USE DEF Forward, Past, Left
<1>1. ASSUME NEW i \in Instances, Progress(i) PROVE Forward
  <2>1. CASE StartLoadsConfig(i) \/ StartFails(i) \/ SetupFails(i) \/ SetRunning(i)
    BY <2>1 DEF StartLoadsConfig, StartFails, SetupFails, SetRunning
  <2>2. CASE MonitorReaps(i) \/ MonitorExits(i)
    BY <2>2 DEF MonitorReaps, MonitorExits, Owns
  <2>3. CASE SpawnInit(i) \/ InitReady(i) \/ InitFails(i)
    BY <2>3 DEF SpawnInit, InitReady, InitFails
  <2>4. CASE InitWrites(i) \/ InitBrokenPipe(i) \/ InitExec(i)
    BY <2>4 DEF InitWrites, InitBrokenPipe, InitExec
  <2> QED BY <1>1, <2>1, <2>2, <2>3, <2>4 DEF Progress
<1>2. ASSUME NEW i \in Instances, Accident(i) PROVE Forward
  BY <1>2 DEF Accident, InitDies, Forks, StrayExits, InitHasMonitor, Alive
<1>3. ASSUME NEW p \in Procs, Launch(p) PROVE Forward
  <2>1. mon[inst[p]] = "none" /\ inst[p] \in Instances
    BY <1>3 DEF TypeInv, PcOp, OpAt, ProcInv, CreateOwns, Launch, PreLaunch, CreateSteps
  <2> QED BY <1>3, <2>1 DEF Launch
<1>4. ASSUME NEW p \in Procs, Stop(p) PROVE Forward
  BY <1>4 DEF Stop, Owns
<1>5. ASSUME NEW p \in Procs, KillCgroupProcs(p) PROVE Forward
  BY <1>5 DEF KillCgroupProcs, InCgroup, Owns
<1>6. ASSUME NEW p \in Procs, OpenFifo(p) PROVE Forward
  BY <1>6 DEF OpenFifo, Writes
<1>7. ASSUME NEW p \in Procs,
             InvokeCreate(p) \/ Invoke(p) \/ Step(p) \/ Timeout(p) \/ Abort(p),
             ~TouchesInit(p)
      PROVE  Forward
  <2>1. UNCHANGED <<mon, init>>
    BY <1>7, OthersLeaveInit
  <2>2. UNCHANGED stray \/ Attach(p)
    <3>1. CASE Looks(p) \/ ChangesFiles(p)
      BY <3>1, LooksChangeNothing, FileStepsChangeFiles DEF containerVars, processes
    <3>2. CASE DeleteCgroup(p) \/ ReadFifo(p) \/ ReadFifoEof(p)
      BY <3>2 DEF DeleteCgroup, ReadFifo, ReadFifoEof, processes
    <3>3. CASE InvokeCreate(p) \/ Invoke(p) \/ Timeout(p) \/ Abort(p)
      BY <3>3 DEF InvokeCreate, Invoke, Timeout, Abort, containerVars, processes
    <3> QED BY <1>7, <3>1, <3>2, <3>3, StepKinds
            DEF TouchesInit, ChangesProcesses, ChangesFifo
  <2> QED BY <2>1, <2>2 DEF Attach, Owns
<1>8. CASE UNCHANGED vars
  BY <1>8 DEF vars
<1> QED
  BY <1>1, <1>2, <1>3, <1>4, <1>5, <1>6, <1>7, <1>8 DEF Next, TouchesInit

-----------------------------------------------------------------------------
(***************************************************************************)
(* Where a command can go in one step.                                     *)
(***************************************************************************)

Stopping == {"waitStopped", "drain", "drainLoop"}

Turn(p) ==
  /\ op' = op /\ used' = used
  /\ \A q \in Procs \ {p} : pc'[q] = pc[q] /\ inst'[q] = inst[q] /\ res'[q] = res[q]
  /\ pc'[p] \in CreateSteps => pc[p] \in CreateSteps /\ inst'[p] = inst[p]
  /\ pc'[p] \in PreLaunch => pc[p] \in PreLaunch
  /\ pc'[p] \in Stopping => Stop(p) \/ (pc[p] \in Stopping /\ inst'[p] = inst[p])
  /\ pc'[p] = "waitNot" => ReadFifo(p)
  /\ pc'[p] = "idle" /\ res'[p] = "ok"
       => /\ op[p] = "start" => WaitNotCreated(p)
          /\ op[p] \in {"kill", "term"} => CgroupDrained(p)

\* The steps of create stay in create and do not go back before the launch.
LEMMA CreateTurns ==
  ASSUME TypeInv, NEW p \in Procs,
         \/ CheckNotExist(p) \/ MakeDir(p) \/ MakeConfigTmp(p) \/ CreateInfo(p)
         \/ EncodeInfo(p) \/ MakeInitDir(p) \/ MakeFifo(p) \/ StatConfigTmp(p)
         \/ StatConfig(p) \/ SaveConfigFile(p) \/ RenameConfig(p) \/ Launch(p)
         \/ WaitCreated(p) \/ CheckCreatedInit(p) \/ CreatePidFile(p)
  PROVE  Turn(p)
<1> pc \in [Procs -> Steps \cup {"idle"}] /\ OpAt(pc[p], op[p])
    /\ res \in [Procs -> {"none", "ok", "fail", "abort"}]
    /\ inst \in [Procs -> Instances \cup {None}]
  BY DEF TypeInv, TypeOK, CommandTypeOK, PcOp
<1>1. PICK r \in {"ok", "fail"}, s \in CreateSteps :
        /\ pc[p] \in CreateSteps
        /\ s \in PreLaunch => pc[p] \in PreLaunch
        /\ Return(p, r) \/ Goto(p, s)
  BY DEF CheckNotExist, MakeDir, MakeConfigTmp, CreateInfo, EncodeInfo, MakeInitDir,
         MakeFifo, StatConfigTmp, StatConfig, SaveConfigFile, RenameConfig, Launch,
         WaitCreated, CheckCreatedInit, CreatePidFile, CreateSteps, PreLaunch
<1>2. op[p] = "create"
  BY <1>1 DEF OpAt
<1> QED
  BY <1>1, <1>2 DEF Turn, Return, Goto, CreateSteps, PreLaunch, Stopping

\* The other steps of a command, its deadline and its death.
LEMMA CommandTurns ==
  ASSUME TypeInv, NEW p \in Procs, Step(p) \/ Timeout(p) \/ Abort(p)
  PROVE  Turn(p)
<1> pc \in [Procs -> Steps \cup {"idle"}] /\ OpAt(pc[p], op[p])
    /\ res \in [Procs -> {"none", "ok", "fail", "abort"}]
    /\ inst \in [Procs -> Instances \cup {None}]
  BY DEF TypeInv, TypeOK, CommandTypeOK, PcOp
<1> USE DEF Turn, Return, Goto, GotoWith, CreateSteps, PreLaunch, Stopping
<1>1. CASE LoadCheckDir(p) \/ LoadInfo(p) \/ LoadStatConfig(p)
  BY <1>1 DEF LoadCheckDir, LoadInfo, LoadStatConfig, IsDelete
<1>2. CASE LoadConfigFile(p)
  <2>1. op[p] \in AllOps \ {"create"}
    BY <1>2 DEF LoadConfigFile, OpAt, LoadSteps
  <2>2. AfterLoad[op[p]] \in {"startState", "readPid", "killState", "deleteState", "attach"}
    BY <2>1 DEF AfterLoad, AllOps
  <2> QED BY <1>2, <2>2 DEF LoadConfigFile, IsDelete
<1>3. CASE \/ StartCheckState(p) \/ StartCheckInit(p) \/ OpenFifo(p) \/ ReadFifo(p)
           \/ ReadFifoEof(p)
  BY <1>3 DEF StartCheckState, StartCheckInit, OpenFifo, ReadFifo, ReadFifoEof
<1>4. CASE WaitNotCreated(p)
  BY <1>4 DEF WaitNotCreated, OpAt, StartSteps
<1>5. CASE ReadPid(p) \/ GetState(p) \/ GetInitState(p)
  BY <1>5 DEF ReadPid, GetState, GetInitState, Report, OpAt, StateSteps
<1>6. CASE KillCheckState(p) \/ Stop(p) \/ WaitStopped(p) \/ OpenCgroup(p)
  BY <1>6 DEF KillCheckState, Stop, WaitStopped, OpenCgroup
<1>7. CASE KillCgroupProcs(p) \/ RemoveFile(p)
  BY <1>7 DEF KillCgroupProcs, RemoveFile, command
<1>8. CASE CgroupDrained(p)
  BY <1>8 DEF CgroupDrained, IsDelete, OpAt, StopSteps
<1>9. CASE Signal(p) \/ Attach(p)
  BY <1>9 DEF Signal, Attach, OpAt
<1>10. CASE DeleteCheckState(p) \/ Destroy(p) \/ DeleteCgroup(p) \/ RemoveDir(p)
  BY <1>10 DEF DeleteCheckState, Destroy, DeleteCgroup, RemoveDir, OpAt, DeleteSteps
<1>11. CASE Timeout(p) \/ Abort(p)
  BY <1>11 DEF Timeout, Abort
<1> QED
  BY <1>1, <1>2, <1>3, <1>4, <1>5, <1>6, <1>7, <1>8, <1>9, <1>10, <1>11, CreateTurns
     DEF Step

\* An invocation leaves the other commands alone.
LEMMA InvokeTurns ==
  ASSUME TypeInv, NEW p \in Procs, InvokeCreate(p) \/ Invoke(p)
  PROVE  /\ used \subseteq used'
         /\ \A q \in Procs \ {p} : /\ pc'[q] = pc[q] /\ inst'[q] = inst[q]
                                   /\ res'[q] = res[q] /\ op'[q] = op[q]
         /\ res'[p] = "none"
         /\ pc'[p] = "check" \/ pc'[p] = "load"
         /\ pc'[p] = "check" => inst'[p] \in used' \ used
BY DEF InvokeCreate, Invoke, TypeInv, TypeOK, CommandTypeOK

\* An instance keeps its one create command.
LEMMA NextKeepsCreateOwns ==
  ASSUME TypeInv, ProcInv, [Next]_vars
  PROVE  CreateOwns'
<1> used \subseteq Instances /\ mon \in [Instances -> MonStates]
  BY DEF TypeInv, TypeOK, CommandTypeOK, ContainerTypeOK
<1> CreateOwns
  BY DEF ProcInv
<1>1. ASSUME NEW p \in Procs, InvokeCreate(p) \/ Invoke(p) PROVE CreateOwns'
  <2>1. mon' = mon
    BY <1>1, OthersLeaveInit DEF TouchesInit, Launch, Stop, KillCgroupProcs, OpenFifo,
                                 InvokeCreate, Invoke
  <2>2. \A i \in Instances : mon'[i] # "none" => i \in used'
    BY <1>1, <2>1, InvokeTurns DEF CreateOwns
  <2>3. pc'[p] \in CreateSteps => inst'[p] \in used' \ used
    BY <1>1, InvokeTurns DEF CreateSteps
  <2>4. pc'[p] \in CreateSteps => mon'[inst'[p]] = "none"
    BY <1>1, <2>1, <2>3 DEF CreateOwns, InvokeCreate, Invoke
  <2>5. \A q \in Procs \ {p} : pc'[q] = pc[q] /\ inst'[q] = inst[q]
    BY <1>1, InvokeTurns
  <2>6. used \subseteq used'
    BY <1>1, InvokeTurns
  <2> QED BY <2>1, <2>2, <2>3, <2>4, <2>5, <2>6 DEF CreateOwns, PreLaunch
<1>2. ASSUME NEW p \in Procs, Step(p) \/ Timeout(p) \/ Abort(p), ~Launch(p)
      PROVE  CreateOwns'
  <2>1. \A i \in Instances : mon[i] = "none" <=> mon'[i] = "none"
    <3>1. CASE UNCHANGED mon
      BY <3>1
    <3>2. CASE Stop(p)
      BY <3>2 DEF Stop, Owns
    <3>3. CASE KillCgroupProcs(p)
      BY <3>3 DEF KillCgroupProcs, Owns
    <3>4. CASE OpenFifo(p)
      BY <3>4 DEF OpenFifo
    <3> QED BY <1>2, <3>1, <3>2, <3>3, <3>4, OthersLeaveInit DEF TouchesInit
  <2> QED BY <1>2, <2>1, CommandTurns DEF CreateOwns, Turn, PreLaunch
<1>3. ASSUME NEW p \in Procs, Launch(p) PROVE CreateOwns'
  <2>1. Turn(p)
    BY <1>3, CreateTurns
  <2>2. pc[p] = "launch" /\ pc'[p] \in {"waitCreated", "idle"}
        /\ \A i \in Instances \ {inst[p]} : mon'[i] = mon[i]
    BY <1>3 DEF Launch, Goto, Return, TypeInv, TypeOK, CommandTypeOK
  <2>3. \A i \in Instances : mon'[i] # "none" => i \in used
    BY <2>2 DEF CreateOwns, CreateSteps
  <2> QED BY <2>1, <2>2, <2>3 DEF CreateOwns, Turn, PreLaunch, CreateSteps
<1>4. ASSUME NEW i \in Instances, Progress(i) \/ Accident(i), UNCHANGED command
      PROVE  CreateOwns'
  <2>1. \A j \in Instances : mon[j] = "none" <=> mon'[j] = "none"
    BY <1>4 DEF Progress, Accident, StartLoadsConfig, StartFails, SpawnInit, SetupFails,
       SetRunning, MonitorReaps, MonitorExits, InitReady, InitFails, InitWrites,
       InitBrokenPipe, InitExec, InitDies, Forks, StrayExits, Owns
  <2> QED BY <1>4, <2>1 DEF CreateOwns, command, PreLaunch
<1>5. CASE UNCHANGED vars
  BY <1>5 DEF vars, CreateOwns
<1> QED BY <1>1, <1>2, <1>3, <1>4, <1>5 DEF Next, Step

-----------------------------------------------------------------------------
(***************************************************************************)
(* What start and kill know of the container they act on.                  *)
(***************************************************************************)

\* From the message it read a start knows that its init is past the fifo; when it
\* returns, that init has left the created state.
StartInv(p) ==
  /\ pc[p] = "waitNot" => inst[p] \in Instances /\ init[inst[p]] \in Past
  /\ Returned(p, "start", "ok") => inst[p] \in Instances /\ init[inst[p]] \in Left

\* A kill has signalled a container that had started; when it returns, the monitor
\* has exited and nothing is left in the cgroup.
KillInv(p) ==
  /\ pc[p] \in Stopping => inst[p] \in Instances /\ mon[inst[p]] \notin {"none", "exec"}
  /\ Returned(p, "kill", "ok") \/ Returned(p, "term", "ok")
       => inst[p] \in Instances /\ mon[inst[p]] = "exited" /\ inst[p] \notin stray

CommandInv == \A p \in Procs : StartInv(p) /\ KillInv(p)

\* What a command knows stays true while others act.
LEMMA OthersKeepCommandInv ==
  ASSUME CommandInv, Forward, NEW q \in Procs, pc'[q] = pc[q], inst'[q] = inst[q],
         res'[q] = res[q], op'[q] = op[q]
  PROVE  StartInv(q)' /\ KillInv(q)'
BY DEF CommandInv, StartInv, KillInv, Returned, Forward

\* The message that a start reads comes from an init that is past the fifo.
MessagesInv ==
  \A m \in pipe : m[1] = initFifo[m[2]] /\ init[m[2]] \in Past /\ acks[m[2]] = 0

\* start and kill learn what StartInv and KillInv say.
LEMMA NextKeepsCommandInv ==
  ASSUME TypeInv, ProcInv, MessagesInv, CommandInv, [Next]_vars
  PROVE  CommandInv'
<1> Forward
  BY LifeGoesForward
<1> SUFFICES ASSUME NEW q \in Procs PROVE StartInv(q)' /\ KillInv(q)'
  BY DEF CommandInv
<1>1. ASSUME NEW p \in Procs, InvokeCreate(p) \/ Invoke(p)
      PROVE  StartInv(q)' /\ KillInv(q)'
  <2>1. CASE q # p
    BY <1>1, <2>1, InvokeTurns, OthersKeepCommandInv
  <2>2. CASE q = p
    BY <1>1, <2>2, InvokeTurns DEF StartInv, KillInv, Returned, Stopping
  <2> QED BY <2>1, <2>2
<1>2. ASSUME NEW p \in Procs, Step(p) \/ Timeout(p) \/ Abort(p)
      PROVE  StartInv(q)' /\ KillInv(q)'
  <2>1. Turn(p)
    BY <1>2, CommandTurns
  <2>2. CASE q # p
    BY <2>1, <2>2, OthersKeepCommandInv DEF Turn
  <2>3. CASE q = p
    <3>1. pc'[p] = "waitNot" => inst'[p] \in Instances /\ init'[inst'[p]] \in Past
      <4> SUFFICES ASSUME ReadFifo(p)
                   PROVE  inst'[p] \in Instances /\ init'[inst'[p]] \in Past
        BY <2>1 DEF Turn
      <4>1. PICK m \in pipe : GotoWith(p, "waitNot", m[2])
        BY DEF ReadFifo
      <4>2. inst'[p] = m[2] /\ init' = init
        BY <4>1 DEF GotoWith, ReadFifo, processes, TypeInv, TypeOK, CommandTypeOK
      <4> QED BY <4>2 DEF MessagesInv, TypeInv, TypeOK, ContainerTypeOK
    <3>2. Returned(p, "start", "ok")' => inst'[p] \in Instances /\ init'[inst'[p]] \in Left
      <4> SUFFICES ASSUME WaitNotCreated(p)
                   PROVE  inst'[p] \in Instances /\ init'[inst'[p]] \in Left
        BY <2>1 DEF Turn, Returned
      <4>1. inst'[p] \in Instances /\ init'[inst'[p]] \in Past
            /\ inst' = inst /\ init' = init /\ ~InitStateIs("created")
        BY DEF CommandInv, StartInv, WaitNotCreated, Return, containerVars
      <4>2. init[inst[p]] # "written"
        <5> SUFFICES ASSUME init[inst[p]] = "written" PROVE FALSE
          OBVIOUS
        <5>1. Owns(inst[p])
          BY <4>1 DEF ProcInv, InitHasMonitor, Owns, Alive, Created
        <5>2. InitStatus(inst[p]) = "created"
          BY DEF InitStatus, Created
        <5> QED BY <4>1, <5>1, <5>2 DEF InitStateIs, LxcStopped
      <4> QED BY <4>1, <4>2 DEF Past
    <3>3. pc'[p] \in Stopping
            => inst'[p] \in Instances /\ mon'[inst'[p]] \notin {"none", "exec"}
      <4>1. CASE Stop(p) /\ pc'[p] \in Stopping
        <5>1. PICK i \in Instances : Owns(i) /\ GotoWith(p, "waitStopped", i)
          BY <4>1 DEF Stop, Return, Stopping, TypeInv, TypeOK, CommandTypeOK
        <5>2. inst'[p] = i /\ mon[i] \notin {"none", "exec"}
          BY <5>1 DEF GotoWith, Owns, TypeInv, TypeOK, CommandTypeOK
        <5> QED BY <5>2 DEF Forward
      <4>2. CASE pc[p] \in Stopping /\ inst'[p] = inst[p]
        BY <4>2 DEF CommandInv, KillInv, Forward
      <4> QED BY <2>1, <4>1, <4>2 DEF Turn
    <3>4. Returned(p, "kill", "ok")' \/ Returned(p, "term", "ok")'
            => inst'[p] \in Instances /\ mon'[inst'[p]] = "exited" /\ inst'[p] \notin stray'
      <4> SUFFICES ASSUME CgroupDrained(p), op[p] \in {"kill", "term"},
                          pc'[p] = "idle", res'[p] = "ok"
                   PROVE  /\ inst'[p] \in Instances
                          /\ mon'[inst'[p]] = "exited" /\ inst'[p] \notin stray'
        BY <2>1 DEF Turn, Returned
      <4>1. ~Populated /\ pc[p] = "drainLoop" /\ inst' = inst
            /\ mon' = mon /\ stray' = stray
        BY DEF CgroupDrained, IsDelete, Return, containerVars, TypeInv, TypeOK, CommandTypeOK
      <4>2. inst[p] \in Instances /\ mon[inst[p]] \notin {"none", "exec"}
        BY <4>1 DEF CommandInv, KillInv, Stopping
      <4> QED BY <4>1, <4>2
              DEF Populated, InCgroup, Owns, TypeInv, TypeOK, ContainerTypeOK, MonStates
    <3> QED BY <2>3, <3>1, <3>2, <3>3, <3>4 DEF StartInv, KillInv
  <2> QED BY <2>2, <2>3
<1>3. ASSUME NEW i \in Instances, Progress(i) \/ Accident(i), UNCHANGED command
      PROVE  StartInv(q)' /\ KillInv(q)'
  BY <1>3, OthersKeepCommandInv DEF command
<1>4. CASE UNCHANGED vars
  BY <1>4, OthersKeepCommandInv DEF vars
<1> QED BY <1>1, <1>2, <1>3, <1>4 DEF Next

-----------------------------------------------------------------------------
(***************************************************************************)
(* The syncfifo.                                                           *)
(***************************************************************************)

ReadersInv == \A p \in Procs : rfd[p] # None => rfd[p] \in released

FifoInv == ReadersInv /\ MessagesInv /\ NoRunBeforeStart /\ StartAcknowledgedOnce

\* Closing the fifo only takes messages and a reader away.
LEMMA CloseFifoKeepsReaders ==
  ASSUME ContainerTypeOK, ReadersInv, NEW p \in Procs, NEW unread \in SUBSET pipe,
         CloseFifo(p, unread), released' = released
  PROVE  pipe' \subseteq unread /\ ReadersInv'
BY DEF ContainerTypeOK, ReadersInv, CloseFifo

\* One message per init, read once, and nobody past the fifo without a reader.
LEMMA NextKeepsFifoInv ==
  ASSUME TypeInv, FifoInv, [Next]_vars
  PROVE  FifoInv'
<1> ContainerTypeOK /\ InitHasFifo
  BY DEF TypeInv, TypeOK
<1> ReadersInv /\ MessagesInv /\ NoRunBeforeStart /\ StartAcknowledgedOnce
  BY DEF FifoInv
<1> SUFFICES /\ ReadersInv' /\ MessagesInv'
             /\ NoRunBeforeStart' /\ StartAcknowledgedOnce'
  BY DEF FifoInv
<1> DEFINE Goal == ReadersInv' /\ MessagesInv' /\ NoRunBeforeStart' /\ StartAcknowledgedOnce'
<1> USE DEF ContainerTypeOK, InitHasFifo, Past, Left
<1>1. ASSUME UNCHANGED <<init, initFifo, fifo>> PROVE Goal
  BY <1>1 DEF ReadersInv, MessagesInv, NoRunBeforeStart, StartAcknowledgedOnce, fifo
<1>2. ASSUME NEW i \in Instances, SpawnInit(i) PROVE Goal
  BY <1>2 DEF SpawnInit, fifo, ReadersInv, MessagesInv, NoRunBeforeStart,
              StartAcknowledgedOnce
<1>3. ASSUME NEW i \in Instances, InitReady(i) PROVE Goal
  <2>1. ReadersInv'
    BY <1>3 DEF InitReady, ReadersInv
  <2>2. NoRunBeforeStart'
    <3>1. init'[i] = "opened" => initFifo[i] \in released
      BY <1>3, NoneAssumption DEF InitReady, ReadersInv
    <3> QED BY <1>3, <3>1 DEF InitReady, NoRunBeforeStart
  <2>3. MessagesInv' /\ StartAcknowledgedOnce'
    BY <1>3 DEF InitReady, MessagesInv, StartAcknowledgedOnce
  <2> QED BY <2>1, <2>2, <2>3
<1>4. ASSUME NEW i \in Instances, InitWrites(i) PROVE Goal
  <2>1. ReadersInv' /\ NoRunBeforeStart' /\ StartAcknowledgedOnce'
    BY <1>4 DEF InitWrites, ReadersInv, NoRunBeforeStart, StartAcknowledgedOnce
  <2>2. acks[i] = 0
    BY <1>4 DEF InitWrites, StartAcknowledgedOnce
  <2>3. MessagesInv'
    BY <1>4, <2>2 DEF InitWrites, MessagesInv
  <2> QED BY <2>1, <2>3
<1>5. ASSUME NEW i \in Instances,
             \/ InitFails(i) \/ InitBrokenPipe(i) \/ InitExec(i) \/ InitDies(i)
             \/ MonitorReaps(i)
      PROVE  Goal
  BY <1>5 DEF InitFails, InitBrokenPipe, InitExec, InitDies, MonitorReaps, fifo,
              ReadersInv, MessagesInv, NoRunBeforeStart, StartAcknowledgedOnce
<1>6. ASSUME NEW i \in Instances,
             \/ StartLoadsConfig(i) \/ StartFails(i) \/ SetupFails(i) \/ SetRunning(i)
             \/ MonitorExits(i) \/ Forks(i) \/ StrayExits(i)
      PROVE  Goal
  BY <1>1, <1>6 DEF StartLoadsConfig, StartFails, SetupFails, SetRunning, MonitorExits,
                    Forks, StrayExits
<1>7. ASSUME NEW p \in Procs, Stop(p) \/ KillCgroupProcs(p) PROVE Goal
  BY <1>7 DEF Stop, KillCgroupProcs, fifo, ReadersInv, MessagesInv, NoRunBeforeStart,
              StartAcknowledgedOnce, Alive, Created
<1>8. ASSUME NEW p \in Procs, OpenFifo(p) PROVE Goal
  <2>1. ReadersInv'
    BY <1>8 DEF OpenFifo, ReadersInv
  <2>2. NoRunBeforeStart' /\ MessagesInv' /\ StartAcknowledgedOnce'
    BY <1>8 DEF OpenFifo, Writes, NoRunBeforeStart, MessagesInv, StartAcknowledgedOnce
  <2> QED BY <2>1, <2>2
<1>9. ASSUME NEW p \in Procs, ReadFifo(p) PROVE Goal
  <2>1. PICK m \in pipe : /\ acks' = [acks EXCEPT ![m[2]] = @ + 1]
                          /\ CloseFifo(p, pipe \ {m})
    BY <1>9 DEF ReadFifo
  <2>2. UNCHANGED <<init, initFifo, released>>
    BY <1>9 DEF ReadFifo, processes
  <2>3. pipe' \subseteq pipe \ {m} /\ ReadersInv'
    BY <2>1, <2>2, CloseFifoKeepsReaders
  <2>4. m[2] \in Instances /\ acks[m[2]] = 0 /\ init[m[2]] \in Past
    BY DEF MessagesInv
  <2>5. StartAcknowledgedOnce'
    BY <2>1, <2>2, <2>4 DEF StartAcknowledgedOnce
  <2>6. \A n \in pipe \ {m} : n[2] # m[2]
    <3> SUFFICES ASSUME NEW n \in pipe, n[2] = m[2] PROVE n = m
      OBVIOUS
    <3>1. n[1] = m[1]
      BY DEF MessagesInv
    <3> QED BY <3>1
  <2>7. MessagesInv'
    BY <2>1, <2>2, <2>3, <2>6 DEF MessagesInv
  <2>8. NoRunBeforeStart'
    BY <2>2 DEF NoRunBeforeStart
  <2> QED BY <2>3, <2>5, <2>7, <2>8
<1>10. ASSUME NEW p \in Procs, ReadFifoEof(p) \/ Timeout(p) \/ Abort(p) PROVE Goal
  <2>1. CloseFifo(p, pipe) /\ UNCHANGED <<init, initFifo, released, acks>>
    BY <1>10 DEF ReadFifoEof, Timeout, Abort, processes
  <2>2. pipe' \subseteq pipe /\ ReadersInv'
    BY <2>1, CloseFifoKeepsReaders
  <2> QED BY <2>1, <2>2 DEF MessagesInv, NoRunBeforeStart, StartAcknowledgedOnce
<1>11. ASSUME NEW p \in Procs, Launch(p) \/ DeleteCgroup(p) \/ Attach(p) PROVE Goal
  BY <1>1, <1>11 DEF Launch, DeleteCgroup, Attach
<1>12. ASSUME NEW p \in Procs,
              Looks(p) \/ ChangesFiles(p) \/ Invoke(p) \/ InvokeCreate(p)
       PROVE  Goal
  <2>1. UNCHANGED <<init, initFifo, fifo>>
    BY <1>12, LooksChangeNothing, FileStepsChangeFiles
       DEF Invoke, InvokeCreate, containerVars, processes, fifo
  <2> QED BY <1>1, <2>1
<1>13. CASE UNCHANGED vars
  BY <1>1, <1>13 DEF vars, fifo
<1> QED
  BY <1>2, <1>3, <1>4, <1>5, <1>6, <1>7, <1>8, <1>9, <1>10, <1>11, <1>12, <1>13,
     StepKinds DEF Next, Progress, Accident, ChangesProcesses, ChangesFifo

-----------------------------------------------------------------------------
(***************************************************************************)
(* The inductive invariant and what follows from it.                       *)
(***************************************************************************)

IInv == TypeInv /\ ProcInv /\ FifoInv /\ CommandInv

\* IInv holds in every reachable state.
THEOREM Invariance == Spec => []IInv
<1>1. Init => IInv
  <2> SUFFICES ASSUME Init PROVE IInv
    OBVIOUS
  <2>1. TypeInv
    BY InitTypes
  <2>2. ProcInv
    BY DEF Init, ContainerInit, ProcInv, OneOwner, InitHasMonitor, CreateOwns, Owns,
           Alive, Created, CreateSteps, PreLaunch
  <2>3. FifoInv
    BY DEF Init, ContainerInit, FifoInv, ReadersInv, MessagesInv, NoRunBeforeStart,
           StartAcknowledgedOnce
  <2>4. CommandInv
    BY DEF Init, CommandInv, StartInv, KillInv, Returned, Stopping
  <2> QED BY <2>1, <2>2, <2>3, <2>4 DEF IInv
<1>2. IInv /\ [Next]_vars => IInv'
  <2> SUFFICES ASSUME IInv, [Next]_vars PROVE IInv'
    OBVIOUS
  <2> TypeInv /\ ProcInv /\ FifoInv /\ MessagesInv /\ CommandInv
    BY DEF IInv, FifoInv
  <2>1. ProcInv'
    BY NextKeepsOwner, NextKeepsCreateOwns DEF ProcInv
  <2> QED BY <2>1, NextKeepsTypes, NextKeepsFifoInv, NextKeepsCommandInv DEF IInv
<1> QED BY <1>1, <1>2, PTL DEF Spec

\* No init gets past the syncfifo, and no user program runs, before a start command
\* opened that fifo: however many commands race, fail and leave things behind.
THEOREM NoRunBeforeStartHolds == Spec => []NoRunBeforeStart
<1>1. IInv => NoRunBeforeStart
  BY DEF IInv, FifoInv
<1> QED BY <1>1, Invariance, PTL

\* At most one of any number of racing start commands is told that it released a
\* container.
THEOREM StartAcknowledgedOnceHolds == Spec => []StartAcknowledgedOnce
<1>1. IInv => StartAcknowledgedOnce
  BY DEF IInv, FifoInv
<1> QED BY <1>1, Invariance, PTL

\* A successful start has seen its container leave the created state.
THEOREM StartOkMeansStartedHolds == Spec => []StartOkMeansStarted
<1>1. IInv => StartOkMeansStarted
  BY DEF IInv, CommandInv, StartInv, StartOkMeansStarted, Left, Created
<1> QED BY <1>1, Invariance, PTL

\* A successful kill leaves nothing of the container it signalled, for good.
THEOREM KillOkMeansDeadHolds == Spec => []KillOkMeansDead
<1>1. IInv => KillOkMeansDead
  <2> SUFFICES ASSUME IInv, NEW p \in Procs,
                      Returned(p, "kill", "ok") \/ Returned(p, "term", "ok")
               PROVE  inst[p] \in Instances /\ ~InCgroup(inst[p])
    BY DEF KillOkMeansDead
  <2>1. inst[p] \in Instances /\ mon[inst[p]] = "exited" /\ inst[p] \notin stray
    BY DEF IInv, CommandInv, KillInv
  <2> QED BY <2>1 DEF InCgroup, Owns, IInv, ProcInv, InitHasMonitor
<1> QED BY <1>1, Invariance, PTL

=============================================================================
