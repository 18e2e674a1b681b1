------------------------------ MODULE CreateProof -----------------------------
(***************************************************************************)
(* create and state as long as nobody deletes the container: one create    *)
(* wins, and what state reports only goes forward.                         *)
(*                                                                         *)
(* A container.json that is never removed decides between the creates: all *)
(* that happens after it belongs to the instance that made it, so every    *)
(* monitor is that instance's (SoleInv).  A create that sees a RUNNING     *)
(* container therefore sees its own (CreateInv), and a state command whose *)
(* pid file exists asks about the only container there is (StateInv).      *)
(***************************************************************************)
EXTENDS RuntimeProof

NoDelete == Ops \cap {"delete", "force"} = {}

\* The steps of a create that has made container.json.
HasInfo == CreateSteps \ {"check", "mkdir", "excl", "info"}

\* Everything is of the instance whose container.json exists.
SoleInv ==
  /\ \A p \in Procs : op[p] \in Ops \cup {"none", "create"}
  /\ \A i \in encoded : fs["container.json"] = i
  /\ \A p \in Procs : pc[p] \in HasInfo => fs["container.json"] = inst[p]
  /\ \A i \in Instances : mon[i] # "none" => fs["container.json"] = i

\* The monitor of i has reported RUNNING of an init that executed.
Up(i) == mon[i] \in {"running", "stopping", "exited"} /\ init[i] # "none"

\* What a create has learnt when it stops waiting, and when it is done.
CreateInv ==
  /\ \A p \in Procs : pc[p] \in {"createdInit", "createPid"} => Up(inst[p])
  /\ \A p \in Procs : Returned(p, "create", "ok") => inst[p] \in Instances /\ Up(inst[p])
  /\ \A i \in pidfile : Up(i)

\* The rank of the status that a container which is up would be reported with.
Now(i) ==
  IF mon[i] = "exited" \/ init[i] = "gone" THEN 4 ELSE IF init[i] \in Created THEN 2 ELSE 3

StateInv ==
  /\ \A p \in Procs : pc[p] \in {"state", "stateInit"} => inst[p] \in pidfile
  /\ \A i \in Instances : seen[i] # 0 => Up(i) /\ seen[i] <= Now(i)

NoDeleteInv == SoleInv /\ CreateInv /\ StateInv

-----------------------------------------------------------------------------
(***************************************************************************)
(* What a step may do to a create, to a state and to what they rely on.    *)
(***************************************************************************)

\* A container that is up stays up, and its status only goes forward.
LEMMA UpGoesForward ==
  ASSUME TypeInv, ProcInv, [Next]_vars, NEW i \in Instances, Up(i)
  PROVE  Up(i)' /\ Now(i) <= Now(i)'
<1> mon \in [Instances -> MonStates] /\ init \in [Instances -> InitStates]
  BY DEF TypeInv, TypeOK, ContainerTypeOK
<1> InitHasMonitor
  BY DEF ProcInv
<1> USE DEF Up, Now, Created, InitStates, InitHasMonitor, Alive
<1>1. ASSUME NEW j \in Instances, Progress(j) PROVE Up(i)' /\ Now(i) <= Now(i)'
  <2>1. CASE StartLoadsConfig(j) \/ StartFails(j) \/ SetupFails(j) \/ SetRunning(j)
    BY <2>1 DEF StartLoadsConfig, StartFails, SetupFails, SetRunning
  <2>2. CASE MonitorReaps(j) \/ MonitorExits(j)
    BY <2>2 DEF MonitorReaps, MonitorExits, Owns
  <2>3. CASE SpawnInit(j) \/ InitReady(j) \/ InitFails(j)
    BY <2>3 DEF SpawnInit, InitReady, InitFails
  <2>4. CASE InitWrites(j) \/ InitBrokenPipe(j) \/ InitExec(j)
    BY <2>4 DEF InitWrites, InitBrokenPipe, InitExec
  <2> QED BY <1>1, <2>1, <2>2, <2>3, <2>4 DEF Progress
<1>2. ASSUME NEW j \in Instances, Accident(j) PROVE Up(i)' /\ Now(i) <= Now(i)'
  BY <1>2 DEF Accident, InitDies, Forks, StrayExits
<1>3. ASSUME NEW p \in Procs, Launch(p) PROVE Up(i)' /\ Now(i) <= Now(i)'
  <2>1. mon[inst[p]] = "none"
    BY <1>3 DEF ProcInv, CreateOwns, Launch, PreLaunch, CreateSteps
  <2> QED BY <1>3, <2>1 DEF Launch
<1>4. ASSUME NEW p \in Procs, Stop(p) PROVE Up(i)' /\ Now(i) <= Now(i)'
  BY <1>4 DEF Stop, Owns
<1>5. ASSUME NEW p \in Procs, KillCgroupProcs(p) PROVE Up(i)' /\ Now(i) <= Now(i)'
  BY <1>5 DEF KillCgroupProcs, Owns
<1>6. ASSUME NEW p \in Procs, OpenFifo(p) PROVE Up(i)' /\ Now(i) <= Now(i)'
  BY <1>6 DEF OpenFifo, Writes
<1>7. ASSUME UNCHANGED <<mon, init>> PROVE Up(i)' /\ Now(i) <= Now(i)'
  BY <1>7
<1> QED
  BY <1>1, <1>2, <1>3, <1>4, <1>5, <1>6, <1>7, OthersLeaveInit DEF Next, TouchesInit, vars

\* Where a create or a state can go in one step, and who writes what they rely on.
Move(p) ==
  /\ pc'[p] \in HasInfo => CreateInfo(p) \/ pc[p] \in HasInfo
  /\ pc'[p] \in {"createdInit", "createPid"}
       => WaitCreated(p) \/ pc[p] \in {"createdInit", "createPid"}
  /\ pc'[p] = "idle" /\ res'[p] = "ok" /\ op[p] = "create" => CreatePidFile(p)
  /\ pc'[p] \in {"state", "stateInit"}
       => inst'[p] = inst[p] /\ (ReadPid(p) \/ pc[p] \in {"state", "stateInit"})
  /\ seen' = seen \/ GetState(p) \/ GetInitState(p)
  /\ pidfile' = pidfile \/ CreatePidFile(p)
  /\ encoded' = encoded \/ EncodeInfo(p)
  /\ fs'["container.json"] = fs["container.json"] \/ CreateInfo(p) \/ IsDelete(p)

\* Steps of create.
LEMMA CreateMoves ==
  ASSUME TypeInv, NEW p \in Procs,
         \/ CheckNotExist(p) \/ MakeDir(p) \/ MakeConfigTmp(p) \/ CreateInfo(p)
         \/ EncodeInfo(p) \/ MakeInitDir(p) \/ MakeFifo(p) \/ StatConfigTmp(p)
         \/ StatConfig(p) \/ SaveConfigFile(p) \/ RenameConfig(p) \/ Launch(p)
         \/ WaitCreated(p) \/ CheckCreatedInit(p) \/ CreatePidFile(p)
  PROVE  Move(p)
<1> pc \in [Procs -> Steps \cup {"idle"}] /\ res \in [Procs -> {"none", "ok", "fail", "abort"}]
    /\ fs \in [Files -> Instances \cup {None}]
  BY DEF TypeInv, TypeOK, CommandTypeOK, ContainerTypeOK
<1> USE DEF Move, Return, Goto, HasInfo, CreateSteps, disk, containerVars, Files
<1>1. CASE CheckNotExist(p) \/ StatConfigTmp(p) \/ StatConfig(p) \/ CheckCreatedInit(p)
  BY <1>1 DEF CheckNotExist, StatConfigTmp, StatConfig, CheckCreatedInit
<1>2. CASE MakeDir(p) \/ MakeInitDir(p)
  BY <1>2 DEF MakeDir, MakeInitDir
<1>3. CASE MakeConfigTmp(p) \/ CreateInfo(p) \/ MakeFifo(p) \/ SaveConfigFile(p)
  BY <1>3 DEF MakeConfigTmp, CreateInfo, MakeFifo, SaveConfigFile, Make
<1>4. CASE RenameConfig(p)
  BY <1>4 DEF RenameConfig
<1>5. CASE EncodeInfo(p) \/ Launch(p) \/ WaitCreated(p) \/ CreatePidFile(p)
  BY <1>5 DEF EncodeInfo, Launch, WaitCreated, CreatePidFile
<1> QED BY <1>1, <1>2, <1>3, <1>4, <1>5

\* All steps of a command, its deadline and its death.
LEMMA CommandMoves ==
  ASSUME TypeInv, NEW p \in Procs, Step(p) \/ Timeout(p) \/ Abort(p)
  PROVE  Move(p)
<1> pc \in [Procs -> Steps \cup {"idle"}] /\ res \in [Procs -> {"none", "ok", "fail", "abort"}]
    /\ inst \in [Procs -> Instances \cup {None}] /\ OpAt(pc[p], op[p])
  BY DEF TypeInv, TypeOK, CommandTypeOK, PcOp
<1> USE DEF Move, Return, Goto, GotoWith, HasInfo, CreateSteps, disk, containerVars
<1>1. CASE LoadCheckDir(p) \/ LoadInfo(p) \/ LoadStatConfig(p)
  BY <1>1 DEF LoadCheckDir, LoadInfo, LoadStatConfig, IsDelete, OpAt, LoadSteps
<1>2. CASE LoadConfigFile(p)
  <2>1. op[p] \in AllOps \ {"create"}
    BY <1>2 DEF LoadConfigFile, OpAt, LoadSteps
  <2>2. AfterLoad[op[p]] \in {"startState", "readPid", "killState", "deleteState", "attach"}
    BY <2>1 DEF AfterLoad, AllOps
  <2> QED BY <1>2, <2>1, <2>2 DEF LoadConfigFile, IsDelete
<1>3. CASE \/ StartCheckState(p) \/ StartCheckInit(p) \/ OpenFifo(p) \/ ReadFifo(p)
           \/ ReadFifoEof(p) \/ WaitNotCreated(p)
  BY <1>3 DEF StartCheckState, StartCheckInit, OpenFifo, ReadFifo, ReadFifoEof,
              WaitNotCreated, OpAt, StartSteps
<1>4. CASE ReadPid(p) \/ GetState(p) \/ GetInitState(p)
  BY <1>4 DEF ReadPid, GetState, GetInitState, Report, OpAt, StateSteps
<1>5. CASE KillCheckState(p) \/ Stop(p) \/ WaitStopped(p) \/ OpenCgroup(p)
  BY <1>5 DEF KillCheckState, Stop, WaitStopped, OpenCgroup
<1>6. CASE KillCgroupProcs(p) \/ CgroupDrained(p) \/ Signal(p) \/ Attach(p)
  BY <1>6 DEF KillCgroupProcs, CgroupDrained, Signal, Attach, IsDelete, command, OpAt, StopSteps
<1>7. CASE DeleteCheckState(p) \/ Destroy(p) \/ DeleteCgroup(p) \/ RemoveDir(p) \/ RemoveFile(p)
  <2>1. IsDelete(p)
    BY <1>7 DEF DeleteCheckState, Destroy, DeleteCgroup, RemoveDir, RemoveFile, IsDelete,
                OpAt, DeleteSteps
  <2> QED BY <1>7, <2>1 DEF DeleteCheckState, Destroy, DeleteCgroup, RemoveDir, RemoveFile,
                            IsDelete, command
<1>8. CASE Timeout(p) \/ Abort(p)
  BY <1>8 DEF Timeout, Abort
<1> QED
  BY <1>1, <1>2, <1>3, <1>4, <1>5, <1>6, <1>7, <1>8, CreateMoves DEF Step

-----------------------------------------------------------------------------
(***************************************************************************)
(* The invariant.                                                          *)
(***************************************************************************)

\* What a state command reports is the status of its container, the only one.
LEMMA ReportsNow ==
  ASSUME IInv, NoDeleteInv, NEW p \in Procs, GetState(p) \/ GetInitState(p)
  PROVE  /\ UNCHANGED containerVars
         /\ \/ seen' = seen
            \/ /\ inst[p] \in Instances
               /\ Up(inst[p])
               /\ seen' = [seen EXCEPT ![inst[p]] = Now(inst[p])]
<1> DEFINE i == inst[p]
<1>1. i \in Instances /\ i \in pidfile
  BY DEF GetState, GetInitState, NoDeleteInv, StateInv, IInv, TypeInv, TypeOK, ContainerTypeOK
<1>2. Up(i)
  BY <1>1 DEF NoDeleteInv, CreateInv
<1>3. \A j \in Instances : mon[j] # "none" => j = i
  BY <1>1, <1>2 DEF NoDeleteInv, SoleInv, Up
<1>4. init[i] \in InitStates /\ mon[i] \in MonStates
  BY <1>1 DEF IInv, TypeInv, TypeOK, ContainerTypeOK
<1>5. LxcStopped => mon[i] = "exited"
  BY <1>1, <1>2 DEF LxcStopped, Owns, Up
<1>6. ~LxcStarting
  BY <1>2, <1>3 DEF LxcStarting, Up
<1>7. ASSUME ~LxcStopped, NEW s, InitStateIs(s)
      PROVE  s = InitStatus(i) /\ mon[i] # "exited"
  BY <1>3, <1>7 DEF LxcStopped, InitStateIs, Owns
<1>8. ASSUME NEW s \in {"created", "running", "stopped"}, InitStateIs(s)
      PROVE  Rank[s] = Now(i)
  <2>1. CASE LxcStopped
    BY <1>5, <1>8, <2>1 DEF InitStateIs, Rank, Now
  <2>2. CASE ~LxcStopped
    BY <1>2, <1>4, <1>7, <1>8, <2>2 DEF InitStatus, Up, Now, Rank, Created, InitStates
  <2> QED BY <2>1, <2>2
<1>9. LxcStopped => Rank["stopped"] = Now(i)
  BY <1>5 DEF Rank, Now
<1>10. CASE GetState(p)
  BY <1>1, <1>2, <1>6, <1>9, <1>10 DEF GetState, Report, Goto
<1>11. CASE GetInitState(p)
  BY <1>1, <1>2, <1>8, <1>11 DEF GetInitState, Report
<1> QED BY <1>10, <1>11

\* No step of a command other than delete ends the reign of a container.json.
LEMMA CommandKeepsNoDeleteInv ==
  ASSUME NoDelete, IInv, NoDeleteInv, NEW p \in Procs,
         Step(p) \/ Timeout(p) \/ Abort(p)
  PROVE  NoDeleteInv'
<1> TypeInv /\ ProcInv /\ SoleInv /\ CreateInv /\ StateInv
  BY DEF IInv, NoDeleteInv
<1> [Next]_vars
  BY DEF Next
<1> TypeInv'
  BY NextKeepsTypes
<1>1. Turn(p) /\ Move(p)
  BY CommandTurns, CommandMoves
<1>2. ~IsDelete(p)
  BY DEF IsDelete, NoDelete, SoleInv
<1>3. CreateInfo(p) => \/ fs["container.json"] = None /\ fs'["container.json"] = inst[p]
                       \/ fs' = fs /\ pc'[p] = "idle"
  BY DEF CreateInfo, CanMake, Make, Return, disk, TypeInv, TypeOK, CommandTypeOK,
         ContainerTypeOK, Files
<1>4. fs["container.json"] # None => fs'["container.json"] = fs["container.json"]
  BY <1>1, <1>2, <1>3 DEF Move
<1>5. \A i \in Instances : Up(i) => Up(i)' /\ Now(i) <= Now(i)'
  BY UpGoesForward
<1>6. SoleInv'
  <2>1. \A q \in Procs : op'[q] \in Ops \cup {"none", "create"}
    BY <1>1 DEF Turn, SoleInv
  <2>2. \A i \in encoded' : fs'["container.json"] = i
    <3>1. encoded \subseteq Instances
      BY DEF TypeInv, TypeOK, ContainerTypeOK
    <3>2. EncodeInfo(p) => fs'["container.json"] = inst[p] /\ encoded' = encoded \cup {inst[p]}
      BY DEF EncodeInfo, SoleInv, HasInfo, CreateSteps
    <3> QED BY <1>1, <1>4, <3>1, <3>2, NoneAssumption DEF Move, SoleInv
  <2>3. ASSUME NEW q \in Procs, pc'[q] \in HasInfo PROVE fs'["container.json"] = inst'[q]
    <3>1. CASE pc[q] \in HasInfo /\ inst'[q] = inst[q]
      <4>1. inst[q] \in Instances
        BY <3>1 DEF TypeInv, PcOp, OpAt, HasInfo
      <4> QED BY <1>4, <3>1, <4>1, NoneAssumption DEF SoleInv
    <3>2. CASE q = p /\ CreateInfo(p)
      <4>1. inst'[p] = inst[p]
        BY <1>1, <2>3, <3>2 DEF Turn, HasInfo
      <4> QED BY <1>3, <2>3, <3>2, <4>1 DEF HasInfo, CreateSteps
    <3> QED BY <1>1, <2>3, <3>1, <3>2 DEF Turn, Move, HasInfo
  <2>4. ASSUME NEW i \in Instances, mon'[i] # "none" PROVE fs'["container.json"] = i
    <3>1. CASE mon[i] # "none"
      BY <1>4, <3>1, NoneAssumption DEF SoleInv
    <3>2. CASE mon[i] = "none"
      <4>1. Launch(p) /\ i = inst[p]
        <5>1. CASE ~TouchesInit(p)
          BY <2>4, <3>2, <5>1, OthersLeaveInit
        <5>2. CASE Stop(p) \/ KillCgroupProcs(p) \/ OpenFifo(p)
          BY <2>4, <3>2, <5>2 DEF Stop, KillCgroupProcs, OpenFifo, Owns, TypeInv, TypeOK,
                                  ContainerTypeOK
        <5>3. CASE Launch(p)
          BY <2>4, <3>2, <5>3 DEF Launch, TypeInv, TypeOK, ContainerTypeOK
        <5> QED BY <5>1, <5>2, <5>3 DEF TouchesInit
      <4>2. fs["container.json"] = i
        BY <4>1 DEF Launch, SoleInv, HasInfo, CreateSteps
      <4> QED BY <1>4, <4>2, NoneAssumption
    <3> QED BY <3>1, <3>2
  <2> QED BY <2>1, <2>2, <2>3, <2>4 DEF SoleInv
<1>7. CreateInv'
  <2>1. CreatePidFile(p) => Up(inst[p])' /\ pidfile' = pidfile \cup {inst[p]} /\ inst' = inst
    <3> SUFFICES ASSUME CreatePidFile(p) PROVE Up(inst[p]) /\ inst[p] \in Instances
      BY <1>5 DEF CreatePidFile, Return, Up, processes
    <3> QED BY DEF CreatePidFile, CreateInv, TypeInv, PcOp, OpAt, CreateSteps
  <2>2. \A i \in pidfile' : Up(i)'
    <3>1. \A i \in pidfile : Up(i)'
      BY <1>5 DEF CreateInv, TypeInv, TypeOK, ContainerTypeOK
    <3>2. CreatePidFile(p) => \A i \in pidfile' : Up(i)'
      BY <2>1, <3>1 DEF Up
    <3> QED BY <1>1, <3>1, <3>2 DEF Move
  <2>3. ASSUME NEW q \in Procs, pc'[q] \in {"createdInit", "createPid"} PROVE Up(inst[q])'
    <3>1. inst'[q] = inst[q] /\ inst[q] \in Instances
      BY <1>1, <2>3 DEF Turn, CreateSteps, TypeInv, PcOp, OpAt
    <3>2. CASE pc[q] \in {"createdInit", "createPid"}
      BY <1>5, <3>1, <3>2 DEF CreateInv, Up
    <3>3. CASE q = p /\ WaitCreated(p)
      <4>1. pc[p] = "waitCreated" /\ LxcRunning
        BY <2>3, <3>3 DEF WaitCreated, Return, TypeInv, TypeOK, CommandTypeOK
      <4>2. PICK i \in Instances : mon[i] = "running"
        BY <4>1 DEF LxcRunning
      <4>3. i = inst[p]
        BY <4>1, <4>2 DEF SoleInv, HasInfo, CreateSteps
      <4>4. Up(i)
        BY <4>2 DEF Up, ProcInv, InitHasMonitor
      <4> QED BY <1>5, <3>1, <3>3, <4>3, <4>4 DEF Up
    <3> QED BY <1>1, <2>3, <3>2, <3>3 DEF Turn, Move
  <2>4. ASSUME NEW q \in Procs, Returned(q, "create", "ok")'
        PROVE  inst'[q] \in Instances /\ Up(inst[q])'
    <3>1. CASE q = p
      <4>1. CreatePidFile(p)
        BY <1>1, <2>4, <3>1 DEF Turn, Move, Returned
      <4>2. inst[p] \in Instances
        BY <4>1 DEF CreatePidFile, TypeInv, PcOp, OpAt, CreateSteps
      <4> QED BY <2>1, <3>1, <4>1, <4>2 DEF Up
    <3>2. CASE q # p
      BY <1>1, <1>5, <2>4, <3>2 DEF Turn, Returned, CreateInv, Up
    <3> QED BY <3>1, <3>2
  <2> QED BY <2>2, <2>3, <2>4 DEF CreateInv
<1>8. StateInv'
  <2>1. pidfile \subseteq pidfile'
    BY <1>1 DEF Move, CreatePidFile
  <2>2. ReadPid(p) /\ pc'[p] = "state" => inst[p] \in pidfile
    BY DEF ReadPid, Return, TypeInv, TypeOK, CommandTypeOK
  <2>3. ASSUME NEW q \in Procs, pc'[q] \in {"state", "stateInit"} PROVE inst'[q] \in pidfile'
    <3>1. ReadPid(p) => pc'[p] # "stateInit"
      BY DEF ReadPid, Return, Goto, TypeInv, TypeOK, CommandTypeOK
    <3> QED BY <1>1, <2>1, <2>2, <2>3, <3>1 DEF Turn, Move, StateInv
  <2>4. ASSUME NEW i \in Instances, seen'[i] # 0 PROVE Up(i)' /\ seen'[i] <= Now(i)'
    <3> seen \in [Instances -> 0 .. 4] /\ Now(i) \in 0 .. 4 /\ Now(i)' \in 0 .. 4
      BY DEF TypeInv, TypeOK, CommandTypeOK, Now
    <3>1. CASE seen' = seen
      BY <1>5, <2>4, <3>1 DEF StateInv
    <3>2. CASE GetState(p) \/ GetInitState(p)
      <4>1. UNCHANGED <<mon, init>>
        BY <3>2, ReportsNow DEF containerVars
      <4>2. CASE i = inst[p] /\ Up(i) /\ seen' = [seen EXCEPT ![inst[p]] = Now(inst[p])]
        BY <1>5, <4>1, <4>2 DEF Now, Up
      <4>3. CASE i # inst[p] /\ seen' = [seen EXCEPT ![inst[p]] = Now(inst[p])]
        BY <1>5, <2>4, <4>3 DEF StateInv
      <4> QED BY <3>1, <3>2, <4>2, <4>3, ReportsNow
    <3> QED BY <1>1, <3>1, <3>2 DEF Move
  <2> QED BY <2>3, <2>4 DEF StateInv
<1> QED BY <1>6, <1>7, <1>8 DEF NoDeleteInv

\* Invocations, monitors, inits and the kernel keep it too.
LEMMA OthersKeepNoDeleteInv ==
  ASSUME NoDelete, IInv, NoDeleteInv, [Next]_vars,
         UNCHANGED <<fs, encoded, pidfile, seen>>,
         \A i \in Instances : mon[i] = "none" => mon'[i] = "none",
         \A q \in Procs :
           \/ pc'[q] = pc[q] /\ op'[q] = op[q] /\ inst'[q] = inst[q] /\ res'[q] = res[q]
           \/ pc'[q] \in {"check", "load"} /\ op'[q] \in Ops
  PROVE  NoDeleteInv'
<1> TypeInv /\ ProcInv /\ SoleInv /\ CreateInv /\ StateInv
  BY DEF IInv, NoDeleteInv
<1>1. \A i \in Instances : Up(i) => Up(i)' /\ Now(i) <= Now(i)'
  BY UpGoesForward
<1>2. SoleInv'
  BY DEF SoleInv, HasInfo, CreateSteps
<1>3. CreateInv'
  <2>1. \A i \in pidfile' : Up(i)'
    BY <1>1 DEF CreateInv, TypeInv, TypeOK, ContainerTypeOK
  <2>2. ASSUME NEW q \in Procs, pc'[q] \in {"createdInit", "createPid"} PROVE Up(inst[q])'
    <3>1. inst'[q] = inst[q] /\ Up(inst[q]) /\ inst[q] \in Instances
      BY <2>2 DEF CreateInv, TypeInv, PcOp, OpAt, CreateSteps
    <3> QED BY <1>1, <3>1 DEF Up
  <2>3. ASSUME NEW q \in Procs, Returned(q, "create", "ok")'
        PROVE  inst'[q] \in Instances /\ Up(inst[q])'
    <3>1. inst'[q] = inst[q] /\ Returned(q, "create", "ok")
      BY <2>3 DEF Returned
    <3> QED BY <1>1, <3>1 DEF CreateInv, Up
  <2> QED BY <2>1, <2>2, <2>3 DEF CreateInv
<1>4. StateInv'
  <2>1. \A q \in Procs : pc'[q] \in {"state", "stateInit"} => inst'[q] \in pidfile'
    BY DEF StateInv
  <2>2. ASSUME NEW i \in Instances, seen'[i] # 0 PROVE Up(i)' /\ seen'[i] <= Now(i)'
    <3> seen \in [Instances -> 0 .. 4] /\ Now(i) \in 0 .. 4 /\ Now(i)' \in 0 .. 4
      BY DEF TypeInv, TypeOK, CommandTypeOK, Now
    <3> QED BY <1>1, <2>2 DEF StateInv
  <2> QED BY <2>1, <2>2 DEF StateInv
<1> QED BY <1>2, <1>3, <1>4 DEF NoDeleteInv

\* Every step keeps NoDeleteInv.
LEMMA NextKeepsNoDeleteInv ==
  ASSUME NoDelete, IInv, NoDeleteInv, [Next]_vars
  PROVE  NoDeleteInv'
<1>1. ASSUME NEW p \in Procs, InvokeCreate(p) \/ Invoke(p) PROVE NoDeleteInv'
  <2>1. UNCHANGED <<fs, encoded, pidfile, seen, mon>>
    BY <1>1 DEF InvokeCreate, Invoke, containerVars
  <2>2. pc'[p] \in {"check", "load"} /\ op'[p] \in Ops
    BY <1>1 DEF InvokeCreate, Invoke, IInv, TypeInv, TypeOK, CommandTypeOK
  <2> QED BY <1>1, <2>1, <2>2, InvokeTurns, OthersKeepNoDeleteInv DEF IInv
<1>2. ASSUME NEW i \in Instances, Progress(i) \/ Accident(i), UNCHANGED command
      PROVE  NoDeleteInv'
  <2>1. \A j \in Instances : mon[j] = "none" => mon'[j] = "none"
    BY <1>2 DEF Progress, Accident, StartLoadsConfig, StartFails, SpawnInit, SetupFails,
       SetRunning, MonitorReaps, MonitorExits, InitReady, InitFails, InitWrites,
       InitBrokenPipe, InitExec, InitDies, Forks, StrayExits, Owns, IInv, TypeInv, TypeOK,
       ContainerTypeOK
  <2>2. UNCHANGED <<fs, encoded, pidfile>>
    BY <1>2 DEF Progress, Accident, StartLoadsConfig, StartFails, SpawnInit, SetupFails,
       SetRunning, MonitorReaps, MonitorExits, InitReady, InitFails, InitWrites,
       InitBrokenPipe, InitExec, InitDies, Forks, StrayExits, disk
  <2> QED BY <1>2, <2>1, <2>2, OthersKeepNoDeleteInv DEF command
<1>3. CASE UNCHANGED vars
  BY <1>3, OthersKeepNoDeleteInv DEF vars
<1> QED BY <1>1, <1>2, <1>3, CommandKeepsNoDeleteInv DEF Next

\* A report never goes back behind the one before it.
LEMMA ReportsForward ==
  ASSUME NoDelete, IInv, NoDeleteInv, [Next]_vars, NEW i \in Instances
  PROVE  seen[i] <= seen'[i]
<1> seen \in [Instances -> 0 .. 4] /\ Now(i) \in 0 .. 4
  BY DEF IInv, TypeInv, TypeOK, CommandTypeOK, Now
<1>1. CASE seen' = seen
  BY <1>1
<1>2. ASSUME NEW p \in Procs, GetState(p) \/ GetInitState(p) PROVE seen[i] <= seen'[i]
  <2>1. CASE inst[p] \in Instances /\ seen' = [seen EXCEPT ![inst[p]] = Now(inst[p])]
    <3>1. seen[i] <= Now(i)
      BY DEF NoDeleteInv, StateInv
    <3> QED BY <2>1, <3>1
  <2> QED BY <1>1, <1>2, <2>1, ReportsNow
<1>3. ASSUME NEW p \in Procs, Step(p) \/ Timeout(p) \/ Abort(p) PROVE seen[i] <= seen'[i]
  BY <1>1, <1>2, <1>3, CommandMoves DEF Move, IInv
<1>4. ASSUME NEW p \in Procs, InvokeCreate(p) \/ Invoke(p) PROVE seen' = seen
  BY <1>4 DEF InvokeCreate, Invoke
<1> QED BY <1>1, <1>3, <1>4 DEF Next, command, vars

-----------------------------------------------------------------------------
\* As long as nobody deletes, IInv and NoDeleteInv hold in every reachable state.
THEOREM NoDeleteInvariance == ASSUME NoDelete PROVE Spec => [](IInv /\ NoDeleteInv)
<1>1. Init => NoDeleteInv
  BY DEF Init, ContainerInit, NoDeleteInv, SoleInv, CreateInv, StateInv, HasInfo,
         CreateSteps, Returned
<1>2. IInv /\ NoDeleteInv /\ [Next]_vars => NoDeleteInv'
  BY NextKeepsNoDeleteInv
<1> QED BY <1>1, <1>2, Invariance, PTL DEF Spec

\* createContainer succeeds once: of any number of creates that race for one container
\* ID, one at most completes container.json, as long as nobody deletes.
THEOREM CreateOnceHolds == ASSUME NoDelete PROVE Spec => []CreateOnce
<1>1. NoDeleteInv => CreateOnce
  BY DEF NoDeleteInv, SoleInv, CreateOnce
<1> QED BY <1>1, NoDeleteInvariance, PTL

\* The RUNNING container that a successful create has waited for is its own.
THEOREM CreateOkMeansCreatedHolds == ASSUME NoDelete PROVE Spec => []CreateOkMeansCreated
<1>1. NoDeleteInv => CreateOkMeansCreated
  BY DEF NoDeleteInv, CreateInv, CreateOkMeansCreated, Up
<1> QED BY <1>1, NoDeleteInvariance, PTL

\* The statuses that any number of concurrent state commands report of a container
\* never go back.
THEOREM StatusNeverRegressesHolds == ASSUME NoDelete PROVE Spec => StatusNeverRegresses
<1>1. IInv /\ NoDeleteInv /\ [Next]_vars => [\A i \in Instances : seen[i] <= seen'[i]]_seen
  BY ReportsForward
<1> QED BY <1>1, NoDeleteInvariance, PTL DEF Spec, StatusNeverRegresses

=============================================================================
