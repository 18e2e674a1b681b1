---------------------------- MODULE RefinementProof ---------------------------
(***************************************************************************)
(* The commands, monitors and inits implement module OCIContainer.         *)
(*                                                                         *)
(* The phase of a container is read off its monitor and its init, so the   *)
(* steps that touch neither are stutters.  Of the others each is one       *)
(* action of OCIContainer or a stutter because of IInv: a new init is the  *)
(* only live one since its monitor is the only owner of the name, a user   *)
(* program is executed only behind a fifo that a start has opened, and a   *)
(* monitor that is launched is the first of its instance.                  *)
(***************************************************************************)
EXTENDS RuntimeProof

\* The phases, one by one.
LEMMA PhaseValues ==
  ASSUME NEW m, NEW n
  PROVE  /\ m = "none" => PhaseOf(m, n) = "none"
         /\ m # "none" /\ n \in Created => PhaseOf(m, n) = "created"
         /\ m # "none" /\ n = "user" => PhaseOf(m, n) = "running"
         /\ m \in {"exec", "starting"} /\ n = "none" => PhaseOf(m, n) = "creating"
         /\ m # "none" /\ n \in {"zombie", "gone"} => PhaseOf(m, n) = "stopped"
         /\ m \notin {"none", "exec", "starting"} /\ n = "none" => PhaseOf(m, n) = "stopped"
<1> USE DEF PhaseOf, Created
<1>1. m = "none" => PhaseOf(m, n) = "none"
  BY Zenon
<1>2. m # "none" /\ n \in Created => PhaseOf(m, n) = "created"
  BY Zenon
<1>3. m # "none" /\ n = "user" => PhaseOf(m, n) = "running"
  BY Zenon
<1>4. m \in {"exec", "starting"} /\ n = "none" => PhaseOf(m, n) = "creating"
  BY Zenon
<1>5. m # "none" /\ n \in {"zombie", "gone"} => PhaseOf(m, n) = "stopped"
  BY Zenon
<1>6. m \notin {"none", "exec", "starting"} /\ n = "none" => PhaseOf(m, n) = "stopped"
  BY Zenon
<1> QED BY <1>1, <1>2, <1>3, <1>4, <1>5, <1>6

\* A step that changes no phase and asks for no start is a stutter.
LEMMA Stutters ==
  ASSUME \A i \in Instances : phases'[i] = phases[i], startable' = startable
  PROVE  UNCHANGED <<phases, startable>>
BY DEF phases

\* A step after which some containers are stopped, and no other has changed its
\* phase, is End.
LEMMA Ends ==
  ASSUME startable' = startable,
         \A i \in Instances : \/ phases[i] # "none" /\ phases'[i] = "stopped"
                              \/ phases'[i] = phases[i]
  PROVE  OCI!OCINext
<1> DEFINE S == {i \in Instances : phases[i] # "none" /\ phases'[i] = "stopped"}
<1>1. \A i \in S : phases[i] # "none"
  OBVIOUS
<1>2. phases' = [i \in Instances |-> IF i \in S THEN "stopped" ELSE phases[i]]
  BY DEF phases
<1>3. OCI!End(S)
  BY <1>1, <1>2 DEF OCI!End
<1> QED BY <1>3 DEF OCI!OCINext

\* What the phases say of monitors and inits.
LEMMA PhaseFacts ==
  ASSUME TypeInv
  PROVE  \A i \in Instances :
           /\ phases[i] = PhaseOf(mon[i], init[i]) /\ phases'[i] = PhaseOf(mon'[i], init'[i])
           /\ phases[i] = "none" <=> mon[i] = "none"
           /\ phases[i] \in OCI!Live => init[i] \in Alive
<1> SUFFICES ASSUME NEW i \in Instances
             PROVE  /\ phases[i] = "none" <=> mon[i] = "none"
                    /\ phases[i] \in OCI!Live => init[i] \in Alive
  BY DEF phases
<1>1. phases[i] = PhaseOf(mon[i], init[i]) /\ init[i] \in InitStates
  BY DEF phases, TypeInv, TypeOK, ContainerTypeOK
<1> QED BY <1>1, PhaseValues DEF InitStates, Alive, Created, OCI!Live

Refines == OCI!OCINext \/ UNCHANGED <<phases, startable>>

\* What a monitor does.
LEMMA MonitorRefines ==
  ASSUME IInv, NEW i \in Instances,
         \/ StartLoadsConfig(i) \/ StartFails(i) \/ SpawnInit(i) \/ SetupFails(i)
         \/ SetRunning(i) \/ MonitorReaps(i) \/ MonitorExits(i)
  PROVE  Refines
<1> TypeInv /\ mon \in [Instances -> MonStates] /\ init \in [Instances -> InitStates]
    /\ initFifo \in [Instances -> Instances \cup {None}]
  BY DEF IInv, TypeInv, TypeOK, ContainerTypeOK
<1> InitHasMonitor /\ OneOwner
  BY DEF IInv, ProcInv
<1>0. \A j \in Instances :
        phases[j] = PhaseOf(mon[j], init[j]) /\ phases'[j] = PhaseOf(mon'[j], init'[j])
  BY PhaseFacts
<1>1. CASE StartLoadsConfig(i) \/ SetRunning(i)
  <2>1. /\ \A j \in Instances : phases'[j] = phases[j]
        /\ startable' = startable
    BY <1>0, <1>1, PhaseValues
       DEF StartLoadsConfig, SetRunning, InitHasMonitor, InitStates, Created, fifo, startable
  <2> QED BY <2>1, Stutters DEF Refines
<1>2. CASE StartFails(i) \/ SetupFails(i)
  <2>1. /\ \A j \in Instances : \/ phases[j] # "none" /\ phases'[j] = "stopped"
                                \/ phases'[j] = phases[j]
        /\ startable' = startable
    BY <1>0, <1>2, PhaseValues
       DEF StartFails, SetupFails, InitHasMonitor, fifo, startable
  <2> QED BY <2>1, Ends DEF Refines
<1>3. CASE MonitorReaps(i) \/ MonitorExits(i)
  <2>1. /\ \A j \in Instances : phases'[j] = phases[j]
        /\ startable' = startable
    BY <1>0, <1>3, PhaseValues
       DEF MonitorReaps, MonitorExits, Owns, InitHasMonitor, InitStates, Alive, Created,
           fifo, startable
  <2> QED BY <2>1, Stutters DEF Refines
<1>4. CASE SpawnInit(i)
  <2>1. phases[i] = "creating" /\ phases'[i] = "created"
    BY <1>0, <1>4, PhaseValues DEF SpawnInit, Created
  <2>2. \A j \in Instances \ {i} : phases'[j] = phases[j]
    BY <1>0, <1>4 DEF SpawnInit
  <2>3. \A j \in Instances : phases[j] \notin OCI!Live
    BY <1>4, PhaseFacts DEF SpawnInit, OneOwner, InitHasMonitor, Owns, Alive, Created
  <2>4. startable' \in {startable, startable \cup {i}}
    BY <1>4 DEF SpawnInit, fifo, startable
  <2>5. phases' = [phases EXCEPT ![i] = "created"]
    BY <2>1, <2>2 DEF phases
  <2>6. OCI!BecomeCreated(i)
    BY <2>1, <2>3, <2>4, <2>5 DEF OCI!BecomeCreated
  <2> QED BY <2>6 DEF Refines, OCI!OCINext
<1> QED BY <1>1, <1>2, <1>3, <1>4

\* What init does and what happens to it.
LEMMA InitRefines ==
  ASSUME IInv, NEW i \in Instances,
         \/ InitReady(i) \/ InitFails(i) \/ InitWrites(i) \/ InitBrokenPipe(i)
         \/ InitExec(i) \/ Accident(i)
  PROVE  Refines
<1> TypeInv /\ mon \in [Instances -> MonStates] /\ init \in [Instances -> InitStates]
    /\ initFifo \in [Instances -> Instances \cup {None}]
  BY DEF IInv, TypeInv, TypeOK, ContainerTypeOK
<1> InitHasMonitor
  BY DEF IInv, ProcInv
<1>0. \A j \in Instances :
        phases[j] = PhaseOf(mon[j], init[j]) /\ phases'[j] = PhaseOf(mon'[j], init'[j])
  BY PhaseFacts
<1>1. CASE InitReady(i) \/ InitWrites(i)
  <2>1. /\ \A j \in Instances : phases'[j] = phases[j]
        /\ startable' = startable
    BY <1>0, <1>1, PhaseValues DEF InitReady, InitWrites, InitHasMonitor, Alive, Created, startable
  <2> QED BY <2>1, Stutters DEF Refines
<1>2. CASE InitFails(i) \/ InitBrokenPipe(i) \/ InitDies(i)
  <2>1. /\ \A j \in Instances : \/ phases[j] # "none" /\ phases'[j] = "stopped"
                                \/ phases'[j] = phases[j]
        /\ startable' = startable
    BY <1>0, <1>2, PhaseValues, PhaseFacts
       DEF InitFails, InitBrokenPipe, InitDies, InitHasMonitor, Alive, Created, fifo, startable
  <2> QED BY <2>1, Ends DEF Refines
<1>3. CASE InitExec(i)
  <2>1. phases[i] = "created" /\ phases'[i] = "running"
    BY <1>0, <1>3, PhaseValues DEF InitExec, InitHasMonitor, Alive, Created
  <2>2. \A j \in Instances \ {i} : phases'[j] = phases[j]
    BY <1>0, <1>3 DEF InitExec
  <2>3. i \in startable /\ startable' = startable
    BY <1>3 DEF InitExec, fifo, startable, IInv, FifoInv, NoRunBeforeStart
  <2>4. phases' = [phases EXCEPT ![i] = "running"]
    BY <2>1, <2>2 DEF phases
  <2>5. OCI!Run(i)
    BY <2>1, <2>3, <2>4 DEF OCI!Run
  <2> QED BY <2>5 DEF Refines, OCI!OCINext
<1>4. CASE Forks(i) \/ StrayExits(i)
  <2>1. UNCHANGED <<mon, init, initFifo, released>>
    BY <1>4 DEF Forks, StrayExits, fifo
  <2> QED BY <2>1 DEF Refines, phases, startable
<1> QED BY <1>1, <1>2, <1>3, <1>4 DEF Accident

\* What a command does.
LEMMA CommandRefines ==
  ASSUME IInv, NEW p \in Procs,
         InvokeCreate(p) \/ Invoke(p) \/ Step(p) \/ Timeout(p) \/ Abort(p)
  PROVE  Refines
<1> TypeInv /\ mon \in [Instances -> MonStates] /\ init \in [Instances -> InitStates]
    /\ initFifo \in [Instances -> Instances \cup {None}] /\ released \subseteq Instances
    /\ fs["syncfifo"] \in Instances \cup {None}
  BY DEF IInv, TypeInv, TypeOK, ContainerTypeOK, Files
<1> InitHasMonitor
  BY DEF IInv, ProcInv
<1>0. \A j \in Instances :
        phases[j] = PhaseOf(mon[j], init[j]) /\ phases'[j] = PhaseOf(mon'[j], init'[j])
  BY PhaseFacts
<1>1. CASE Launch(p)
  <2>1. mon[inst[p]] = "none" /\ inst[p] \in Instances
    BY <1>1 DEF IInv, TypeInv, PcOp, OpAt, ProcInv, CreateOwns, Launch, PreLaunch, CreateSteps
  <2>2. CASE fs["dir"] # None
    <3>1. phases[inst[p]] = "none" /\ phases'[inst[p]] = "creating"
      BY <1>0, <1>1, <2>1, <2>2, PhaseValues DEF Launch, InitHasMonitor
    <3>2. \A j \in Instances \ {inst[p]} : phases'[j] = phases[j]
      BY <1>0, <1>1, <2>2 DEF Launch
    <3>3. phases' = [phases EXCEPT ![inst[p]] = "creating"] /\ startable' = startable
      BY <1>1, <3>1, <3>2 DEF phases, startable, Launch, fifo
    <3>4. OCI!Create(inst[p])
      BY <3>1, <3>3 DEF OCI!Create
    <3> QED BY <2>1, <3>4 DEF Refines, OCI!OCINext
  <2>3. CASE fs["dir"] = None
    <3>1. UNCHANGED <<mon, init, initFifo, released>>
      BY <1>1, <2>3 DEF Launch, fifo
    <3> QED BY <3>1 DEF Refines, phases, startable
  <2> QED BY <2>2, <2>3
<1>2. CASE Stop(p)
  <2>1. /\ \A j \in Instances : \/ phases[j] # "none" /\ phases'[j] = "stopped"
                                \/ phases'[j] = phases[j]
        /\ startable' = startable
    <3>1. CASE UNCHANGED <<mon, init>>
      BY <1>2, <3>1 DEF Stop, phases, fifo, startable
    <3>2. ASSUME NEW i \in Instances, Owns(i), init[i] \in Alive,
                 init' = [init EXCEPT ![i] = "zombie"], mon' = mon
          PROVE  /\ \A j \in Instances : \/ phases[j] # "none" /\ phases'[j] = "stopped"
                                         \/ phases'[j] = phases[j]
                 /\ startable' = startable
      BY <1>0, <1>2, <3>2, PhaseValues, PhaseFacts DEF Stop, Owns, Alive, Created, fifo, startable
    <3>3. ASSUME NEW i \in Instances, Owns(i), init[i] = "none",
                 mon' = [mon EXCEPT ![i] = "stopping"], init' = init
          PROVE  /\ \A j \in Instances : \/ phases[j] # "none" /\ phases'[j] = "stopped"
                                         \/ phases'[j] = phases[j]
                 /\ startable' = startable
      BY <1>0, <1>2, <3>3, PhaseValues, PhaseFacts DEF Stop, Owns, fifo, startable
    <3> QED BY <1>2, <3>1, <3>2, <3>3 DEF Stop
  <2> QED BY <2>1, Ends DEF Refines
<1>3. CASE KillCgroupProcs(p)
  <2>1. PICK hit \in SUBSET Instances :
          /\ mon' = [i \in Instances |-> IF i \in hit /\ Owns(i) THEN "exited" ELSE mon[i]]
          /\ init' = [i \in Instances |->
                        IF i \in hit /\ init[i] # "none" THEN "gone" ELSE init[i]]
    BY <1>3 DEF KillCgroupProcs
  <2>2. ASSUME NEW j \in Instances
        PROVE  \/ phases[j] # "none" /\ phases'[j] = "stopped"
               \/ phases'[j] = phases[j]
    <3>1. CASE j \notin hit
      BY <1>0, <2>1, <3>1
    <3>2. CASE j \in hit /\ Owns(j)
      BY <1>0, <2>1, <3>2, PhaseValues, PhaseFacts DEF Owns
    <3>3. CASE j \in hit /\ ~Owns(j)
      BY <1>0, <2>1, <3>3, PhaseValues DEF Owns, InitHasMonitor, MonStates, InitStates, Alive, Created
    <3> QED BY <3>1, <3>2, <3>3
  <2>3. startable' = startable
    BY <1>3, <2>1 DEF KillCgroupProcs, fifo, startable
  <2> QED BY <2>2, <2>3, Ends DEF Refines
<1>4. CASE OpenFifo(p)
  <2> DEFINE S == {i \in Instances : init[i] # "none" /\ initFifo[i] = fs["syncfifo"]}
  <2>1. CASE fs["syncfifo"] # None
    <3>1. phases' = phases
      BY <1>0, <1>4, <2>1, PhaseValues, Stutters
         DEF OpenFifo, Writes, InitHasMonitor, Alive, Created, phases
    <3>2. startable' = startable \cup S
      BY <1>4, <2>1 DEF OpenFifo, Writes, startable
    <3>3. \A i \in S : phases[i] \notin {"none", "creating"}
      BY <1>0, PhaseValues DEF InitHasMonitor, InitStates, Created
    <3>4. OCI!AskStart(S)
      BY <3>1, <3>2, <3>3 DEF OCI!AskStart
    <3> QED BY <3>4 DEF Refines, OCI!OCINext
  <2>2. CASE fs["syncfifo"] = None
    <3>1. UNCHANGED <<mon, init, initFifo, released>>
      BY <1>4, <2>2 DEF OpenFifo
    <3> QED BY <3>1 DEF Refines, phases, startable
  <2> QED BY <2>1, <2>2
<1>5. CASE ~TouchesInit(p)
  <2>1. UNCHANGED <<mon, init, initFifo>>
    BY <1>5, OthersLeaveInit
  <2>2. UNCHANGED released
    <3>1. CASE Looks(p) \/ ChangesFiles(p)
      BY <3>1, LooksChangeNothing, FileStepsChangeFiles DEF containerVars, fifo
    <3>2. CASE DeleteCgroup(p) \/ Attach(p) \/ ReadFifo(p) \/ ReadFifoEof(p)
      BY <3>2 DEF DeleteCgroup, Attach, ReadFifo, ReadFifoEof, fifo
    <3>3. CASE InvokeCreate(p) \/ Invoke(p) \/ Timeout(p) \/ Abort(p)
      BY <3>3 DEF InvokeCreate, Invoke, Timeout, Abort, containerVars
    <3> QED BY <1>5, <3>1, <3>2, <3>3, StepKinds DEF TouchesInit, ChangesProcesses, ChangesFifo
  <2> QED BY <2>1, <2>2 DEF Refines, phases, startable
<1> QED BY <1>1, <1>2, <1>3, <1>4, <1>5 DEF TouchesInit

-----------------------------------------------------------------------------
\* Whatever commands are invoked, fail, die or run into their deadlines, the
\* containers of one ID live as OCIContainer says: each is created once, becomes
\* created while no other is live, runs only after a start was asked for it, and
\* ends for good.
THEOREM RefinesOCI == Spec => ImplementsOCI
<1>1. Init => OCI!OCIInit
  <2> SUFFICES ASSUME Init PROVE OCI!OCIInit
    OBVIOUS
  <2>1. \A i \in Instances : PhaseOf(mon[i], init[i]) = "none"
    BY PhaseValues DEF Init, ContainerInit
  <2>2. startable = {}
    BY DEF Init, ContainerInit, startable
  <2> QED BY <2>1, <2>2 DEF phases, OCI!OCIInit
<1>2. IInv /\ [Next]_vars => [OCI!OCINext]_<<phases, startable>>
  <2> SUFFICES ASSUME IInv, [Next]_vars PROVE Refines
    BY DEF Refines
  <2>1. CASE UNCHANGED vars
    BY <2>1 DEF vars, Refines, phases, startable
  <2> QED BY <2>1, CommandRefines, MonitorRefines, InitRefines DEF Next, Progress
<1> QED BY <1>1, <1>2, Invariance, PTL DEF Spec, ImplementsOCI, OCI!OCISpec

=============================================================================
