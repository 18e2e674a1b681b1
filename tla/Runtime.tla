------------------------------- MODULE Runtime -------------------------------
(***************************************************************************)
(* The crio-lxc commands (create, start, state, kill, delete, exec) that   *)
(* run concurrently on one container ID.  Nothing but the file system,     *)
(* liblxc's command socket and the syncfifo orders them: crio-lxc takes no *)
(* lock.  One step of a command is one system call (or one call of liblxc) *)
(* that reads or changes what others can see; purely local work between    *)
(* two such calls belongs to the later step.                               *)
(***************************************************************************)
EXTENDS Container

CONSTANTS Ops,        \* the commands that are invoked
          MaxAborts   \* how many commands die or fail for a reason of their own

AllOps == {"create", "start", "state", "kill", "term", "signal", "delete",
           "force", "exec"}

ASSUME OpsAssumption == Ops \subseteq AllOps
ASSUME MaxAbortsAssumption == MaxAborts \in Nat

VARIABLES
  pc,      \* the next step of the command in a slot, "idle" between commands
  op,      \* the command: kill and term are Kill with SIGKILL and SIGTERM,
           \* signal is Kill with another signal, force is delete --force
  inst,    \* the instance a command is about (see the steps that set it)
  res,     \* what the last command of the slot returned
  used,    \* instances that a create command was invoked for
  seen,    \* history: the status that state last reported of an instance
  aborts   \* number of aborted commands so far

command == <<pc, op, inst, res, used, seen, aborts>>
vars == <<fs, encoded, pidfile, mon, init, initFifo, stray, cgroup,
          pipe, rfd, rd, released, acks, pc, op, inst, res, used, seen, aborts>>

CreateSteps == {"check", "mkdir", "excl", "info", "encode", "initdir", "mkfifo",
                "statTmp", "statConfig", "saveFile", "rename", "launch",
                "waitCreated", "createdInit", "createPid"}
LoadSteps   == {"load", "loadInfo", "loadStat", "loadConfig"}
StartSteps  == {"startState", "startInit", "openFifo", "fifo", "waitNot"}
StateSteps  == {"readPid", "state", "stateInit"}
KillSteps   == {"killState", "stop", "waitStopped", "drain", "drainLoop", "signal"}
DeleteSteps == {"deleteState", "destroy", "deleteCgroup", "removeAll"}
Steps == CreateSteps \cup LoadSteps \cup StartSteps \cup StateSteps
         \cup KillSteps \cup DeleteSteps \cup {"attach"}

CommandTypeOK ==
  /\ pc \in [Procs -> Steps \cup {"idle"}]
  /\ op \in [Procs -> AllOps \cup {"none"}]
  /\ inst \in [Procs -> Instances \cup {None}]
  /\ res \in [Procs -> {"none", "ok", "fail", "abort"}]
  /\ used \subseteq Instances
  /\ seen \in [Instances -> 0 .. 4]
  /\ aborts \in 0 .. MaxAborts

TypeOK == ContainerTypeOK /\ CommandTypeOK

Init ==
  /\ ContainerInit
  /\ pc = [p \in Procs |-> "idle"]
  /\ op = [p \in Procs |-> "none"]
  /\ inst = [p \in Procs |-> None]
  /\ res = [p \in Procs |-> "none"]
  /\ used = {}
  /\ seen = [i \in Instances |-> 0]
  /\ aborts = 0

-----------------------------------------------------------------------------
(***************************************************************************)
(* Control of a command.                                                   *)
(***************************************************************************)

Goto(p, step) ==
  /\ pc' = [pc EXCEPT ![p] = step]
  /\ UNCHANGED <<op, inst, res, used, seen, aborts>>

GotoWith(p, step, i) ==
  /\ pc' = [pc EXCEPT ![p] = step]
  /\ inst' = [inst EXCEPT ![p] = i]
  /\ UNCHANGED <<op, res, used, seen, aborts>>

Return(p, r) ==
  /\ pc' = [pc EXCEPT ![p] = "idle"]
  /\ res' = [res EXCEPT ![p] = r]
  /\ UNCHANGED <<op, inst, used, seen, aborts>>

\* A command without inputs of its own: the container runtime interface (CRI-O
\* or a user) invokes it at any time, whatever the commands before returned.
Invoke(p) ==
  /\ pc[p] = "idle"
  /\ \E o \in Ops \ {"create"} :
       /\ op' = [op EXCEPT ![p] = o]
       /\ pc' = [pc EXCEPT ![p] = "load"]
       /\ inst' = [inst EXCEPT ![p] = None]
       /\ res' = [res EXCEPT ![p] = "none"]
  /\ UNCHANGED <<used, seen, aborts, containerVars>>

InvokeCreate(p) ==
  /\ pc[p] = "idle"
  /\ "create" \in Ops
  /\ \E i \in Instances \ used :
       /\ used' = used \cup {i}
       /\ inst' = [inst EXCEPT ![p] = i]
  /\ op' = [op EXCEPT ![p] = "create"]
  /\ pc' = [pc EXCEPT ![p] = "check"]
  /\ res' = [res EXCEPT ![p] = "none"]
  /\ UNCHANGED <<seen, aborts, containerVars>>

\* Closing the syncfifo: what nobody is left to read is lost.
CloseFifo(p, unread) ==
  /\ rfd' = [rfd EXCEPT ![p] = None]
  /\ rd' = [rd EXCEPT ![p] = "none"]
  /\ pipe' = {m \in unread : m[1] # rfd[p] \/ \E q \in Procs \ {p} : rfd[q] = rfd[p]}

\* The steps that wait for something, all of them until a deadline.
Polling == {"waitCreated", "fifo", "waitNot", "waitStopped", "drainLoop"}

\* MUTANT of Timeout: the context's error is a result of its own.
TimeoutIsNoFailure(p) ==
  /\ pc[p] \in Polling
  /\ Return(p, "timeout")
  /\ CloseFifo(p, pipe)
  /\ UNCHANGED <<released, acks, disk, processes>>

\* MUTANT of Timeout: a start that got no message opens the fifo again.
TimeoutRetries(p) ==
  /\ pc[p] \in Polling
  /\ IF pc[p] = "fifo" THEN Goto(p, "openFifo") ELSE Return(p, "fail")
  /\ CloseFifo(p, pipe)
  /\ UNCHANGED <<released, acks, disk, processes>>

\* ctx.Done().  When it ends the wait for STOPPED the drain that follows fails
\* too: its first look is at the same context.
Timeout(p) ==
  /\ pc[p] \in Polling
  /\ Return(p, "fail")
  /\ CloseFifo(p, pipe)
  /\ UNCHANGED <<released, acks, disk, processes>>

\* Any other failure of the command's own: an I/O error, a check of the
\* environment or of the spec, a missing console, or the process is killed.
\* No error path of crio-lxc undoes anything or stops the monitor it started.
Abort(p) ==
  /\ pc[p] # "idle"
  /\ aborts < MaxAborts
  /\ aborts' = aborts + 1
  /\ pc' = [pc EXCEPT ![p] = "idle"]
  /\ res' = [res EXCEPT ![p] = "abort"]
  /\ CloseFifo(p, pipe)
  /\ UNCHANGED <<op, inst, used, seen, released, acks, disk, processes>>

-----------------------------------------------------------------------------
(***************************************************************************)
(* create: Create, createContainer, configureContainer, runStartCmd.       *)
(***************************************************************************)

\* Open a new file with O_EXCL (or make a fifo or a directory) in parent.
CanMake(f, parent) == fs[f] = None /\ fs[parent] # None
Make(f, i) == fs' = [fs EXCEPT ![f] = i] /\ UNCHANGED <<encoded, pidfile>>

\* Create and createContainer both look for the directory; the second look
\* decides whenever the first does not.
CheckNotExist(p) ==
  /\ pc[p] = "check"
  /\ \/ fs["dir"] # None /\ Return(p, "fail")
     \/ fs["dir"] = None /\ Goto(p, "mkdir")
  /\ UNCHANGED containerVars

\* os.MkdirAll succeeds on a directory that another create made meanwhile.
MakeDir(p) ==
  /\ pc[p] = "mkdir"
  /\ Goto(p, "excl")
  /\ fs' = [fs EXCEPT !["dir"] = IF @ = None THEN inst[p] ELSE @]
  /\ UNCHANGED <<encoded, pidfile, processes, fifo>>

MakeConfigTmp(p) ==
  /\ pc[p] = "excl"
  /\ \/ CanMake(".config", "dir") /\ Make(".config", inst[p]) /\ Goto(p, "info")
     \/ ~CanMake(".config", "dir") /\ Return(p, "fail") /\ UNCHANGED disk
  /\ UNCHANGED <<processes, fifo>>

\* MUTANT of CreateInfo: container.json is opened without O_EXCL.
CreateInfoNotExclusive(p) ==
  /\ pc[p] = "info"
  /\ \/ fs["dir"] # None /\ Make("container.json", inst[p]) /\ Goto(p, "encode")
     \/ fs["dir"] = None /\ Return(p, "fail") /\ UNCHANGED disk
  /\ UNCHANGED <<processes, fifo>>

\* ContainerInfo.Create opens container.json exclusively, then encodes it.
CreateInfo(p) ==
  /\ pc[p] = "info"
  /\ \/ /\ CanMake("container.json", "dir")
        /\ Make("container.json", inst[p])
        /\ Goto(p, "encode")
     \/ ~CanMake("container.json", "dir") /\ Return(p, "fail") /\ UNCHANGED disk
  /\ UNCHANGED <<processes, fifo>>

EncodeInfo(p) ==
  /\ pc[p] = "encode"
  /\ encoded' = encoded \cup {inst[p]}
  /\ Goto(p, "initdir")
  /\ UNCHANGED <<fs, pidfile, processes, fifo>>

\* configureInit: os.MkdirAll(.crio-lxc) also makes a removed runtime directory.
MakeInitDir(p) ==
  /\ pc[p] = "initdir"
  /\ Goto(p, "mkfifo")
  /\ fs' = [f \in Files |-> IF f \in {"dir", "initdir"} /\ fs[f] = None
                            THEN inst[p] ELSE fs[f]]
  /\ UNCHANGED <<encoded, pidfile, processes, fifo>>

MakeFifo(p) ==
  /\ pc[p] = "mkfifo"
  /\ \/ CanMake("syncfifo", "initdir") /\ Make("syncfifo", inst[p]) /\ Goto(p, "statTmp")
     \/ ~CanMake("syncfifo", "initdir") /\ Return(p, "fail") /\ UNCHANGED disk
  /\ UNCHANGED <<processes, fifo>>

\* saveConfig: stat .config, stat config, write .config, rename it.
StatConfigTmp(p) ==
  /\ pc[p] = "statTmp"
  /\ \/ fs[".config"] = None /\ Return(p, "fail")
     \/ fs[".config"] # None /\ Goto(p, "statConfig")
  /\ UNCHANGED containerVars

StatConfig(p) ==
  /\ pc[p] = "statConfig"
  /\ \/ fs["config"] # None /\ Return(p, "fail")
     \/ fs["config"] = None /\ Goto(p, "saveFile")
  /\ UNCHANGED containerVars

\* SaveConfigFile replaces the content, and makes the file again if it is gone.
SaveConfigFile(p) ==
  /\ pc[p] = "saveFile"
  /\ \/ fs["dir"] # None /\ Make(".config", inst[p]) /\ Goto(p, "rename")
     \/ fs["dir"] = None /\ Return(p, "fail") /\ UNCHANGED disk
  /\ UNCHANGED <<processes, fifo>>

RenameConfig(p) ==
  /\ pc[p] = "rename"
  /\ \/ /\ fs[".config"] # None
        /\ fs' = [fs EXCEPT !["config"] = fs[".config"], ![".config"] = None]
        /\ UNCHANGED <<encoded, pidfile>>
        /\ Goto(p, "launch")
     \/ fs[".config"] = None /\ Return(p, "fail") /\ UNCHANGED disk
  /\ UNCHANGED <<processes, fifo>>

\* The monitor is started in the runtime directory.
Launch(p) ==
  /\ pc[p] = "launch"
  /\ \/ /\ fs["dir"] # None
        /\ mon' = [mon EXCEPT ![inst[p]] = "exec"]
        /\ Goto(p, "waitCreated")
     \/ fs["dir"] = None /\ Return(p, "fail") /\ UNCHANGED mon
  /\ UNCHANGED <<init, initFifo, stray, cgroup, disk, fifo>>

\* MUTANT of WaitCreated: it waits until the container is not STOPPED any more.
WaitCreatedNotStopped(p) ==
  /\ pc[p] = "waitCreated"
  /\ \/ ~LxcStopped /\ Goto(p, "createdInit")
     \/ mon[inst[p]] = "exited" /\ Return(p, "fail")
  /\ UNCHANGED containerVars

\* waitCreated: the goroutine that waits for the monitor cancels the context.
WaitCreated(p) ==
  /\ pc[p] = "waitCreated"
  /\ \/ LxcRunning /\ Goto(p, "createdInit")
     \/ mon[inst[p]] = "exited" /\ Return(p, "fail")
  /\ UNCHANGED containerVars

CheckCreatedInit(p) ==
  /\ pc[p] = "createdInit"
  /\ \/ InitStateIs("created") /\ Goto(p, "createPid")
     \/ ~InitStateIs("created") /\ Return(p, "fail")
  /\ UNCHANGED containerVars

CreatePidFile(p) ==
  /\ pc[p] = "createPid"
  /\ pidfile' = pidfile \cup {inst[p]}
  /\ Return(p, "ok")
  /\ UNCHANGED <<fs, encoded, processes, fifo>>

-----------------------------------------------------------------------------
(***************************************************************************)
(* loadContainer, the first thing every other command does.  delete goes   *)
(* on with what could be loaded; the others fail.                          *)
(***************************************************************************)

IsDelete(p) == op[p] \in {"delete", "force"}

\* ErrNotExist is success for delete.
LoadCheckDir(p) ==
  /\ pc[p] = "load"
  /\ \/ fs["dir"] # None /\ Goto(p, "loadInfo")
     \/ fs["dir"] = None /\ Return(p, IF IsDelete(p) THEN "ok" ELSE "fail")
  /\ UNCHANGED containerVars

\* MUTANT of LoadInfo: every command fails on a container.json it can not read.
LoadInfoOrFail(p) ==
  /\ pc[p] = "loadInfo"
  /\ \/ /\ fs["container.json"] \in encoded
        /\ GotoWith(p, "loadStat", fs["container.json"])
     \/ fs["container.json"] \notin encoded /\ Return(p, "fail")
  /\ UNCHANGED containerVars

\* delete goes on without a container and without a cgroup path: it only has
\* the runtime directory left to remove.
LoadInfo(p) ==
  /\ pc[p] = "loadInfo"
  /\ \/ /\ fs["container.json"] \in encoded
        /\ GotoWith(p, "loadStat", fs["container.json"])
     \/ /\ fs["container.json"] \notin encoded
        /\ IF IsDelete(p) THEN Goto(p, "removeAll") ELSE Return(p, "fail")
  /\ UNCHANGED containerVars

\* delete goes on without a container.
LoadStatConfig(p) ==
  /\ pc[p] = "loadStat"
  /\ \/ fs["config"] # None /\ Goto(p, "loadConfig")
     \/ /\ fs["config"] = None
        /\ IF IsDelete(p) THEN Goto(p, "deleteCgroup") ELSE Return(p, "fail")
  /\ UNCHANGED containerVars

AfterLoad ==
  [start |-> "startState", state |-> "readPid", kill |-> "killState",
   term |-> "killState", signal |-> "killState", delete |-> "deleteState",
   force |-> "deleteState", exec |-> "attach"]

\* delete goes on without having looked at the container's state.
LoadConfigFile(p) ==
  /\ pc[p] = "loadConfig"
  /\ \/ fs["config"] # None /\ Goto(p, AfterLoad[op[p]])
     \/ /\ fs["config"] = None
        /\ IF IsDelete(p) THEN Goto(p, "destroy") ELSE Return(p, "fail")
  /\ UNCHANGED containerVars

-----------------------------------------------------------------------------
(***************************************************************************)
(* start: release the container init that waits in created state.          *)
(***************************************************************************)

\* getContainerState, first part: STOPPED and STARTING are answers themselves.
StartCheckState(p) ==
  /\ pc[p] = "startState"
  /\ \/ ~LxcStopped /\ ~LxcStarting /\ Goto(p, "startInit")
     \/ (LxcStopped \/ LxcStarting) /\ Return(p, "fail")
  /\ UNCHANGED containerVars

StartCheckInit(p) ==
  /\ pc[p] = "startInit"
  /\ \/ InitStateIs("created") /\ Goto(p, "openFifo")
     \/ ~InitStateIs("created") /\ Return(p, "fail")
  /\ UNCHANGED containerVars

\* readFifo: open(O_RDONLY) waits unless an init is a writer of the fifo, and ends
\* the wait of every init that is blocked in its own open.
OpenFifo(p) ==
  /\ pc[p] = "openFifo"
  /\ \/ /\ fs["syncfifo"] # None
        /\ rfd' = [rfd EXCEPT ![p] = fs["syncfifo"]]
        /\ rd' = [rd EXCEPT ![p] = IF \E i \in Instances : Writes(i, fs["syncfifo"])
                                   THEN "open" ELSE "waiting"]
        /\ init' = [i \in Instances |->
                      IF Writes(i, fs["syncfifo"]) THEN "opened" ELSE init[i]]
        /\ released' = released \cup {fs["syncfifo"]}
        /\ Goto(p, "fifo")
     \/ /\ fs["syncfifo"] = None
        /\ Return(p, "fail")
        /\ UNCHANGED <<rfd, rd, init, released>>
  /\ UNCHANGED <<pipe, acks, disk, mon, initFifo, stray, cgroup>>

\* The message is the container ID, the same for every instance.
ReadFifo(p) ==
  /\ pc[p] = "fifo"
  /\ rd[p] = "open"
  /\ \E m \in pipe :
       /\ m[1] = rfd[p]
       /\ acks' = [acks EXCEPT ![m[2]] = @ + 1]
       /\ CloseFifo(p, pipe \ {m})
       /\ GotoWith(p, "waitNot", m[2])
  /\ UNCHANGED <<released, disk, processes>>

\* MUTANT of ReadFifoEof: EOF is not taken for an error.
ReadFifoEofIsSuccess(p) ==
  /\ pc[p] = "fifo"
  /\ rd[p] = "open"
  /\ \A m \in pipe : m[1] # rfd[p]
  /\ \A i \in Instances : ~Writes(i, rfd[p])
  /\ \E i \in Instances :
       /\ initFifo[i] = rfd[p]
       /\ acks' = [acks EXCEPT ![i] = @ + 1]
       /\ GotoWith(p, "waitNot", i)
  /\ CloseFifo(p, pipe)
  /\ UNCHANGED <<released, disk, processes>>

\* Nothing to read and no writer left: read returns EOF, which is an error.
ReadFifoEof(p) ==
  /\ pc[p] = "fifo"
  /\ rd[p] = "open"
  /\ \A m \in pipe : m[1] # rfd[p]
  /\ \A i \in Instances : ~Writes(i, rfd[p])
  /\ CloseFifo(p, pipe)
  /\ Return(p, "fail")
  /\ UNCHANGED <<released, acks, disk, processes>>

\* MUTANT of WaitNotCreated: the message is taken for the change of state.
WaitNotAtAll(p) ==
  /\ pc[p] = "waitNot"
  /\ Return(p, "ok")
  /\ UNCHANGED containerVars

WaitNotCreated(p) ==
  /\ pc[p] = "waitNot"
  /\ ~InitStateIs("created")
  /\ Return(p, "ok")
  /\ UNCHANGED containerVars

-----------------------------------------------------------------------------
(***************************************************************************)
(* state                                                                   *)
(***************************************************************************)

\* MUTANT of ReadPid: a missing pid file is no error, as in killContainer.
ReadPidMayBeMissing(p) ==
  /\ pc[p] = "readPid"
  /\ Goto(p, "state")
  /\ UNCHANGED containerVars

\* The pid file that the loaded container.json names.
ReadPid(p) ==
  /\ pc[p] = "readPid"
  /\ \/ inst[p] \in pidfile /\ Goto(p, "state")
     \/ inst[p] \notin pidfile /\ Return(p, "fail")
  /\ UNCHANGED containerVars

\* The statuses in the order of the container's life.
Rank == [creating |-> 1, created |-> 2, running |-> 3, stopped |-> 4]

Report(p, s) ==
  /\ pc' = [pc EXCEPT ![p] = "idle"]
  /\ res' = [res EXCEPT ![p] = "ok"]
  /\ seen' = [seen EXCEPT ![inst[p]] = Rank[s]]
  /\ UNCHANGED <<op, inst, used, aborts>>

GetState(p) ==
  /\ pc[p] = "state"
  /\ \/ LxcStopped /\ Report(p, "stopped")
     \/ LxcStarting /\ Report(p, "creating")
     \/ ~LxcStopped /\ ~LxcStarting /\ Goto(p, "stateInit")
  /\ UNCHANGED containerVars

GetInitState(p) ==
  /\ pc[p] = "stateInit"
  /\ \E s \in {"created", "running", "stopped"} : InitStateIs(s) /\ Report(p, s)
  /\ UNCHANGED containerVars

-----------------------------------------------------------------------------
(***************************************************************************)
(* kill, with a terminating signal (kill, term) or another one (signal)    *)
(***************************************************************************)

KillCheckState(p) ==
  /\ pc[p] = "killState"
  /\ \/ LxcRunning /\ Goto(p, IF op[p] = "signal" THEN "signal" ELSE "stop")
     \/ ~LxcRunning /\ Return(p, "fail")
  /\ UNCHANGED containerVars

\* SIGTERM may be ignored by its receiver.
Deadly(p) == op[p] # "term"

\* Container.Stop: the monitor signals init, or gives up setting it up.
Stop(p) ==
  /\ pc[p] = "stop"
  /\ \/ LxcStopped /\ Return(p, "fail") /\ UNCHANGED <<mon, init>>
     \/ \E i \in Instances :
          /\ Owns(i)
          /\ GotoWith(p, "waitStopped", i)
          /\ \/ /\ init[i] \in Alive
                /\ init' = [init EXCEPT ![i] = "zombie"]
                /\ UNCHANGED mon
             \/ /\ init[i] = "none"
                /\ mon' = [mon EXCEPT ![i] = "stopping"]
                /\ UNCHANGED init
             \/ /\ init[i] \in {"zombie", "gone"} \/ ~Deadly(p)
                /\ UNCHANGED <<mon, init>>
  /\ UNCHANGED <<initFifo, stray, cgroup, disk, fifo>>

\* MUTANT of WaitStopped: a stopped container is not drained.
WaitStoppedIsAll(p) ==
  /\ pc[p] = "waitStopped"
  /\ LxcStopped
  /\ IF op[p] = "force" THEN Goto(p, "destroy") ELSE Return(p, "ok")
  /\ UNCHANGED containerVars

WaitStopped(p) ==
  /\ pc[p] = "waitStopped"
  /\ LxcStopped
  /\ Goto(p, "drain")
  /\ UNCHANGED containerVars

\* drainCgroup: a missing cgroup is an error that killContainer returns.
OpenCgroup(p) ==
  /\ pc[p] = "drain"
  /\ \/ cgroup /\ Goto(p, "drainLoop")
     \/ ~cgroup /\ Return(p, "fail")
  /\ UNCHANGED containerVars

\* A signal to everybody in the child cgroups, the monitors included.  Strays
\* that fork escape it; everybody may escape SIGTERM.  A monitor that dies leaves
\* its init to the reaper of the host.
KillCgroupProcs(p) ==
  /\ pc[p] = "drainLoop"
  /\ cgroup
  /\ Populated
  /\ \E hit \in SUBSET {i \in Instances : InCgroup(i)}, escaped \in SUBSET stray :
       /\ Deadly(p) => hit = {i \in Instances : InCgroup(i)}
       /\ mon' = [i \in Instances |-> IF i \in hit /\ Owns(i) THEN "exited" ELSE mon[i]]
       /\ init' = [i \in Instances |->
                     IF i \in hit /\ init[i] # "none" THEN "gone" ELSE init[i]]
       /\ stray' = (stray \ hit) \cup escaped
  /\ UNCHANGED <<initFifo, cgroup, disk, fifo, command>>

\* "populated 0", or the cgroup was removed while its events file is open.
CgroupDrained(p) ==
  /\ pc[p] = "drainLoop"
  /\ \/ ~cgroup /\ Return(p, "fail")
     \/ /\ cgroup /\ ~Populated
        /\ IF IsDelete(p) THEN Goto(p, "destroy") ELSE Return(p, "ok")
  /\ UNCHANGED containerVars

\* Another signal goes to the monitor whose pid the pid file holds.  The error
\* of unix.Kill is compared with ESRCH only: sending the signal is a failure.
Signal(p) ==
  /\ pc[p] = "signal"
  /\ IF inst[p] \in pidfile /\ mon[inst[p]] \notin {"none", "exited"}
     THEN Return(p, "fail") ELSE Return(p, "ok")
  /\ UNCHANGED containerVars

-----------------------------------------------------------------------------
(***************************************************************************)
(* delete and exec                                                         *)
(***************************************************************************)

DeleteCheckState(p) ==
  /\ pc[p] = "deleteState"
  /\ \/ LxcStopped /\ Goto(p, "destroy")
     \/ ~LxcStopped /\ op[p] = "force" /\ Goto(p, "stop")
     \/ ~LxcStopped /\ op[p] # "force" /\ Return(p, "fail")
  /\ UNCHANGED containerVars

\* Container.Destroy wants a defined and stopped container and removes nothing.
Destroy(p) ==
  /\ pc[p] = "destroy"
  /\ \/ fs["config"] # None /\ LxcStopped /\ Goto(p, "deleteCgroup")
     \/ ~(fs["config"] # None /\ LxcStopped) /\ Return(p, "fail")
  /\ UNCHANGED containerVars

\* A cgroup that is not empty stays; that is only worth a warning.
DeleteCgroup(p) ==
  /\ pc[p] = "deleteCgroup"
  /\ cgroup' = (cgroup /\ Populated)
  /\ Goto(p, "removeAll")
  /\ UNCHANGED <<mon, init, initFifo, stray, disk, fifo>>

\* os.RemoveAll removes the entries in the order the directory lists them.
RemoveFile(p) ==
  /\ pc[p] = "removeAll"
  /\ \E f \in Files \ {"dir"} :
       /\ fs[f] # None
       /\ f = "initdir" => fs["syncfifo"] = None
       /\ fs' = [fs EXCEPT ![f] = None]
  /\ UNCHANGED <<encoded, pidfile, processes, fifo, command>>

RemoveDir(p) ==
  /\ pc[p] = "removeAll"
  /\ \A f \in Files \ {"dir"} : fs[f] = None
  /\ fs' = [fs EXCEPT !["dir"] = None]
  /\ Return(p, "ok")
  /\ UNCHANGED <<encoded, pidfile, processes, fifo>>

\* Exec and ExecDetached: lxc attaches a process to the namespaces of init.
Attach(p) ==
  /\ pc[p] = "attach"
  /\ \/ \E i \in Instances :
          /\ Owns(i) /\ init[i] \in Alive
          /\ stray' = stray \cup {i}
          /\ Return(p, "ok")
     \/ /\ \A i \in Instances : ~(Owns(i) /\ init[i] \in Alive)
        /\ Return(p, "fail")
        /\ UNCHANGED stray
  /\ UNCHANGED <<mon, init, initFifo, cgroup, disk, fifo>>

-----------------------------------------------------------------------------
Step(p) ==
  \/ CheckNotExist(p) \/ MakeDir(p) \/ MakeConfigTmp(p) \/ CreateInfo(p)
  \/ EncodeInfo(p) \/ MakeInitDir(p) \/ MakeFifo(p) \/ StatConfigTmp(p)
  \/ StatConfig(p) \/ SaveConfigFile(p) \/ RenameConfig(p) \/ Launch(p)
  \/ WaitCreated(p) \/ CheckCreatedInit(p) \/ CreatePidFile(p)
  \/ LoadCheckDir(p) \/ LoadInfo(p) \/ LoadStatConfig(p) \/ LoadConfigFile(p)
  \/ StartCheckState(p) \/ StartCheckInit(p) \/ OpenFifo(p) \/ ReadFifo(p)
  \/ ReadFifoEof(p) \/ WaitNotCreated(p)
  \/ ReadPid(p) \/ GetState(p) \/ GetInitState(p)
  \/ KillCheckState(p) \/ Stop(p) \/ WaitStopped(p) \/ OpenCgroup(p)
  \/ KillCgroupProcs(p) \/ CgroupDrained(p) \/ Signal(p)
  \/ DeleteCheckState(p) \/ Destroy(p) \/ DeleteCgroup(p) \/ RemoveFile(p)
  \/ RemoveDir(p) \/ Attach(p)

Next ==
  \/ \E p \in Procs : InvokeCreate(p) \/ Invoke(p) \/ Step(p) \/ Timeout(p) \/ Abort(p)
  \/ \E i \in Instances : (Progress(i) \/ Accident(i)) /\ UNCHANGED command

Spec == Init /\ [][Next]_vars

-----------------------------------------------------------------------------
(***************************************************************************)
(* What the commands promise each other.                                   *)
(***************************************************************************)

Returned(p, o, r) == pc[p] = "idle" /\ op[p] = o /\ res[p] = r

\* crio-lxc-init never gets past the syncfifo, let alone to the user program,
\* before some start command has opened that very fifo: a container whose create,
\* kill or delete fails, is repeated or overtaken stays in created state.
NoRunBeforeStart ==
  \A i \in Instances :
    init[i] \in {"opened", "written", "user"} => initFifo[i] \in released

\* Of the start commands that race for one container at most one is told that it
\* released the container: readFifo succeeds once for every init, and only after
\* that init was let through.
StartAcknowledgedOnce ==
  \A i \in Instances :
    /\ acks[i] <= 1
    /\ acks[i] = 1 => init[i] \in {"written", "user", "zombie", "gone"}

\* A start that succeeds has seen its container leave the created state: the init
\* whose message it read executes the user program or is dead by now.
StartOkMeansStarted ==
  \A p \in Procs :
    Returned(p, "start", "ok") => inst[p] \in Instances /\ init[inst[p]] \notin Created

\* kill with SIGKILL or SIGTERM succeeds only when nothing is left of the container
\* it signalled: no monitor, no init and no process that escaped, for good.
KillOkMeansDead ==
  \A p \in Procs :
    Returned(p, "kill", "ok") \/ Returned(p, "term", "ok")
      => inst[p] \in Instances /\ ~InCgroup(inst[p])

\* "createContainer can only succeed once" as long as nobody deletes: however the
\* steps of two creates interleave, one of them loses at .config or container.json.
CreateOnce == \A i, j \in encoded : i = j

\* A create that succeeds created its own container: its monitor reached RUNNING
\* with an init that executed, and the pid file it wrote is that monitor's.
CreateOkMeansCreated ==
  \A p \in Procs :
    Returned(p, "create", "ok")
      => /\ mon[inst[p]] \in {"running", "stopping", "exited"}
         /\ init[inst[p]] # "none"

\* The statuses that successive state commands report of a container follow the
\* order creating, created, running, stopped and never go back.
StatusNeverRegresses == [][\A i \in Instances : seen[i] <= seen'[i]]_seen

-----------------------------------------------------------------------------
(***************************************************************************)
(* Liveness.  A command runs on unless it waits, every wait has a deadline *)
(* (context.WithTimeout in doCreate, doStart, doKill and doDelete), and    *)
(* monitor and init run on.  Nothing makes anyone invoke a command.        *)
(***************************************************************************)

Fairness ==
  /\ \A p \in Procs : WF_vars(Step(p)) /\ WF_vars(Timeout(p))
  /\ \A i \in Instances : WF_vars(Progress(i) /\ UNCHANGED command)

LiveSpec == Spec /\ Fairness

\* Every command returns, also the one that waits for something that never comes:
\* the start of a dead init, the drain of a cgroup whose processes keep forking.
CommandsReturn == \A p \in Procs : []<>(pc[p] = "idle")

\* The caller repeats delete --force (as CRI-O does until it succeeds).
ForceDelete(p) == Invoke(p) /\ op'[p] = "force"
DeleteIsRepeated == SF_vars(\E p \in Procs : ForceDelete(p))

\* Whatever a create, a start, a kill or a delete left behind when it died, failed
\* or ran into its deadline, repeated delete --force removes the runtime directory.
EventuallyDeleted == DeleteIsRepeated => <>[](fs["dir"] = None)

-----------------------------------------------------------------------------
(***************************************************************************)
(* The commands and processes implement the life of OCI containers.        *)
(***************************************************************************)

\* The phase of a container whose monitor is in state m and whose init in state n.
PhaseOf(m, n) ==
  CASE m = "none"                                     -> "none"
    [] m # "none" /\ n \in Created                    -> "created"
    [] m # "none" /\ n = "user"                       -> "running"
    [] m \in {"exec", "starting"} /\ n = "none"       -> "creating"
    [] OTHER                                          -> "stopped"

phases == [i \in Instances |-> PhaseOf(mon[i], init[i])]
startable == {i \in Instances : init[i] # "none" /\ initFifo[i] \in released}

OCI == INSTANCE OCIContainer WITH phase <- phases, asked <- startable

\* Through every interleaving of commands, deadlines, deaths and leftovers the
\* containers of the ID live as module OCIContainer says.
ImplementsOCI == OCI!OCISpec

=============================================================================
