------------------------------ MODULE Container ------------------------------
(***************************************************************************)
(* What one container ID of crio-lxc consists of outside the crio-lxc      *)
(* command itself: the files of its runtime directory, the liblxc monitor  *)
(* (crio-lxc-start), the container init (crio-lxc-init), the other         *)
(* processes of its cgroup, and the syncfifo on which init waits for       *)
(* `crio-lxc start'.  Module Runtime adds the commands.                    *)
(*                                                                         *)
(* Every invocation of `crio-lxc create' is an INSTANCE.  A file, a        *)
(* monitor and an init are named by the instance that made them, so that   *)
(* leftovers of an earlier create of the same container ID can be told     *)
(* from what a later create made.                                          *)
(***************************************************************************)
EXTENDS Naturals, FiniteSets

CONSTANTS Procs,      \* slots in which crio-lxc commands run concurrently
          Instances,  \* invocations of `crio-lxc create' for the container ID
          None        \* no instance: a file that does not exist, an fd not open

ASSUME NoneAssumption == None \notin Instances

(***************************************************************************)
(* The runtime directory.  ".config" is the lxc config until saveConfig    *)
(* renames it to "config"; "initdir" is the directory .crio-lxc.           *)
(***************************************************************************)
Files == {"dir", ".config", "container.json", "initdir", "syncfifo", "config"}

VARIABLES
  fs,        \* the instance that made each file, None if it does not exist
  encoded,   \* instances whose container.json is completely written
  pidfile,   \* instances whose pid file exists (outside the runtime directory)
  mon,       \* the crio-lxc-start process of each instance
  init,      \* the crio-lxc-init process of each instance
  initFifo,  \* the syncfifo that init has bind mounted on its file system
  stray,     \* instances with a process besides init in the cgroup
  cgroup,    \* does the cgroup directory of the container exist
  pipe,      \* unread messages: <<fifo, the instance whose init wrote it>>
  rfd,       \* the syncfifo a command has open for reading
  rd,        \* is the command's open still waiting for a writer
  released,  \* history: syncfifos that some start command opened
  acks       \* history: how many start commands read the message of an init

disk      == <<fs, encoded, pidfile>>
processes == <<mon, init, initFifo, stray, cgroup>>
fifo      == <<pipe, rfd, rd, released, acks>>
containerVars == <<fs, encoded, pidfile, mon, init, initFifo, stray, cgroup,
                   pipe, rfd, rd, released, acks>>

MonStates  == {"none", "exec", "starting", "running", "stopping", "exited"}
InitStates == {"none", "loading", "opening", "opened", "written", "user",
               "zombie", "gone"}

ContainerTypeOK ==
  /\ fs \in [Files -> Instances \cup {None}]
  /\ encoded \subseteq Instances
  /\ pidfile \subseteq Instances
  /\ mon \in [Instances -> MonStates]
  /\ init \in [Instances -> InitStates]
  /\ initFifo \in [Instances -> Instances \cup {None}]
  /\ stray \subseteq Instances
  /\ cgroup \in BOOLEAN
  /\ pipe \subseteq Instances \X Instances
  /\ rfd \in [Procs -> Instances \cup {None}]
  /\ rd \in [Procs -> {"none", "waiting", "open"}]
  /\ released \subseteq Instances
  /\ acks \in [Instances -> Nat]

ContainerInit ==
  /\ fs = [f \in Files |-> None]
  /\ encoded = {}
  /\ pidfile = {}
  /\ mon = [i \in Instances |-> "none"]
  /\ init = [i \in Instances |-> "none"]
  /\ initFifo = [i \in Instances |-> None]
  /\ stray = {}
  /\ cgroup = FALSE
  /\ pipe = {}
  /\ rfd = [p \in Procs |-> None]
  /\ rd = [p \in Procs |-> "none"]
  /\ released = {}
  /\ acks = [i \in Instances |-> 0]

-----------------------------------------------------------------------------
(***************************************************************************)
(* What liblxc answers about the container name.                           *)
(***************************************************************************)

\* The monitor holds the command socket of the name: at most one does.
Owns(i) == mon[i] \in {"starting", "running", "stopping"}

\* Container.State() == lxc.STOPPED: nobody answers on the command socket.
LxcStopped == \A i \in Instances : ~Owns(i)

\* Container.State() == lxc.RUNNING.
LxcRunning == \E i \in Instances : mon[i] = "running"

\* Container.State() == lxc.STARTING.
LxcStarting == \E i \in Instances : mon[i] = "starting"

\* /proc/<pid>/cmdline is still "/.crio-lxc/init <id>" in these states of init.
Created == {"loading", "opening", "opened", "written"}

\* A process that can still do something: a zombie cannot.
Alive == Created \cup {"user"}

\* What the command line of init's pid tells.  That of a zombie is empty, which
\* is neither missing nor the command line of crio-lxc-init.
InitStatus(i) ==
  IF init[i] \in {"none", "gone"} THEN "stopped"
  ELSE IF init[i] \in Created THEN "created" ELSE "running"

\* getContainerInitState: InitPid() asks the owner of the command socket.
InitStateIs(s) ==
  IF LxcStopped THEN s = "stopped"
  ELSE \E i \in Instances : Owns(i) /\ s = InitStatus(i)

\* cgroup.events says "populated 1": monitor, init and strays live below CgroupDir.
InCgroup(i) == Owns(i) \/ init[i] \in Alive \/ i \in stray
Populated == \E i \in Instances : InCgroup(i)

-----------------------------------------------------------------------------
(***************************************************************************)
(* crio-lxc-start: load the config, start the container, wait for its end. *)
(***************************************************************************)

\* MUTANT of StartLoadsConfig: a second monitor starts under the name of a live one.
StartLoadsConfigAnyway(i) ==
  /\ mon[i] = "exec"
  /\ fs["config"] # None
  /\ mon' = [mon EXCEPT ![i] = "starting"]
  /\ cgroup' = TRUE
  /\ UNCHANGED <<init, initFifo, stray, disk, fifo>>

StartLoadsConfig(i) ==
  /\ mon[i] = "exec"
  /\ fs["config"] # None
  /\ LxcStopped
  /\ mon' = [mon EXCEPT ![i] = "starting"]
  /\ cgroup' = TRUE
  /\ UNCHANGED <<init, initFifo, stray, disk, fifo>>

\* The container can not be created, the config not loaded, or start() fails
\* before it holds the command socket (another monitor may hold it).
StartFails(i) ==
  /\ mon[i] = "exec"
  /\ mon' = [mon EXCEPT ![i] = "exited"]
  /\ UNCHANGED <<init, initFifo, stray, cgroup, disk, fifo>>

\* The namespaces, mounts and hooks are set up and crio-lxc-init is executed.
\* The bind mount of initdir fixes which syncfifo init will find.
SpawnInit(i) ==
  /\ mon[i] = "starting"
  /\ init[i] = "none"
  /\ fs["syncfifo"] # None
  /\ init' = [init EXCEPT ![i] = "loading"]
  /\ initFifo' = [initFifo EXCEPT ![i] = fs["syncfifo"]]
  /\ UNCHANGED <<mon, stray, cgroup, disk, fifo>>

\* A mount source is missing or a hook fails: no init is ever executed.
SetupFails(i) ==
  /\ mon[i] = "starting"
  /\ init[i] = "none"
  /\ mon' = [mon EXCEPT ![i] = "stopping"]
  /\ UNCHANGED <<init, initFifo, stray, cgroup, disk, fifo>>

SetRunning(i) ==
  /\ mon[i] = "starting"
  /\ init[i] # "none"
  /\ mon' = [mon EXCEPT ![i] = "running"]
  /\ UNCHANGED <<init, initFifo, stray, cgroup, disk, fifo>>

MonitorReaps(i) ==
  /\ Owns(i)
  /\ init[i] = "zombie"
  /\ init' = [init EXCEPT ![i] = "gone"]
  /\ mon' = [mon EXCEPT ![i] = "stopping"]
  /\ UNCHANGED <<initFifo, stray, cgroup, disk, fifo>>

MonitorExits(i) ==
  /\ mon[i] = "stopping"
  /\ mon' = [mon EXCEPT ![i] = "exited"]
  /\ UNCHANGED <<init, initFifo, stray, cgroup, disk, fifo>>

-----------------------------------------------------------------------------
(***************************************************************************)
(* crio-lxc-init: load environment and arguments, block in open(syncfifo,  *)
(* O_WRONLY) until a reader comes, write the container ID, exec the user   *)
(* program.                                                                *)
(***************************************************************************)

\* An init that is in open(O_WRONLY), or through it and about to write.
Writes(i, f) == init[i] \in {"opening", "opened"} /\ initFifo[i] = f

\* MUTANT of InitReady: the fifo is opened O_RDWR, which never waits for a reader.
InitReadyDoesNotWait(i) ==
  /\ init[i] = "loading"
  /\ fs["syncfifo"] = initFifo[i]
  /\ init' = [init EXCEPT ![i] = "opened"]
  /\ rd' = [p \in Procs |-> IF rfd[p] = initFifo[i] THEN "open" ELSE rd[p]]
  /\ UNCHANGED <<mon, initFifo, stray, cgroup, disk, pipe, rfd, released, acks>>

\* environ and cmdline are loaded and the open of the syncfifo finds it.  The open
\* returns at once if a reader is there, and wakes the readers that wait for it.
InitReady(i) ==
  /\ init[i] = "loading"
  /\ fs["syncfifo"] = initFifo[i]
  /\ init' = [init EXCEPT ![i] = IF \E p \in Procs : rfd[p] = initFifo[i]
                                 THEN "opened" ELSE "opening"]
  /\ rd' = [p \in Procs |-> IF rfd[p] = initFifo[i] THEN "open" ELSE rd[p]]
  /\ UNCHANGED <<mon, initFifo, stray, cgroup, disk, pipe, rfd, released, acks>>

\* MUTANT of InitFails: ERROR reports but does not exit, and init goes on to exec.
InitFailsGoesOn(i) ==
  /\ init[i] \in {"loading", "written"}
  /\ init' = [init EXCEPT ![i] = "user"]
  /\ UNCHANGED <<mon, initFifo, stray, cgroup, disk, fifo>>

\* One of the ERROR exits: a file that can not be read, no syncfifo, a failing
\* chdir or execvp.
InitFails(i) ==
  /\ init[i] \in {"loading", "written"}
  /\ init' = [init EXCEPT ![i] = "zombie"]
  /\ UNCHANGED <<mon, initFifo, stray, cgroup, disk, fifo>>

\* write() and close(): the pipe is deeper than the container ID.
InitWrites(i) ==
  /\ init[i] = "opened"
  /\ \E p \in Procs : rfd[p] = initFifo[i]
  /\ init' = [init EXCEPT ![i] = "written"]
  /\ pipe' = pipe \cup {<<initFifo[i], i>>}
  /\ UNCHANGED <<mon, initFifo, stray, cgroup, disk, rfd, rd, released, acks>>

\* write() without a reader: SIGPIPE.
InitBrokenPipe(i) ==
  /\ init[i] = "opened"
  /\ \A p \in Procs : rfd[p] # initFifo[i]
  /\ init' = [init EXCEPT ![i] = "zombie"]
  /\ UNCHANGED <<mon, initFifo, stray, cgroup, disk, fifo>>

\* chdir("cwd"), close_extra_fds and execvp.
InitExec(i) ==
  /\ init[i] = "written"
  /\ init' = [init EXCEPT ![i] = "user"]
  /\ UNCHANGED <<mon, initFifo, stray, cgroup, disk, fifo>>

-----------------------------------------------------------------------------
(***************************************************************************)
(* The kernel and the user program.                                        *)
(***************************************************************************)

\* The user program ends, or init is killed by somebody else (OOM, a user).
InitDies(i) ==
  /\ init[i] \in {"opening", "opened", "user"}
  /\ init' = [init EXCEPT ![i] = "zombie"]
  /\ UNCHANGED <<mon, initFifo, stray, cgroup, disk, fifo>>

\* The user program forks.  With a shared pid namespace the child outlives init.
Forks(i) ==
  /\ init[i] = "user"
  /\ stray' = stray \cup {i}
  /\ UNCHANGED <<mon, init, initFifo, cgroup, disk, fifo>>

StrayExits(i) ==
  /\ i \in stray
  /\ stray' = stray \ {i}
  /\ UNCHANGED <<mon, init, initFifo, cgroup, disk, fifo>>

\* What happens without being asked: the monitor's and init's own progress.
Progress(i) ==
  \/ StartLoadsConfig(i) \/ StartFails(i) \/ SpawnInit(i) \/ SetupFails(i)
  \/ SetRunning(i) \/ MonitorReaps(i) \/ MonitorExits(i)
  \/ InitReady(i) \/ InitFails(i) \/ InitWrites(i)
  \/ InitBrokenPipe(i) \/ InitExec(i)

\* What may or may not happen.
Accident(i) == InitDies(i) \/ Forks(i) \/ StrayExits(i)

=============================================================================
