# crio-lxc: TLA+ models, model checks and proofs

crio-lxc is an OCI runtime on top of liblxc. Every command (`create`, `start`,
`state`, `kill`, `delete`, `exec`) is a process of its own. The commands of one
container share nothing but the file system, liblxc's command socket, a fifo and
a cgroup, and take no lock. This project models what they do to each other.

## 1. Inventory

| part | source | state | operations | talks to |
|---|---|---|---|---|
| commands | `lxcontainer/runtime.go`, `create.go`, `cmd/cli.go` | program counter of each command, its deadline | create, start, state, kill, delete, exec | all below |
| runtime directory | `container.go`, `utils.go`, `init.go` | `.config`, `config`, `container.json`, `.crio-lxc/`, `syncfifo`, the pid file | exclusive create, encode, rename, stat, RemoveAll | every command, the monitor |
| monitor | `cmd/start/crio-lxc-start.c` (and liblxc) | STARTING, RUNNING, STOPPING, STOPPED | load config, start, reap, exit | init, cgroup; answers the commands' questions about the name |
| init | `cmd/init/crio-lxc-init.c` | loading, blocked in open, written, user program, zombie; its errno, environment, arguments and descriptors | load_environ, load_cmdline, ensure_HOME_exists, write the syncfifo, close_extra_fds, exec | `start` through the fifo, create through the files of `.crio-lxc` |
| cgroup | `cgroup.go` | processes, child and nested cgroups | drainCgroup, killCgroupProcs, deleteCgroup | kill, delete, liblxc |
| container hook | `cmd/container-hook/hook.c`, writers in `create.go` | rootfs, masked paths, errno | create_devices_at, mask_paths_at | run by the monitor before init |
| configuration | `create.go`, `init.go`, `namespaces.go`, `seccomp.go`, `cgroup.go` | liblxc config items, `devices.txt`, `seccomp.conf`, namespaces of `container.json` | configureContainer and what it calls | create; exec reads the namespaces again, the hook `devices.txt` |
| mounts | `mount.go`, `utils.go` | the rootfs with its symbolic links | resolveMountDestination, createMountDestination, mkdirAll | create only |
| command line | `cli.go`, `util.go` | flags, environment file, log | main, parseSignal, loadEnvFile, create hook | every command |

What is hard, and what makes each part correct:

* *Interleavings.* create checks, makes and renames files in a dozen steps; delete
  removes them in as many. A container ID must still have one live container at
  most, created once, run only when started.
* *Deadlines and deaths.* A command that ends early undoes nothing: the monitor it
  launched lives on and the files stay. Nothing of that may run unasked, and
  `delete --force` must be able to clean it up.
* *The fifo.* start and init meet in two blocking opens. With two starts, a deadline,
  a death on either side or a leftover fifo, at most one start may be told it
  succeeded, and only if its container left the created state.
* *The cgroup.* kill sweeps a set of processes that fork, exit and move meanwhile. It
  may report success only if nobody is left.
* *errno.* The hook takes the errno at the end of a function for its result, and init
  the errno after a read for that of getc. Either must fail when something is missing,
  and not because of what an earlier call left there.
* *Files read by another program.* Init reads lists that create writes in place and that
  delete removes. The user's program must not run with a part of its arguments or
  environment.
* *Paths of two worlds.* create makes mount destinations as a process of the host, below
  a rootfs whose links are meant for the container.
* *Two translations of one spec.* create and exec both map the namespaces of the spec;
  the device controller and the seccomp profile decide in another language than the
  spec's. Both must say the same as the spec.

## 2. Modules

| module | what it is |
|---|---|
| `Container` | files, monitors, inits, strays, cgroup and syncfifo of one container ID, and what they do by themselves |
| `Runtime` | the commands; composes with `Container` (one state space) and holds the properties |
| `OCIContainer` | the abstract specification: life of the containers of an ID |
| `RuntimeClaims` | what comments and messages say and the code does not keep |
| `RuntimeProof` | theorems about `Runtime`: the inductive invariant and what follows from it |
| `RefinementProof` | `Runtime` implements `OCIContainer` |
| `CreateProof` | theorems about `Runtime` when nobody deletes |
| `Cgroup` | drainCgroup and deleteCgroup, one system call a step |
| `CgroupProof` | theorems about `Cgroup` |
| `ContainerHook` | the mount hook, one line or call a step |
| `InitProcess` | the lists of `.crio-lxc` and crio-lxc-init up to the execution of the user's program |
| `Startup` | composes `ContainerHook` and `InitProcess`: what a monitor runs |
| `HookProof` | lemmas: the invariant of the hook |
| `StartupProof` | the invariant of init, and theorems about `Startup` |
| `Mounts` | path resolution of create as operators, with the reference it is compared to |
| `Configure` | configureContainer, exec's namespaces, the environment file and the pid file |
| `MountsProof` | lemmas about the operators of `Mounts`: recursion, paths, links, file systems that grow |
| `ConfigureProof` | theorems about `Configure`, and lemmas about the lists it is built from |
| `MCRuntime`, `MCCgroup`, `MCHook`, `MCStartup`, `MCConfigure` | the above for TLC |

### Container and Runtime

Each invocation of `create` is an *instance*. `fs[f]` is the instance that made file
`f` (`None`: there is none), so a leftover can be told from what a later create made.
`mon[i]` and `init[i]` are the processes of instance `i`; `initFifo[i]` is the fifo
that init's bind mount shows. `pc[p]` is the next step of the command in slot `p`. A
step is one system call or liblxc call that others can see, together with the local
work before it. The steps are named after what they do (`MakeConfigTmp`,
`RenameConfig`, `OpenFifo`, `KillCgroupProcs`, ...); `PROJECT.json` gives the lines.

* `Timeout` is `ctx.Done()` in each of the loops and selects that look at it.
* `Abort` is every other early end: an I/O error, a failing check of the environment
  or configure function, a missing console, a killed process. No error path of
  crio-lxc undoes what was done, so all of them leave the same state.
* liblxc is external: at most one monitor answers on the command socket of a name
  (`Owns`); `State()`, `InitPid()`, `Stop()` and `Destroy()` follow from that. A
  destroy removes nothing, because `rootfs.managed=0` (comment at `runtime.go:401`).
* A zombie's `/proc/<pid>/cmdline` exists and is empty (`InitStatus`).
* The container ID is the only content of the fifo, so messages are told apart by
  their writer only in the model (`pipe`).
* `released`, `acks` and `seen` are history for the properties: no step reads them.
* `OCIContainer` is implemented with `phases`, the phase of each instance as its monitor
  and init give it (`PhaseOf`), and `startable`, the instances that a start has asked for.
* Each create has a pid file of its own, as CRI-O's bundle directories give it; a pid file
  that several creates are given is in `Configure`.
* In `Runtime` one sweep of the drain is one step; `Cgroup` takes it apart. A sweep
  that fails (a child cgroup vanished) is an `Abort` in `Runtime`.
* `Attach` joins the container at once and its command returns. Exec waits for the process,
  without a deadline, and changes nothing more. Processes that are attached during a sweep
  are in `Cgroup`.
* init opens the fifo by name when it writes (`writefifo`); its name leads through the bind
  mount to the fifo that was there when init was started, which is `initFifo`.

### Cgroup

`at[t]` is the cgroup of process `t`. Processes fork, exit, and may make and enter
cgroups below `lxc.payload.ID`; an exec that found init alive may attach another at any time
(`Attach`, which counts as one of the forks); liblxc removes empty cgroups at any time. pids may be
taken again by processes of the same container.

### ContainerHook

The files list devices and masked paths in any order; the image may bring any of the
devices and directories. `errno` is what the C library keeps: set by a failing call,
never cleared by one that succeeds. `CallFails` lets any call fail whose failure ends the
function; after a stat that fails, for whatever reason, the hook goes on to make the device
(`StatFailed`).

### InitProcess and Startup

`wpc` is the next step of configureInit and `step` that of init. A list is a sequence of
*pieces*, what one turn of the reading loops takes from a file: a string that fits in the
buffer is one piece, a longer one is cut into "full" pieces and a last one. `written[f]`
counts two for every piece, so that a reader may also find a string without its zero byte.
The strings of a spec come from JSON: they hold neither a zero byte nor the byte 255 that a
signed `char` would take for the end of the file.

* `Start` may come before configureInit is done (`early`): `Runtime` shows that a monitor
  can outlive the files of its create and then finds those of the next one.
* A full buffer has no zero byte: setenv may take any string for the value (`Garbage`). An
  argument past the end of the array `args` may be found again or lost (`overrun`). Init may
  die of either (`Fails`).
* The fifo is not modelled here again: the open returns if the fifo exists.
* In `Startup` the hook runs first and init only if it succeeded. The hook touches no file
  of init, so what happens to them during the hook is left for after it.
* The VIEW of the run drops the hook's variables once the hook has succeeded: nothing
  reads them any more but the hook's own properties, whose values are part of the view.

### Mounts and Configure

A path is a sequence of names (`Names`, for TLC all strings). `IsFileSystem` is a tree on the
host: its root and the rootfs are directories, and everything else is in a directory. `Walk`
is the kernel's path resolution, on the host and with all links; `Resolve` is the same as a
process of the container sees it and is the reference. Both are recursive functions of a
record `Way`: where the walk is, the names and the number of links that are left. The loops of
`Clean`, `Touch`, `mkdirAll` and `resolveMountDestination` are recursive functions, too.
`HasPrefix` is `filepath.HasPrefix`, which compares text: `Longer` says which names begin
with which others, so that `/rootfs2` has the prefix `/rootfs`. The rootfs is a clean absolute
path, and no link is empty or has an empty name or `.` in it.

`ConfigureMount` sets one mount, or fails and leaves what was made so far
(`mkdirSome`, `createSomeOfMountDestination`), or refuses a destination outside of the rootfs.
Two exceptions are named in the properties. `Plain`: the target of each link is in the
rootfs, leads over no other link, and is not spelled with the rootfs's path or one whose text
begins with it, because line 119 leaves such a link alone. `UpAtFirst` (`MadeInRootfs` only):
`..` only in front, because after a name that does not exist nothing is resolved any more;
and not to a directory beside the rootfs with a longer name, which line 38 does not refuse.

`pc` in `Configure` follows the order of configureContainer. A spec and a call come from
`Inputs` and stay; a create may fail at any step (`Fails`), and after a delete the same
bundle is used again, with the same rootfs and pid file. `Trimmed` is what
`strings.TrimLeft(arch, "SCMP_ARCH_")` leaves of a name; `Nil` is an absent pointer, path
or flag; `anyDevice` is the empty type of a device rule. `InputsAssumption` says what a spec
and a call can be at all: what JSON is decoded into, and flags that are Boolean or absent.
A variable may also be set to nothing (`Blank`, which the flag library takes for the default)
or to what is no Boolean (`Invalid`, which ends the command). An environment file that can not
be read is like one with a malformed line: main ends (`Unusable`). Config items that only copy a value (hostname,
rootfs options, capabilities,
apparmor, sysctls, rlimits) can do nothing but fail, which is `Fails`.

## 3. Runs

| run | instance | checks |
|---|---|---|
| `pair` | 2 slots, 1 create, all commands | `TypeOK`, `NoRunBeforeStart`, `StartAcknowledgedOnce`, `StartOkMeansStarted`, `KillOkMeansDead` |
| `create_once` | 2 slots, 2 creates, create/start/state/kill, 1 abort | `CreateOnce`, `CreateOkMeansCreated`, `StatusNeverRegresses` |
| `create_delete` | 2 slots, 2 creates, create/force, 1 abort | `ImplementsOCI` |
| `progress` | 2 slots, 1 create, create/start/force, 1 abort | `CommandsReturn`, `EventuallyDeleted` |
| `cgroup` | 3 processes, 2 forks or attached processes, SIGKILL and SIGTERM, 1 nested cgroup | `CgroupTypeOK`, `SweepKillsAll`, `DrainEnds`, `DeleteFailsOnlyIfBusy` |
| `startup` | 3 devices (one of them a fifo), 2 masked paths, any files; 6 lists of arguments, 7 of variables, an array of 3 entries, 1 inherited descriptor | `HookTypeOK`, `HookOkMeansComplete`, `InitTypeOK`, `ExecMeansComplete`, `StaleErrnoMeansNoEnviron`, `OwnFdsClosed` |
| `configure` | 2 creates; every rootfs of up to 4 nodes with 6 kinds of links, a directory beside it with a longer name, and 22 mounts; up to 3 namespaces; 24 sets of devices and rules; 120 seccomp specs; 105 calls | `ConfigureTypeOK`, `MountsAsInContainer`, `MadeInRootfs`, `ExecSharesNamespaces`, `DevicesAsSpecified`, `FlagsByPrecedence`, `SeccompAsSpecified`, `PidFileWhole`, `TempMeansDied` |

*Bounds.* Two slots give every pair of racing commands and two creates every mix of an
old and a new container's files and processes; more slots only repeat the roles
(reader and reader of the fifo, creator and deleter). With two slots and two creates
at once the commands are restricted to those that the question is about. Three
processes and two forks let a fork happen before, between and after the two reads of
`cgroup.procs` of a sweep, and a process hide while others are killed. An array of three
entries is overrun by three arguments as one of 256 is by 256; lists of two pieces are enough
for one to be written while another is not, and for a later definition of a variable. Links
of depth two lead over a second link or out of the rootfs. The parts of a spec are varied one
at a time, because no part reads what another has written. `MaxAborts` and `MaxForks` only
bound how often; the
theorems hold for any bound. Symmetry of slots, creates and processes is used in
safety runs only.

The properties of `create_once` are about an ID that nobody deletes: after a delete
another create may succeed, and a create whose files were deleted sees the state of the
container that replaced it, because `waitCreated` asks for the name.

*What the properties leave open.* `create_delete` has no start, so that a container runs only
when asked rests on the proof of `ImplementsOCI` (section 4). `CommandsReturn` is about create,
start and `delete --force`. `KillOkMeansDead` is about forks and not about processes that an
exec attaches during the drain. `DrainEnds` is about SIGKILL without nested cgroups, and counts
a drain that failed as ended; `DeleteFailsOnlyIfBusy` says why deleteCgroup fails, not that
delete empties the cgroup first. `ExecMeansComplete` compares by pieces of the reader's loop,
so that the rest of a variable that is too long for the buffer is an entry of its own.
`TempMeansDied` says when a temporary pid file is left behind, not that the next create copes
with it. `DevicesAsSpecified` is about specs that deny at most at their head; for these the
config only allows, and nothing is assumed about which of several rules decides in liblxc.

*Fairness.* Commands, monitor and init run on (weak fairness of `Step` and `Progress`),
and a deadline expires (weak fairness of `Timeout`: `doCreate`, `doStart`, `doKill` and
`doDelete` use `context.WithTimeout`). Nobody is assumed to invoke commands. That the
caller repeats `delete --force` (strong fairness, `DeleteIsRepeated`) is the premise of
`EventuallyDeleted`, not a part of the specification. In `Cgroup` the drain's own steps
are fair and its deadline is not; the number of forks is finite there.

### Disagreements

Each `claim_*` run shows a counterexample to what a comment, message or usage text
says; `PROJECT.json` ("findings") quotes it.

| run | what happens |
|---|---|
| `claim_signal` | `err != unix.ESRCH` includes success: a signal that was sent is an error |
| `claim_zombie` | an unreaped init that was never started is reported running |
| `claim_orphan` | a monitor launched by a create that timed out starts while delete removes the files |
| `claim_errno` | the hook fails after it made a device in a directory that did not exist |
| `claim_fds` | descriptors that init inherits are open in the user's program: `close(fd)` in place of `close(xfd)` |

What else the models show and no run states:

* a kill whose cgroup is gone logs "cgroup drained" and returns the error all the same
  (`OpenCgroup`); delete of a container that stopped by itself does not drain its cgroup
  (`DeleteCheckState` goes to `destroy`); a process in a nested cgroup is never signalled, so
  the drain waits for its deadline (the exception in `SweepKillsAll` and `DrainEnds`);
* a link is resolved once, so that the entry of a mount whose path leads over a link to another
  link still has a link in it and is not where the container's processes find it (`Plain`);
  an absolute link whose target is spelled with the rootfs's path, or with that of a directory
  beside it with a longer name, is left unresolved and followed on the host (`Plain`); after a
  name that does not exist the rest of a destination is appended unresolved, also if it leads
  back with `..`; a destination in a directory beside the rootfs with a longer name passes the
  check that should refuse it (`UpAtFirst`);
* the name of an architecture loses leading letters (`AARCH64` becomes `64`), and a spec that
  does not list the native one gets empty section names; a seccomp rule with several
  arguments is written as alternatives (the exceptions in `SeccompAsSpecified`);
* `writeDevices` dereferences a group that is nil and ignores one that is not; a rule that
  denies any device is lost also when it is not the first, and a spec with any other rule that
  denies gives a config with both allow and deny rules, which `cgroup.go:75` does not permit (the
  exceptions in `DevicesAsSpecified`); the rule for `dev/pts/[0..9]` has the major number 88,
  which is that of `/dev/pts` (136) in hexadecimal;
* 256 or more arguments overrun the array of init, because `sizeof(args)` is passed for its
  entries (the exception in `ExecMeansComplete`);
* create accepts an unknown namespace type without a path, with which every exec then fails;
* a create that dies within CreatePidFile leaves a file that makes the next one with the same
  pid file fail, after its container was started (`died` in `TempMeansDied`);
* a missing environment file makes every command fail; the README of the repository gives
  its path as `/etc/defaults/crio-lxc` and as `/etc/default/crio-lxc`.

## 4. Proofs

`RuntimeProof` proves, for any number of slots, creates and aborts and any set of
commands: `TypeOK`, `NoRunBeforeStart`, `StartAcknowledgedOnce`, `StartOkMeansStarted`
and `KillOkMeansDead` are invariants. The assumptions are those on the constants in
`Container` and `Runtime`: `None` is no instance, `Ops` are known commands and
`MaxAborts` is a natural number.

None of them is inductive. `IInv` adds

* `PcOp`: which command may be at which step (what `AfterLoad` leads to),
* `OneOwner`, `InitHasMonitor`, `CreateOwns`: one monitor owns the name; a live init
  has a monitor; an instance has one create command, whose monitor is not launched yet
  before `launch`,
* `ReadersInv`, `MessagesInv`: a fifo with a reader was opened by a start; a message in
  it is from an init past the fifo and nobody was acknowledged for it,
* `StartInv`, `KillInv`: what start knows from the message it read, and kill from the
  container it signalled.

The steps of a command are first grouped by what they change (`StepKinds`), so that
each conjunct is looked at only where it can be disturbed. `LifeGoesForward` says that
monitors and inits never go back, which carries a command's knowledge over the steps of
others; `CommandTurns` says which step alone brings a command to a place where it knows
something new. `KillOkMeansDead` then follows because "populated 0" was read when the
monitor had been started, and no process joins the cgroup of an exited monitor.

`CgroupProof` proves `SweepKillsAll` and `DeleteFailsOnlyIfBusy` for
any number of processes, forks and cgroups. The invariant `Sweep` says that whoever lived
when the sweep began is still to be read, still to be killed or hides in a nested cgroup.
The type invariant `CgroupTypeOK` is a part of the inductive invariant.

`RefinementProof` proves `Spec => ImplementsOCI` from `IInv`, without further assumptions.
The phase of an instance depends on its monitor and init alone, so every step that
touches neither is a stutter. The others are taken one by one (`MonitorRefines`,
`InitRefines`, `CommandRefines`): a new init is the only live one because its monitor is
the only owner of the name (`OneOwner`, `InitHasMonitor`), a user program is executed only
behind a fifo that a start has opened (`NoRunBeforeStart`), and the monitor that `launch`
brings up is the first of its instance (`CreateOwns`).

`CreateProof` proves `CreateOnce`, `CreateOkMeansCreated` and `StatusNeverRegresses`. All
of them assume `NoDelete` (no delete and no forced delete among `Ops`), which is what run
`create_once` is instantiated with, and without which they are false (section 3).
`NoDeleteInv` adds to `IInv`

* `SoleInv`: container.json, which nobody removes, names the one instance that has a
  monitor and the only create past it,
* `CreateInv`: a create past `waitCreated` has its own container up, and a pid file exists
  only for a container that is up,
* `StateInv`: a state command past the pid file asks about that container, and what was
  reported of it is not ahead of what it is.

`StatusNeverRegresses` needs the last of these and that a container that is up only goes
forward (`UpGoesForward`).

`StartupProof` proves the properties of the hook and of init for the two in sequence, for
any devices, masked paths, lists, buffer and array sizes, descriptors, and any calls that
fail. `Devices` and `Paths` are assumed to be finite: they are the lines of a file.

* `HookInv`: a device is made or still to be read (`DevicesLeft`), a path is masked or still
  to be read (`PathsLeft`), and a function whose end is reached with errno 0 has nothing
  left (`NothingLeft`). The proof goes along errno, because nothing else carries a failure.
* `InitInv`: `WriterInv` says which list is complete at which step of configureInit,
  `FdsInv` which descriptors init holds, `ReaderInv` that arguments and environment are
  those of the pieces before `pos` (`ReadArgs`, `Gathered`). That the arguments are complete
  rests on the order of the writer: `cmdline` is finished before `environ` is created, and
  an init that does not find `environ` gives up at `cmdline` with the errno of the failed
  open. A variable of which only a part was read stays too long for the kernel until a later
  definition replaces it.

`ConfigureProof` proves all properties of `Configure`, for any number of creates and any
inputs that satisfy `InputsAssumption`. `ConfigureInv` says for each item that, from its step
on, it is the value of the operator that computes it (`FlagsInv`, `NamespacesInv`,
`DevicesInv`, `ProfileInv`), follows the temporary pid file through CreatePidFile (`PidInv`),
and says of the mounts how many entries there are (`MountsInv`) and what has become of the
file system (`FilesInv`). The rest of the work is about lists of any length and about paths.

Lists:

* `Induction` is induction over the natural numbers for a *set* of numbers, derived from the
  well-foundedness of `<` (the library's schemes take an operator, which no installed prover
  instantiates). From it follow what `FlattenSeq` and concatenation have as elements
  (`FlattenSteps`, `FlattenElements`, `CatElements`);
* `DevicesAsSpecified`: a rule that allows is decomposed into rules that allow the same
  (`DecomposedRule`, `DecomposedRules`), a rule that denies everything into none, and the added
  rules allow what they are for (`AddedRules`, `AllowedCat`). The property is stated for a
  sample of devices, the lemmas for every block or character device;
* `FlagsByPrecedence`: the last definition in the environment file is the first set value in
  its reverse (`LastDefinition`, `FirstGiven`), and what a value that is set to nothing stands
  for is looked at last (`Meant`);
* `SeccompAsSpecified`: the lines of the profile are those of the system calls of the rules
  (`SyscallLines`, `ProfileLines`), and with at most one comparison they match what the rule
  matches (`LinesDecide`).

Paths (`MountsProof`, for any file system, rootfs and number of links):

* The library states recursion, too, with an operator as a parameter. `RecursiveFunction` derives it
  from well-foundedness: for any order in which every set has something smallest, a function
  defined by its values at smaller arguments exists and satisfies its equation. `Walk` and
  `Resolve` go down an order that counts the links left and then the names left (`Below`),
  `mkdirAll` the length of a path, the others a number; `WalkSteps`, `ResolveSteps`,
  `CleanSteps`, `MkdirAllSteps`, `TouchSteps` and `ResolvedSteps` are their equations.
* `LinkFree` is a path on which no name is a link. The kernel finds such a path at itself
  (`StatLinkFree`) and makes something there or nowhere (`PlaceLinkFree`), so mkdirAll and
  open make the destination and the directories above it, and nothing else
  (`MkdirAllMakes`, `MkdirAllStays`, `TouchMakes`, `DestinationMade`).
* `PlainDestination`: the loop of `resolveMountDestination` and a process of the container
  stay together name by name (`NameAsInContainer`); where a link is, one `Join` does what the
  process does name by name along the target (`TargetJoined`). The process may use one link
  for each name, hence the exception for destinations with more names than `MaxLinks`.
* `UpDestination`: a destination that begins with `..` first goes along the rootfs's own path
  on the host. Either it comes back into the rootfs, and the rest is as above, or the name
  beside the rootfs is not a longer one and the check refuses it; this is where the proof of
  `MadeInRootfs` uses the check.
* `Grown`: directories and files were added, nothing was changed and no link is new. Every
  step of create does only that, on any image. So an image with plain links stays one, and
  destinations resolve as they did in the image (`PlainGrown`), which keeps the entries of
  earlier mounts and earlier creates right.

`MountsAsInContainer` and `MadeInRootfs` follow from `FilesInv`: the file system has grown out
of the image, each entry is where the image has its destination, and what is new is in the
rootfs (`NewInRootfs`). `MountsAsInContainer` speaks of the file system as it is now and is
not inductive by itself.

Before their proofs the invariants were model-checked: `HookInv` and `InitInv` on the
instance of `startup`, `NoDeleteInv` on that of `create_once`, the parts of `ConfigureInv` on
that of `configure`.

Only model-checked are the liveness properties `CommandsReturn`, `EventuallyDeleted` and
`DrainEnds`, which are out of the prover's reach. Every safety property and the refinement
that the passing runs check are also proved.

## 5. Not modelled, and the plan

Not modelled: config items that copy a value of the spec; logging and parseSignal; the pty
that `runStartCmdConsole` passes to conmon, whose failure is an `Abort` that leaves the
monitor; the user's create hook; `cgfix`; `parseSystemdCgroupPath`, a conversion of a name
that nothing but systemd's naming rules could be compared with; owners and modes of files,
except that of init's lists. `setHostname` changes a namespace that another container
owns, once, and restores its own thread. Processes of the host outside the container's cgroup
are not modelled, so a recycled pid can only belong to the same container. Init is compiled
with a signed `char`; with an unsigned one (aarch64) it never sees the end of a file.

What a continuation would take up:

1. That `Cgroup` justifies the one-step sweep of `Runtime`. Now the two are connected by what
   they say of a drain: `ReadEvents` has the guard of `CgroupDrained`, and `SweepKillsAll` is why
   `KillCgroupProcs` spares only strays.
2. Destinations with `..`, for which `MountsAsInContainer` says nothing, and after another name
   `MadeInRootfs` neither.
3. Exec as a command that waits for its process, and attaching during a kill in `Runtime`.
