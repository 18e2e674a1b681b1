------------------------------- MODULE Configure ------------------------------
(***************************************************************************)
(* What `crio-lxc create' makes of the container spec: mount destinations  *)
(* in the rootfs, namespaces, devices and device rules of the lxc config,  *)
(* and the pid file.  create runs by itself here (module Runtime has the   *)
(* commands that race with it), but it may end anywhere, and be repeated   *)
(* after a delete, which removes the runtime directory and nothing else.   *)
(***************************************************************************)
EXTENDS Mounts, FiniteSets

CONSTANTS Inputs,      \* a container spec with its rootfs, and how create is called
          Flags,       \* features that can be disabled
          Trimmed,     \* what strings.TrimLeft with "SCMP_ARCH_" leaves of an architecture
          Namespaces,  \* the namespace types of namespaceMap
          Nil,         \* an unset variable, path, device number or group
          Blank,       \* the value of a variable that is set to nothing
          Invalid,     \* a value that is no boolean
          MaxCreates   \* how often create is called

ASSUME ConfigureAssumption ==
  /\ MaxCreates \in Nat \ {0}
  /\ Nil \notin Int \cup BOOLEAN \cup {Blank, Invalid}
  /\ Blank # Invalid /\ {Blank, Invalid} \cap BOOLEAN = {}
  /\ {".crio-lxc", "init"} \subseteq Names

\* What config.json is decoded into, and the values of the boolean flags.
MountType   == [dst : Path, source : STRING, type : STRING]
DeviceType  == [path : STRING, type : STRING, major : Int, minor : Int, gid : Nat \cup {Nil}]
RuleType    == [allow : BOOLEAN, type : STRING, major : Int \cup {Nil}, minor : Int \cup {Nil}]
SyscallType == [names : Seq(STRING), action : STRING, args : Seq(Nat)]
ValueType   == BOOLEAN \cup {Nil, Blank, Invalid}

ASSUME InputsAssumption ==
  \A i \in Inputs :
    /\ IsFileSystem(i[1].rootfs)
    /\ i[1].mounts \in Seq(MountType)
    /\ i[1].devices \in Seq(DeviceType)
    /\ i[1].rules \in Seq(RuleType)
    /\ i[1].syscalls \in Seq(SyscallType)
    /\ i[2].args \in [Flags -> BOOLEAN \cup {Nil}] /\ i[2].env \in [Flags -> ValueType]
    /\ i[2].file \in Seq([flag : STRING, value : ValueType])
    /\ \A n \in DOMAIN i[2].file : i[2].file[n].flag \in Flags => i[2].file[n].value # Nil

VARIABLES
  spec,      \* the container spec
  call,      \* the flags, the environment and the environment file of a call
  flags,     \* the features that are enabled
  pc,        \* next step of create, or "idle", "created", "failed"
  fs,        \* the file system with the rootfs
  mounts,    \* the mount entries of the config
  share,     \* the namespaces that the config joins
  keep,      \* the namespaces that the config inherits
  rules,     \* the device rules of the config
  devices,   \* the lines of devices.txt
  profile,   \* <<the seccomp profile>>
  info,      \* the namespaces in container.json
  attached,  \* <<the namespaces>> that an exec has joined
  tmp,       \* the temporary pid file: <<its content>>
  pidfile,   \* the pid file: <<its content>>
  creates,   \* how often create was called: also the pid of its monitor
  died       \* history: did a create end between two steps of CreatePidFile

vars == <<spec, call, flags, pc, fs, mounts, share, keep, rules, devices, profile, info,
          attached, tmp, pidfile, creates, died>>

input   == <<spec, call, flags, creates>>
nsItems == <<share, keep, info, attached>>
devItems == <<rules, devices>>
config  == <<mounts, nsItems, devItems, profile>>
pid     == <<tmp, pidfile, died>>

NoFile == <<>>
Empty  == <<0>>   \* a file that has no pid in it yet

\* The directory of init, and init itself, are mounted last.
InitMounts == <<[dst |-> <<".crio-lxc">>, source |-> "dir", type |-> "bind"],
                [dst |-> <<".crio-lxc", "init">>, source |-> "file", type |-> "bind"]>>

AllMounts == spec.mounts \o InitMounts

ConfigureTypeOK ==
  /\ pc \in {"idle", "info", "init", "mounts", "namespaces", "devices", "write", "cgroup",
             "seccomp", "launch", "open", "pid", "rename", "created", "failed"}
  /\ Len(mounts) <= Len(AllMounts)
  /\ flags \in [Flags -> BOOLEAN]
  /\ share \subseteq Namespaces /\ keep \subseteq Namespaces
  /\ \A n \in DOMAIN rules : rules[n].type \in {"b", "c"}
  /\ \A n \in DOMAIN devices : devices[n].gid # Nil
  /\ tmp \in {NoFile, Empty} \cup {<<n>> : n \in 1 .. creates}
  /\ pidfile \in {NoFile, Empty} \cup {<<n>> : n \in 1 .. creates}
  /\ creates \in 0 .. MaxCreates
  /\ died \in BOOLEAN

NoConfig ==
  /\ mounts' = <<>> /\ share' = {} /\ keep' = {} /\ rules' = <<>> /\ devices' = <<>>
  /\ profile' = <<>> /\ info' = <<>> /\ attached' = <<>>

Init ==
  /\ \E i \in Inputs : spec = i[1] /\ call = i[2]
  /\ flags = [f \in Flags |-> TRUE]
  /\ pc = "idle"
  /\ fs = spec.rootfs
  /\ mounts = <<>> /\ share = {} /\ keep = {} /\ rules = <<>> /\ devices = <<>>
  /\ profile = <<>> /\ info = <<>> /\ attached = <<>>
  /\ tmp = NoFile /\ pidfile = NoFile
  /\ creates = 0
  /\ died = FALSE

Goto(from, to) == pc = from /\ pc' = to

-----------------------------------------------------------------------------
(***************************************************************************)
(* createContainer and configureInit                                       *)
(***************************************************************************)

\* loadEnvFile: a line is a comment, a definition of a variable, or malformed.  The last
\* definition of a variable counts.
Definitions(f) == {n \in DOMAIN call.file : call.file[n].flag = f}
loadEnvFile ==
  [f \in Flags |-> IF Definitions(f) = {} THEN Nil
                   ELSE call.file[CHOOSE n \in Definitions(f) : \A m \in Definitions(f) : m <= n].value]

\* MUTANT of Environment: a variable of the file replaces that of the process.
EnvironmentOfFile ==
  [f \in Flags |-> IF loadEnvFile[f] # Nil THEN loadEnvFile[f] ELSE call.env[f]]

\* setEnv does not overwrite.
Environment == [f \in Flags |-> IF call.env[f] = Nil THEN loadEnvFile[f] ELSE call.env[f]]

\* A feature has the value of its flag, else of its variable, else it is enabled.
FlagValue(f) ==
  IF call.args[f] # Nil THEN call.args[f] ELSE IF Environment[f] \in BOOLEAN THEN Environment[f] ELSE TRUE

\* A file that is malformed or can not be read ends main, a variable that is no boolean
\* the parsing of the flags.
Unusable ==
  \/ \E n \in DOMAIN call.file : call.file[n].flag = "malformed"
  \/ \E f \in Flags : Environment[f] = Invalid

\* A command that main or the flags end does nothing.  The bundle is the same every time.
Create ==
  /\ pc = "idle"
  /\ creates < MaxCreates
  /\ creates' = creates + 1
  /\ \/ ~Unusable /\ flags' = [f \in Flags |-> FlagValue(f)] /\ pc' = "info"
     \/ Unusable /\ UNCHANGED <<flags, pc>>
  /\ UNCHANGED <<spec, call, fs, config, pid>>

createContainer ==
  /\ Goto("info", "init")
  /\ info' = spec.namespaces
  /\ UNCHANGED <<input, fs, mounts, share, keep, devItems, profile, attached, pid>>

configureInit ==
  /\ LET dir == Join(Rootfs, <<".crio-lxc">>)
     IN \/ Goto("init", "mounts") /\ fs' \in mkdirAll(fs, dir)
        \/ Goto("init", "failed") /\ fs' \in mkdirSome(fs, dir)
  /\ UNCHANGED <<input, config, pid>>

-----------------------------------------------------------------------------
(***************************************************************************)
(* configureMounts                                                         *)
(***************************************************************************)
\* A cgroup file system has no source on the host.
Converted(ms) == IF ms.type = "cgroup" THEN [ms EXCEPT !.type = "cgroup2", !.source = "none"] ELSE ms

Entry(ms, dest) == [dest |-> dest, create |-> IF ms.source = "file" THEN "file" ELSE "dir"]

\* MUTANT of ConfigureMount: a destination outside of the rootfs is not refused.
ConfigureMountUnchecked ==
  /\ pc = "mounts"
  /\ Len(mounts) < Len(AllMounts)
  /\ LET ms   == Converted(AllMounts[Len(mounts) + 1])
         dest == resolveMountDestination(fs, ms.dst)
     IN \/ /\ fs' \in createMountDestination(fs, ms, dest)
           /\ mounts' = Append(mounts, Entry(ms, dest))
           /\ UNCHANGED pc
        \/ /\ fs' \in createSomeOfMountDestination(fs, ms, dest) \cup createMountDestination(fs, ms, dest)
           /\ pc' = "failed"
           /\ UNCHANGED mounts
  /\ UNCHANGED <<input, nsItems, devItems, profile, pid>>

\* One turn of the loop: the mount is set; or a call fails and what was made so far stays;
\* or the destination is refused because it is outside of the rootfs.
ConfigureMount ==
  /\ pc = "mounts"
  /\ Len(mounts) < Len(AllMounts)
  /\ LET ms   == Converted(AllMounts[Len(mounts) + 1])
         dest == resolveMountDestination(fs, ms.dst)
     IN \/ /\ HasPrefix(dest, Rootfs)
           /\ fs' \in createMountDestination(fs, ms, dest)
           /\ mounts' = Append(mounts, Entry(ms, dest))
           /\ UNCHANGED pc
        \/ /\ HasPrefix(dest, Rootfs)
           /\ fs' \in createSomeOfMountDestination(fs, ms, dest) \cup createMountDestination(fs, ms, dest)
           /\ pc' = "failed"
           /\ UNCHANGED mounts
        \/ ~HasPrefix(dest, Rootfs) /\ pc' = "failed" /\ UNCHANGED <<fs, mounts>>
  /\ UNCHANGED <<input, nsItems, devItems, profile, pid>>

MountsDone ==
  /\ Goto("mounts", "namespaces")
  /\ Len(mounts) = Len(AllMounts)
  /\ UNCHANGED <<input, fs, config, pid>>

-----------------------------------------------------------------------------
(***************************************************************************)
(* Namespaces                                                              *)
(***************************************************************************)
Types(ns) == {ns[n].type : n \in DOMAIN ns}

\* MUTANT of configureNamespaces: a namespace that is joined is not marked as seen.
configureNamespacesUnseen ==
  /\ pc = "namespaces"
  /\ LET ns     == spec.namespaces
         joined == {n \in DOMAIN ns : ns[n].path # Nil}
     IN IF /\ Cardinality(Types(ns)) = Len(ns)
           /\ \A n \in joined : ns[n].type \in Namespaces
           /\ "user" \in Types(ns) => "net" \in Types(ns)
        THEN /\ share' = {ns[n].type : n \in joined}
             /\ keep' = Namespaces \ {ns[n].type : n \in DOMAIN ns \ joined}
             /\ pc' = "seccomp"
        ELSE pc' = "failed" /\ UNCHANGED <<share, keep>>
  /\ UNCHANGED <<input, fs, mounts, devItems, profile, info, attached, pid>>

\* A type may be there once; to join a namespace its type must be known; the user
\* namespace comes with the net namespace.  What is not listed is inherited.
configureNamespaces ==
  /\ pc = "namespaces"
  /\ LET ns     == spec.namespaces
         joined == {n \in DOMAIN ns : ns[n].path # Nil}
     IN IF /\ Cardinality(Types(ns)) = Len(ns)
           /\ \A n \in joined : ns[n].type \in Namespaces
           /\ "user" \in Types(ns) => "net" \in Types(ns)
        THEN /\ share' = {ns[n].type : n \in joined}
             /\ keep' = Namespaces \ Types(ns)
             /\ pc' = "seccomp"
        ELSE pc' = "failed" /\ UNCHANGED <<share, keep>>
  /\ UNCHANGED <<input, fs, mounts, devItems, profile, info, attached, pid>>

\* exec: attachOptions joins the namespaces of container.json, or fails for an unknown type.
Exec ==
  /\ pc = "created"
  /\ Types(info) \subseteq Namespaces
  /\ attached' = <<Types(info)>>
  /\ UNCHANGED <<input, pc, fs, mounts, share, keep, devItems, profile, info, pid>>

-----------------------------------------------------------------------------
(***************************************************************************)
(* The seccomp profile                                                     *)
(***************************************************************************)
seccompAction == {"kill", "trap", "errno", "allow"}

\* One line for each name, or for each name and each comparison of an argument.
writeSeccompSyscall(sc) ==
  FlattenSeq([n \in DOMAIN sc.names |->
    IF sc.args = <<>> THEN <<[name |-> sc.names[n], action |-> sc.action, arg |-> Nil]>>
    ELSE [m \in DOMAIN sc.args |-> [name |-> sc.names[n], action |-> sc.action, arg |-> sc.args[m]]]])

\* MUTANT of seccompArchs: a section for every architecture of the spec.
seccompArchsAll ==
  IF spec.archs = <<>> THEN <<spec.native>> ELSE [n \in DOMAIN spec.archs |-> Trimmed[spec.archs[n]]]

\* The sections of the profile: the native architecture if it is found; else as many empty
\* names as there are architectures, and what is left of their names.
seccompArchs ==
  IF spec.archs = <<>> \/ \E n \in DOMAIN spec.archs : Trimmed[spec.archs[n]] = spec.native
  THEN <<spec.native>>
  ELSE [n \in DOMAIN spec.archs |-> ""] \o [n \in DOMAIN spec.archs |-> Trimmed[spec.archs[n]]]

writeSeccompProfile ==
  /\ pc = "seccomp"
  /\ \/ (~flags["seccomp"] \/ spec.syscalls = <<>>) /\ pc' = "devices" /\ UNCHANGED profile
     \/ /\ flags["seccomp"] /\ spec.syscalls # <<>>
        /\ IF /\ spec.action \in seccompAction
              /\ \A n \in DOMAIN spec.syscalls :
                   spec.syscalls[n].names = <<>> \/ spec.syscalls[n].action \in seccompAction
           THEN /\ profile' = <<[default  |-> spec.action,
                               sections |-> seccompArchs,
                               lines    |-> FlattenSeq([n \in DOMAIN spec.syscalls |->
                                              writeSeccompSyscall(spec.syscalls[n])])]>>
                /\ pc' = "devices"
           ELSE pc' = "failed" /\ UNCHANGED profile
  /\ UNCHANGED <<input, fs, mounts, nsItems, devItems, pid>>

-----------------------------------------------------------------------------
(***************************************************************************)
(* Devices and the device controller                                       *)
(***************************************************************************)
Device(path, major, minor) ==
  [path |-> path, type |-> "c", major |-> major, minor |-> minor, gid |-> 0]
Rule(allow, type, major, minor) ==
  [allow |-> allow, type |-> type, major |-> major, minor |-> minor]

DefaultDevices == <<Device("/dev/null", 1, 3), Device("/dev/zero", 1, 5), Device("/dev/full", 1, 7),
                    Device("/dev/random", 1, 8), Device("/dev/urandom", 1, 9), Device("/dev/tty", 5, 0)>>

\* ensureDefaultDevices adds the default devices that the spec does not list ...
Missing ==
  FlattenSeq([k \in DOMAIN DefaultDevices |->
    IF \E n \in DOMAIN spec.devices : spec.devices[n].path = DefaultDevices[k].path
    THEN <<>> ELSE <<DefaultDevices[k]>>])
AllDevices == spec.devices \o Missing

\* ... and the rules for ptmx and pts, and for what it added.
AllRules ==
  spec.rules \o <<Rule(TRUE, "c", 5, 2), Rule(TRUE, "c", 88, Nil)>>
    \o [n \in DOMAIN Missing |-> Rule(TRUE, Missing[n].type, Missing[n].major, Missing[n].minor)]

ensureDefaultDevices ==
  /\ Goto("devices", "write")
  /\ UNCHANGED <<input, fs, config, pid>>

\* A device without a group is dereferenced and ends create; the group of any other is
\* not used, but that of the container's user, 0.
writeDevices ==
  /\ pc = "write"
  /\ IF \A n \in DOMAIN AllDevices : AllDevices[n].gid # Nil
     THEN /\ devices' = [n \in DOMAIN AllDevices |-> [AllDevices[n] EXCEPT !.gid = 0]]
          /\ pc' = "cgroup"
     ELSE pc' = "failed" /\ UNCHANGED devices
  /\ UNCHANGED <<input, fs, mounts, nsItems, rules, profile, pid>>

\* The type of a rule for block and character devices.
anyDevice == ""

\* MUTANT of Decompose: a rule for any device is taken as one for block devices.
DecomposeToBlock(r) ==
  IF r.type # anyDevice THEN <<r>>
  ELSE IF ~r.allow THEN <<>> ELSE <<[r EXCEPT !.type = "b"]>>

\* The config items of one rule: a rule for any device is one for block and one for
\* character devices, and is left out if it denies.
Decompose(r) ==
  IF r.type # anyDevice THEN <<r>>
  ELSE IF ~r.allow THEN <<>> ELSE <<[r EXCEPT !.type = "b"], [r EXCEPT !.type = "c"]>>

\* MUTANT of configureDeviceController: the type of a rule is not checked.
configureDeviceControllerUnchecked ==
  /\ Goto("cgroup", "launch")
  /\ \/ ~flags["cgroup-devices"] /\ UNCHANGED rules
     \/ /\ flags["cgroup-devices"]
        /\ rules' = FlattenSeq([n \in DOMAIN AllRules |-> Decompose(AllRules[n])])
  /\ UNCHANGED <<input, fs, mounts, nsItems, devices, profile, pid>>

configureDeviceController ==
  /\ pc = "cgroup"
  /\ \/ ~flags["cgroup-devices"] /\ pc' = "launch" /\ UNCHANGED rules
     \/ /\ flags["cgroup-devices"]
        /\ \A n \in DOMAIN AllRules : AllRules[n].type \in {anyDevice, "b", "c"}
        /\ rules' = FlattenSeq([n \in DOMAIN AllRules |-> Decompose(AllRules[n])])
        /\ pc' = "launch"
     \/ /\ flags["cgroup-devices"]
        /\ \E n \in DOMAIN AllRules : AllRules[n].type \notin {anyDevice, "b", "c"}
        /\ pc' = "failed" /\ UNCHANGED rules
  /\ UNCHANGED <<input, fs, mounts, nsItems, devices, profile, pid>>

-----------------------------------------------------------------------------
(***************************************************************************)
(* runStartCmd and CreatePidFile                                           *)
(***************************************************************************)

\* The rest of the config is set and saved, the monitor started, and init runs.
runStartCmd ==
  /\ Goto("launch", "open")
  /\ UNCHANGED <<input, fs, config, pid>>

\* MUTANT of OpenPidFile: the pid file itself is opened.
OpenPidFileItself ==
  /\ Goto("open", "pid")
  /\ pidfile' = Empty
  /\ UNCHANGED <<input, fs, config, tmp, died>>

\* The temporary file is opened exclusively.
OpenPidFile ==
  /\ \/ Goto("open", "pid") /\ tmp = NoFile /\ tmp' = Empty
     \/ Goto("open", "failed") /\ tmp # NoFile /\ UNCHANGED tmp
  /\ UNCHANGED <<input, fs, config, pidfile, died>>

WritePidFile ==
  /\ Goto("pid", "rename")
  /\ tmp' = <<creates>>
  /\ UNCHANGED <<input, fs, config, pidfile, died>>

\* MUTANT of RenamePidFile: the file is copied and the temporary one left behind.
RenamePidFileCopies ==
  /\ Goto("rename", "created")
  /\ pidfile' = tmp
  /\ UNCHANGED <<input, fs, config, tmp, died>>

RenamePidFile ==
  /\ Goto("rename", "created")
  /\ pidfile' = tmp
  /\ tmp' = NoFile
  /\ UNCHANGED <<input, fs, config, died>>

\* create ends early: an item that liblxc refuses, a file that can not be written, a
\* deadline, a killed process.  Nothing is undone.
Fails ==
  /\ pc \notin {"idle", "created", "failed"}
  /\ pc' = "failed"
  /\ died' = (died \/ pc \in {"pid", "rename"})
  /\ UNCHANGED <<input, fs, config, tmp, pidfile>>

\* delete removes the runtime directory.
Delete ==
  /\ pc \in {"created", "failed"}
  /\ pc' = "idle"
  /\ NoConfig
  /\ UNCHANGED <<input, fs, pid>>

\* No create is left.
Ended == pc = "idle" /\ creates = MaxCreates /\ UNCHANGED vars

Next ==
  \/ Create \/ createContainer \/ configureInit \/ ConfigureMount \/ MountsDone
  \/ configureNamespaces \/ writeSeccompProfile \/ ensureDefaultDevices \/ writeDevices
  \/ configureDeviceController \/ runStartCmd \/ OpenPidFile \/ WritePidFile
  \/ RenamePidFile \/ Exec \/ Fails \/ Delete \/ Ended

Spec == Init /\ [][Next]_vars

-----------------------------------------------------------------------------
(***************************************************************************)
(* Properties                                                              *)
(***************************************************************************)

\* A mount is put where the container's processes find its destination, and there is a
\* file or directory for it.  Excepted are images with links that are not plain, and
\* destinations with "..", which leads out of the rootfs, or with more names than the kernel
\* follows links.
MountsAsInContainer ==
  Plain(spec.rootfs) =>
    \A n \in DOMAIN mounts :
      LET dst == AllMounts[n].dst IN
      ".." \notin Range(dst) /\ Len(dst) <= MaxLinks
        => /\ mounts[n].dest = InContainer(fs, dst)
           /\ IsA(fs, mounts[n].dest, mounts[n].create)

\* A destination leads up, if at all, only with its first names, and a name that it has
\* then is not a longer form of the last name of the rootfs.
UpAtFirst(dst) ==
  \E k \in 0 .. Len(dst) :
    \A n \in DOMAIN dst :
      /\ n <= k <=> dst[n] = ".."
      /\ k > 0 => <<dst[n], Last(Rootfs)>> \notin Longer

\* What create makes for the mounts is in the rootfs, also when a link or ".." leads out of
\* it on the host, and when a create failed in the middle ("refuses mount destinations that
\* escape from rootfs").  Excepted are images with other links; ".." after another name,
\* which is not resolved once a name is missing; and paths beside the rootfs whose text
\* begins with that of the rootfs.
MadeInRootfs ==
  /\ Plain(spec.rootfs)
  /\ \A n \in DOMAIN AllMounts : UpAtFirst(AllMounts[n].dst)
  => \A p \in DOMAIN fs \ DOMAIN spec.rootfs : IsPrefix(Rootfs, p)

\* A process that exec starts shares every namespace with init: it joins exactly those
\* that the container does not inherit.
ExecSharesNamespaces == attached # <<>> => attached[1] = Namespaces \ keep

\* The features are those of the flag, the environment, the environment file and the
\* default, in this order (README, "Configuration"): the first that is set, where a variable
\* that is set to nothing stands for the default.
FlagsByPrecedence ==
  pc # "idle" =>
    \A f \in Flags :
      LET file   == [n \in DOMAIN call.file |->
                       IF call.file[n].flag = f THEN call.file[n].value ELSE Nil]
          values == <<call.args[f], call.env[f]>> \o Reverse(file) \o <<TRUE>>
      IN \E n \in DOMAIN values :
           /\ flags[f] = IF values[n] = Blank THEN TRUE ELSE values[n]
           /\ values[n] # Nil
           /\ \A m \in 1 .. n - 1 : values[m] = Nil

\* What the kernel may do with a call that has the given arguments: the actions of the
\* rules that apply, or the default.  All comparisons of a rule of the spec must hold.
Actions(found, default) == IF found = {} THEN {default} ELSE found
ByLines(p, name, val) ==
  Actions({l.action : l \in {m \in Range(p.lines) : m.name = name /\ m.arg \in {Nil, val}}}, p.default)
BySpec(name, val) ==
  Actions({sc.action : sc \in {r \in Range(spec.syscalls) :
                                 name \in Range(r.names) /\ \A m \in DOMAIN r.args : r.args[m] = val}},
          spec.action)

\* The profile has one section, for the native architecture, and decides about a call as
\* the spec does.  Excepted are architectures whose name TrimLeft cuts (aarch64), specs
\* for other architectures only, and rules with several comparisons, which are written as
\* alternatives.
SeccompAsSpecified ==
  /\ profile # <<>>
  /\ Trimmed[spec.native] = spec.native
  /\ spec.archs = <<>> \/ spec.native \in Range(spec.archs)
  /\ \A n \in DOMAIN spec.syscalls : Len(spec.syscalls[n].args) <= 1
  => /\ profile[1].sections = <<spec.native>>
     /\ \A name \in UNION {Range(sc.names) : sc \in Range(spec.syscalls)}, val \in {0, 1} :
          ByLines(profile[1], name, val) = BySpec(name, val)

\* What one of the rules allows.
Matches(r, d) ==
  r.type \in {anyDevice, d.type} /\ r.major \in {Nil, d.major} /\ r.minor \in {Nil, d.minor}
Allowed(rs, d) == \E n \in DOMAIN rs : rs[n].allow /\ Matches(rs[n], d)

SampleDevices ==
  {Device(Nil, major, minor) : major \in {1, 5, 10}, minor \in 0 .. 9}
    \cup {[Device(Nil, 1, 3) EXCEPT !.type = "b"]}

\* For a spec that denies nothing, or all devices by its first rule, and then allows some,
\* the config is a list that only allows ("Mixing allow/deny is not permitted by
\* lxc.cgroup2.devices"), so that it does not matter which rule of several decides.  It
\* allows what the spec allows, ptmx and the default devices that the runtime made, and
\* nothing else.
DevicesAsSpecified ==
  /\ pc \in {"launch", "created"}
  /\ flags["cgroup-devices"]
  /\ \A n \in DOMAIN spec.rules : spec.rules[n].allow \/ (n = 1 /\ spec.rules[n].type = anyDevice)
  => /\ \A n \in DOMAIN rules : rules[n].allow
     /\ \A d \in SampleDevices :
          Allowed(rules, d) <=>
            \/ Allowed(spec.rules, d)
            \/ d.type = "c" /\ <<d.major, d.minor>> = <<5, 2>>
            \/ \E n \in DOMAIN Missing : Matches(Missing[n], d)

\* Who reads the pid file finds no file or a whole one, and after a successful create
\* the pid of its monitor, not that of an earlier one.
PidFileWhole == pidfile # Empty /\ (pc = "created" => pidfile = <<creates>>)

\* A create can be repeated after a delete: it finds the temporary pid file of an
\* earlier one only if that ended within CreatePidFile.
TempMeansDied == tmp # NoFile /\ pc \notin {"pid", "rename"} => died

=============================================================================
