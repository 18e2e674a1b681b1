---------------------------- MODULE ContainerHook -----------------------------
(***************************************************************************)
(* The lxc mount hook: what create writes to devices.txt and masked.txt is *)
(* made and mounted in the rootfs before init is executed.  The functions  *)
(* of the hook decide by errno whether they succeeded, so errno is part of *)
(* the state: it keeps the last error until somebody clears it.            *)
(***************************************************************************)
EXTENDS Naturals, Sequences, FiniteSets

CONSTANTS Dirs,      \* directories of the rootfs that hold devices
          Devices,   \* devices of the container spec
          Paths,     \* paths that the spec masks
          DirsOf,    \* the directories on the way to a device
          TypeOf,    \* the type of a device in the spec
          Present,   \* what exists in every rootfs before the hook runs
          Written    \* the files that are in every runtime directory

TxtFiles == {"devices.txt", "masked.txt"}

ASSUME HookAssumption ==
  /\ IsFiniteSet(Devices) /\ IsFiniteSet(Paths)
  /\ DirsOf \in [Devices -> Seq(Dirs)]
  /\ TypeOf \in [Devices -> {"b", "c", "u", "p"}]
  /\ Present \subseteq Dirs \cup Devices \cup Paths
  /\ Written \subseteq TxtFiles

VARIABLES
  txt,     \* the files in the runtime directory
  pc,      \* next step of the hook
  errno,   \* 0, or the error of the last call that failed and was not cleared
  lines,   \* the devices or paths that are still to be read from the file
  comps,   \* the directories that are still to be made for the current device
  rootfs,  \* what exists in the rootfs
  masked,  \* the paths that are mounted over
  broken   \* history: did a call fail that the hook needs

vars == <<txt, pc, errno, lines, comps, rootfs, masked, broken>>

Errnos == {"0", "ENOENT", "EOTHER"}

HookTypeOK ==
  /\ txt \subseteq TxtFiles
  /\ pc \in {"devices", "scan", "mkdirs", "mknod", "devicesOut",
             "masked", "mask", "maskedOut", "ok", "failed"}
  /\ errno \in Errnos
  /\ lines \in Seq(Devices \cup Paths)
  /\ comps \in Seq(Dirs)
  /\ rootfs \subseteq Dirs \cup Devices \cup Paths
  /\ masked \subseteq Paths
  /\ broken \in BOOLEAN

\* The order of the lines is that of the spec.
Orders(S) == {s \in [1 .. Cardinality(S) -> S] : \A x \in S : \E n \in DOMAIN s : s[n] = x}

\* writeDevices and writeMasked: one line for each device and each masked path.
DevicesTxt == Orders(Devices)
MaskedTxt  == Orders(Paths)

\* A rootfs has the directories of what it has.
Rootfs(S) ==
  \A d \in Devices : \A n \in DOMAIN DirsOf[d] :
    (d \in S \/ \E m \in DOMAIN DirsOf[d] : m > n /\ DirsOf[d][m] \in S) => DirsOf[d][n] \in S

\* The image may bring devices and directories; a delete that runs at the same time
\* may have removed devices.txt, and a spec without masked paths has no masked.txt.
Init ==
  /\ txt \in {W \in SUBSET TxtFiles : Written \subseteq W}
  /\ pc = "devices"
  /\ errno = "0"
  /\ lines = <<>>
  /\ comps = <<>>
  /\ rootfs \in {S \in SUBSET (Dirs \cup Devices \cup Paths) : Present \subseteq S /\ Rootfs(S)}
  /\ masked = {}
  /\ broken = FALSE

-----------------------------------------------------------------------------
(***************************************************************************)
(* create_devices_at                                                       *)
(***************************************************************************)

\* A missing file is success, but errno is not cleared.
OpenDevices ==
  /\ pc = "devices"
  /\ \/ /\ "devices.txt" \in txt
        /\ lines' \in DevicesTxt
        /\ pc' = "scan"
        /\ UNCHANGED errno
     \/ /\ "devices.txt" \notin txt
        /\ errno' = "ENOENT"
        /\ pc' = "masked"
        /\ UNCHANGED lines
  /\ UNCHANGED <<txt, comps, rootfs, masked, broken>>

\* stat found no device, or failed for a reason of its own, which the hook does not tell
\* apart: the device is to be made.  A type other than b and c (f, which no spec has,
\* apart) ends the hook.
StatFailed(error) ==
  /\ errno' = error
  /\ IF TypeOf[Head(lines)] \in {"b", "c"}
     THEN /\ comps' = DirsOf[Head(lines)]
          /\ pc' = "mkdirs"
          /\ broken' = (broken \/ error # "ENOENT")
     ELSE pc' = "failed" /\ broken' = TRUE /\ UNCHANGED comps
  /\ UNCHANGED lines

\* MUTANT of ScanDevice: a device that exists ends the scan.
ScanDeviceStops ==
  /\ pc = "scan"
  /\ \/ lines = <<>> /\ pc' = "devicesOut" /\ UNCHANGED <<errno, lines, comps, broken>>
     \/ /\ lines # <<>> /\ Head(lines) \in rootfs
        /\ pc' = "devicesOut"
        /\ UNCHANGED <<errno, lines, comps, broken>>
     \/ lines # <<>> /\ Head(lines) \notin rootfs /\ StatFailed("ENOENT")
     \/ lines # <<>> /\ StatFailed("EOTHER")
  /\ UNCHANGED <<txt, rootfs, masked>>

\* The next line: its device exists and is skipped, or stat leaves an error.
ScanDevice ==
  /\ pc = "scan"
  /\ \/ lines = <<>> /\ pc' = "devicesOut" /\ UNCHANGED <<errno, lines, comps, broken>>
     \/ /\ lines # <<>> /\ Head(lines) \in rootfs
        /\ lines' = Tail(lines)
        /\ UNCHANGED <<pc, errno, comps, broken>>
     \/ lines # <<>> /\ Head(lines) \notin rootfs /\ StatFailed("ENOENT")
     \/ lines # <<>> /\ StatFailed("EOTHER")
  /\ UNCHANGED <<txt, rootfs, masked>>

\* mkdir and chdir of the next directory: EEXIST clears errno, success does not.
MakeDirectory ==
  /\ pc = "mkdirs"
  /\ \/ comps = <<>> /\ pc' = "mknod" /\ UNCHANGED <<errno, comps, rootfs>>
     \/ /\ comps # <<>>
        /\ comps' = Tail(comps)
        /\ rootfs' = rootfs \cup {Head(comps)}
        /\ errno' = IF Head(comps) \in rootfs THEN "0" ELSE errno
        /\ UNCHANGED pc
  /\ UNCHANGED <<txt, lines, masked, broken>>

\* mknod and chown.  mknod fails if the device is there, which stat did not see.
MakeDevice ==
  /\ pc = "mknod"
  /\ Head(lines) \notin rootfs
  /\ rootfs' = rootfs \cup {Head(lines)}
  /\ lines' = Tail(lines)
  /\ pc' = "scan"
  /\ UNCHANGED <<txt, errno, comps, masked, broken>>

DevicesOut ==
  /\ pc = "devicesOut"
  /\ pc' = IF errno = "0" THEN "masked" ELSE "failed"
  /\ UNCHANGED <<txt, errno, lines, comps, rootfs, masked, broken>>

-----------------------------------------------------------------------------
(***************************************************************************)
(* mask_paths_at                                                           *)
(***************************************************************************)

\* MUTANT of OpenMasked: it is called with the name of the other file.
OpenMaskedOfDevices ==
  /\ pc = "masked"
  /\ \/ /\ "devices.txt" \in txt
        /\ lines' \in DevicesTxt
        /\ pc' = "mask"
        /\ UNCHANGED errno
     \/ /\ "devices.txt" \notin txt
        /\ errno' = "ENOENT"
        /\ pc' = "ok"
        /\ UNCHANGED lines
  /\ UNCHANGED <<txt, comps, rootfs, masked, broken>>

OpenMasked ==
  /\ pc = "masked"
  /\ \/ /\ "masked.txt" \in txt
        /\ lines' \in MaskedTxt
        /\ pc' = "mask"
        /\ UNCHANGED errno
     \/ /\ "masked.txt" \notin txt
        /\ errno' = "ENOENT"
        /\ pc' = "ok"
        /\ UNCHANGED lines
  /\ UNCHANGED <<txt, comps, rootfs, masked, broken>>

\* A path that does not exist is ignored and clears errno; any other is mounted over.
MaskPath ==
  /\ pc = "mask"
  /\ \/ lines = <<>> /\ pc' = "maskedOut" /\ UNCHANGED <<errno, lines, masked>>
     \/ /\ lines # <<>>
        /\ lines' = Tail(lines)
        /\ IF Head(lines) \in rootfs
           THEN masked' = masked \cup {Head(lines)} /\ UNCHANGED errno
           ELSE errno' = "0" /\ UNCHANGED masked
        /\ UNCHANGED pc
  /\ UNCHANGED <<txt, comps, rootfs, broken>>

MaskedOut ==
  /\ pc = "maskedOut"
  /\ pc' = IF errno = "0" THEN "ok" ELSE "failed"
  /\ UNCHANGED <<txt, errno, lines, comps, rootfs, masked, broken>>

\* What is there already when chdir fails after mkdir, or chown after mknod.
InHand ==
  IF pc = "mkdirs" /\ comps # <<>> THEN {Head(comps)}
  ELSE IF pc = "mknod" THEN {Head(lines)} ELSE {}

\* A call fails for a reason of its own: open, fdopen, fchdir, mkdir, chdir, mknod,
\* chown, stat of a masked path (not ENOENT) or mount.  The hook goes to the function's end, where
\* errno is looked at, or returns -1 at once.
CallFails ==
  /\ pc \in {"devices", "scan", "mkdirs", "mknod", "masked", "mask"}
  /\ broken' = TRUE
  /\ errno' = "EOTHER"
  /\ pc' = CASE pc \in {"scan", "mkdirs", "mknod"} -> "devicesOut"
             [] pc = "mask"                        -> "maskedOut"
             [] OTHER                              -> "failed"
  /\ rootfs' \in {rootfs, rootfs \cup InHand}
  /\ UNCHANGED <<txt, lines, comps, masked>>

\* The hook has exited.
Done == pc \in {"ok", "failed"} /\ UNCHANGED vars

Next ==
  \/ OpenDevices \/ ScanDevice \/ MakeDirectory \/ MakeDevice \/ DevicesOut
  \/ OpenMasked \/ MaskPath \/ MaskedOut \/ CallFails \/ Done

Spec == Init /\ [][Next]_vars

-----------------------------------------------------------------------------
\* A hook that exits with success has made every device and mounted over every path
\* that exists: no error is lost on the way to main, whatever errno was before.
HookOkMeansComplete ==
  pc = "ok" =>
    /\ "devices.txt" \in txt => Devices \subseteq rootfs
    /\ "masked.txt" \in txt => Paths \cap rootfs \subseteq masked

\* The hook (and with it create) fails only if one of the calls it needs failed or a
\* device has a type it can not make: it does not take a stale errno for a failure.
FailsOnlyOnFailure == pc = "failed" => broken

=============================================================================
