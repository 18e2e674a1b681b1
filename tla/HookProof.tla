------------------------------ MODULE HookProof -------------------------------
(***************************************************************************)
(* The mount hook for any devices, directories and masked paths, and for   *)
(* any call that fails.                                                    *)
(*                                                                         *)
(* The hook tells success from failure by errno alone, so HookInv says     *)
(* what is true of the rootfs at each step: a device of the spec is made   *)
(* or still to be read (DevicesLeft), a path is mounted over or still to   *)
(* be read (PathsLeft), and a function that reaches its end with errno 0   *)
(* has nothing left (NothingLeft).                                         *)
(***************************************************************************)
EXTENDS ContainerHook, FiniteSetTheorems, SequenceTheorems, TLAPS

Entries(s) == {s[n] : n \in 1 .. Len(s)}

DevicesLeft ==
  pc \in {"scan", "mkdirs", "mknod"} =>
    /\ "devices.txt" \in txt
    /\ lines \in Seq(Devices)
    /\ Devices \subseteq rootfs \cup Entries(lines)
    /\ pc # "scan" => lines # <<>>

PathsLeft ==
  pc = "mask" =>
    /\ lines \in Seq(Paths)
    /\ Paths \cap rootfs \subseteq masked \cup Entries(lines)

NothingLeft ==
  /\ pc = "devicesOut" /\ errno = "0" => Devices \subseteq rootfs
  /\ pc \in {"masked", "mask", "maskedOut", "ok"} /\ "devices.txt" \in txt
       => Devices \subseteq rootfs
  /\ pc = "maskedOut" /\ errno = "0" => Paths \cap rootfs \subseteq masked
  /\ pc = "ok" /\ "masked.txt" \in txt => Paths \cap rootfs \subseteq masked

HookInv == HookTypeOK /\ DevicesLeft /\ PathsLeft /\ NothingLeft

-----------------------------------------------------------------------------
\* The lines of a file name every member of the set it was written from.
LEMMA OrdersLines ==
  ASSUME NEW S, IsFiniteSet(S), NEW s \in Orders(S)
  PROVE  s \in Seq(S) /\ Entries(s) = S
<1>1. Cardinality(S) \in Nat
  BY FS_CardinalityType
<1>2. s \in [1 .. Cardinality(S) -> S] /\ \A x \in S : \E n \in DOMAIN s : s[n] = x
  BY DEF Orders
<1>3. s \in Seq(S) /\ Len(s) = Cardinality(S)
  BY <1>1, <1>2, LenProperties, SMT
<1> QED BY <1>2, <1>3 DEF Entries

\* Reading a line takes its entry and no other.
LEMMA ReadLine ==
  ASSUME NEW S, NEW s \in Seq(S), s # <<>>
  PROVE  /\ Head(s) \in S
         /\ Tail(s) \in Seq(S)
         /\ Entries(s) = Entries(Tail(s)) \cup {Head(s)}
<1>1. /\ Len(s) \in Nat \ {0} /\ Head(s) = s[1] /\ Head(s) \in S /\ Tail(s) \in Seq(S)
      /\ Len(Tail(s)) = Len(s) - 1
      /\ \A n \in 1 .. Len(Tail(s)) : Tail(s)[n] = s[n + 1]
  BY HeadTailProperties, EmptySeq, LenProperties
<1>2. Entries(s) \subseteq Entries(Tail(s)) \cup {Head(s)}
  <2> SUFFICES ASSUME NEW n \in 1 .. Len(s), n # 1
               PROVE  s[n] \in Entries(Tail(s))
    BY <1>1 DEF Entries
  <2>1. n - 1 \in 1 .. Len(Tail(s)) /\ Tail(s)[n - 1] = s[n]
    BY <1>1
  <2> QED BY <2>1 DEF Entries
<1>3. Entries(Tail(s)) \subseteq Entries(s)
  <2> SUFFICES ASSUME NEW n \in 1 .. Len(Tail(s))
               PROVE  Tail(s)[n] \in Entries(s)
    BY DEF Entries
  <2>1. n + 1 \in 1 .. Len(s) /\ Tail(s)[n] = s[n + 1]
    BY <1>1
  <2> QED BY <2>1 DEF Entries
<1>4. Head(s) \in Entries(s)
  BY <1>1 DEF Entries
<1> QED BY <1>1, <1>2, <1>3, <1>4

\* A file that is read to its end has no entry left.
LEMMA NoLine == Entries(<<>>) = {}
BY EmptySeq DEF Entries

\* A sequence over a part of a set is one over the set.
LEMMA LinesOfPart ==
  ASSUME NEW S, NEW T, S \subseteq T, NEW s \in Seq(S)
  PROVE  s \in Seq(T)
BY SeqMonotonic

-----------------------------------------------------------------------------
\* HookInv holds initially.
LEMMA InitHookInv == ASSUME Init PROVE HookInv
<1>1. <<>> \in Seq(Devices \cup Paths) /\ <<>> \in Seq(Dirs)
  BY EmptySeq
<1> QED
  BY <1>1 DEF Init, HookInv, HookTypeOK, DevicesLeft, PathsLeft, NothingLeft, Errnos, TxtFiles

\* create_devices_at keeps it.
LEMMA DevicesKeepHookInv ==
  ASSUME HookInv, OpenDevices \/ ScanDevice \/ MakeDirectory \/ MakeDevice \/ DevicesOut
  PROVE  HookInv'
<1> USE DEF HookInv, HookTypeOK, DevicesLeft, PathsLeft, NothingLeft, Errnos
<1>1. CASE OpenDevices
  <2>1. CASE "devices.txt" \in txt
    <3>1. lines' \in DevicesTxt /\ pc' = "scan" /\ UNCHANGED <<txt, errno, comps, rootfs, masked, broken>>
      BY <1>1, <2>1 DEF OpenDevices
    <3>2. lines' \in Seq(Devices) /\ Entries(lines') = Devices
      BY <3>1, OrdersLines, HookAssumption DEF DevicesTxt
    <3>3. lines' \in Seq(Devices \cup Paths)
      BY <3>2, LinesOfPart
    <3> QED BY <2>1, <3>1, <3>2, <3>3
  <2>2. CASE "devices.txt" \notin txt
    BY <1>1, <2>2 DEF OpenDevices
  <2> QED BY <2>1, <2>2
<1>2. CASE ScanDevice
  <2>1. CASE lines = <<>>
    BY <1>2, <2>1, NoLine DEF ScanDevice
  <2>2. CASE lines # <<>>
    <3>1. lines \in Seq(Devices) /\ pc = "scan"
      BY <1>2 DEF ScanDevice
    <3>2. /\ Head(lines) \in Devices /\ Tail(lines) \in Seq(Devices)
          /\ Entries(lines) = Entries(Tail(lines)) \cup {Head(lines)}
      BY <2>2, <3>1, ReadLine
    <3>3. Tail(lines) \in Seq(Devices \cup Paths)
      BY <3>2, LinesOfPart
    <3>4. DirsOf[Head(lines)] \in Seq(Dirs)
      BY <3>2, HookAssumption
    <3>5. CASE /\ Head(lines) \in rootfs /\ lines' = Tail(lines)
               /\ UNCHANGED <<pc, errno, comps, broken>>
      BY <1>2, <2>2, <3>2, <3>3, <3>5 DEF ScanDevice
    <3>6. CASE \E error \in {"ENOENT", "EOTHER"} : StatFailed(error)
      BY <1>2, <2>2, <3>1, <3>2, <3>4, <3>6 DEF ScanDevice, StatFailed
    <3> QED BY <1>2, <2>2, <3>5, <3>6 DEF ScanDevice
  <2> QED BY <2>1, <2>2
<1>3. CASE MakeDirectory
  <2>1. CASE comps = <<>>
    BY <1>3, <2>1 DEF MakeDirectory
  <2>2. CASE comps # <<>>
    <3>1. Head(comps) \in Dirs /\ Tail(comps) \in Seq(Dirs)
      BY <2>2, ReadLine
    <3> QED BY <1>3, <2>2, <3>1 DEF MakeDirectory
  <2> QED BY <2>1, <2>2
<1>4. CASE MakeDevice
  <2>1. lines \in Seq(Devices) /\ lines # <<>> /\ "devices.txt" \in txt
    BY <1>4 DEF MakeDevice
  <2>2. /\ Head(lines) \in Devices /\ Tail(lines) \in Seq(Devices)
        /\ Entries(lines) = Entries(Tail(lines)) \cup {Head(lines)}
    BY <2>1, ReadLine
  <2>3. Tail(lines) \in Seq(Devices \cup Paths)
    BY <2>2, LinesOfPart
  <2> QED BY <1>4, <2>1, <2>2, <2>3 DEF MakeDevice
<1>5. CASE DevicesOut
  BY <1>5 DEF DevicesOut
<1> QED BY <1>1, <1>2, <1>3, <1>4, <1>5

\* mask_paths_at keeps it.
LEMMA MaskKeepsHookInv ==
  ASSUME HookInv, OpenMasked \/ MaskPath \/ MaskedOut
  PROVE  HookInv'
<1> USE DEF HookInv, HookTypeOK, DevicesLeft, PathsLeft, NothingLeft, Errnos
<1>1. CASE OpenMasked
  <2>1. CASE "masked.txt" \in txt
    <3>1. lines' \in MaskedTxt /\ pc' = "mask" /\ UNCHANGED <<txt, errno, comps, rootfs, masked, broken>>
      BY <1>1, <2>1 DEF OpenMasked
    <3>2. lines' \in Seq(Paths) /\ Entries(lines') = Paths
      BY <3>1, OrdersLines, HookAssumption DEF MaskedTxt
    <3>3. lines' \in Seq(Devices \cup Paths)
      BY <3>2, LinesOfPart
    <3> QED BY <1>1, <2>1, <3>1, <3>2, <3>3 DEF OpenMasked
  <2>2. CASE "masked.txt" \notin txt
    BY <1>1, <2>2 DEF OpenMasked
  <2> QED BY <2>1, <2>2
<1>2. CASE MaskPath
  <2>1. CASE lines = <<>>
    BY <1>2, <2>1, NoLine DEF MaskPath
  <2>2. CASE lines # <<>>
    <3>1. lines \in Seq(Paths) /\ pc = "mask"
      BY <1>2 DEF MaskPath
    <3>2. /\ Head(lines) \in Paths /\ Tail(lines) \in Seq(Paths)
          /\ Entries(lines) = Entries(Tail(lines)) \cup {Head(lines)}
      BY <2>2, <3>1, ReadLine
    <3>3. Tail(lines) \in Seq(Devices \cup Paths)
      BY <3>2, LinesOfPart
    <3> QED BY <1>2, <2>2, <3>1, <3>2, <3>3 DEF MaskPath
  <2> QED BY <2>1, <2>2
<1>3. CASE MaskedOut
  BY <1>3 DEF MaskedOut
<1> QED BY <1>1, <1>2, <1>3

\* So does a call that fails, whatever it leaves behind in the rootfs.
LEMMA FailureKeepsHookInv == ASSUME HookInv, CallFails PROVE HookInv'
<1> USE DEF HookInv, HookTypeOK, DevicesLeft, PathsLeft, NothingLeft, Errnos
<1>1. InHand \subseteq Dirs \cup Devices
  <2>1. comps # <<>> => Head(comps) \in Dirs
    BY ReadLine
  <2>2. pc = "mknod" => Head(lines) \in Devices
    BY ReadLine
  <2> QED BY <2>1, <2>2 DEF InHand
<1>2. rootfs \subseteq rootfs' /\ rootfs' \subseteq Dirs \cup Devices \cup Paths
  BY <1>1 DEF CallFails
<1>3. pc \in {"masked", "mask"} => rootfs' = rootfs
  BY DEF CallFails, InHand
<1>4. pc' \in {"devicesOut", "maskedOut", "failed"} /\ (pc' = "maskedOut" => pc = "mask")
  BY DEF CallFails
<1> QED BY <1>2, <1>3, <1>4 DEF CallFails

\* Every step of the hook keeps HookInv.
LEMMA NextHookInv == ASSUME HookInv, [Next]_vars PROVE HookInv'
<1>1. CASE Done \/ UNCHANGED vars
  BY <1>1 DEF Done, vars, HookInv, HookTypeOK, DevicesLeft, PathsLeft, NothingLeft
<1> QED
  BY <1>1, DevicesKeepHookInv, MaskKeepsHookInv, FailureKeepsHookInv DEF Next

\* HookInv is enough.
LEMMA HookInvSuffices == ASSUME HookInv PROVE HookTypeOK /\ HookOkMeansComplete
BY DEF HookInv, NothingLeft, HookOkMeansComplete

=============================================================================
