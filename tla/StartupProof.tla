----------------------------- MODULE StartupProof -----------------------------
(***************************************************************************)
(* The mount hook followed by crio-lxc-init, for any arguments,            *)
(* environment, buffer and array sizes, and any interleaving with the      *)
(* create that writes init's files and a delete that removes them.  A step *)
(* of the hook leaves the variables of init alone and the other way        *)
(* round, so HookInv (module HookProof) and InitInv hold together.         *)
(*                                                                         *)
(* That init executes the program with everything it was given depends on  *)
(* the writer: the environment is written after the arguments, so an init  *)
(* that could open the environment finds the arguments complete, and one   *)
(* that could not gives up at the next list because errno is still set     *)
(* (WriterInv, ReaderInv).  What init has read so far is the beginning of  *)
(* the list (Gathered, ReadArgs); a value that was read beyond the buffer  *)
(* stays too long for the kernel until it is overwritten.                  *)
(***************************************************************************)
EXTENDS Startup, HookProof

\* All of list f is written.
Complete(f) == written[f] = 2 * Len(list[f])

\* The environment after n variables were loaded.
Gathered(n) ==
  \A k \in Keys :
    IF Defined(n, k) = {} THEN env[k] = Unset
    ELSE \E m \in Defined(n, k) :
           /\ \A o \in Defined(n, k) : o <= m
           /\ env[k] \in Long \/ env[k] = list["environ"][m].val

\* The same once HOME is there.
GatheredHome(n) ==
  \A k \in Keys :
    IF Defined(n, k) = {} THEN IF k = HOME THEN env[k] \in HomeDirs ELSE env[k] = Unset
    ELSE \E m \in Defined(n, k) :
           /\ \A o \in Defined(n, k) : o <= m
           /\ env[k] \in Long \/ env[k] = list["environ"][m].val

\* n variables are all there are, unless the list is still being written.
AllOf(n) == n \in 0 .. Len(list["environ"]) /\ (~early => n = Len(list["environ"]))

ReadArgs(n) ==
  /\ Len(args) = n
  /\ \A m \in 1 .. n : args[m] = list["cmdline"][m].val

WroteCmdline == {"environ", "write environ", "cwd", "error.log", "done", "failed"}
WroteEnviron == {"cwd", "error.log", "done"}

WriterInv ==
  /\ \A f \in Lists : written[f] <= 2 * Len(list[f])
  /\ wpc = "spec" => step = "none" /\ written = [f \in Lists |-> 0]
  /\ wpc \in WroteCmdline => Complete("cmdline")
  /\ wpc \in WroteEnviron => Complete("environ") /\ "environ" \in owned
  /\ "environ" \in files => wpc \in WroteCmdline \ {"environ"}
  /\ step # "none" /\ ~early => wpc = "done"

FdsInv ==
  /\ fds \subseteq (Inherited \X {FALSE}) \cup (Files \X {TRUE})
  /\ step = "user" => fds \subseteq Inherited \X {FALSE}

ReaderInv ==
  /\ step \in {"none", "errlog", "environ"} =>
       pos = 0 /\ args = <<>> /\ ~overrun /\ env = [k \in Keys |-> Unset]
  /\ step \in {"environ", "readenv"} => err = "0"
  /\ step = "readenv" =>
       /\ Complete("cmdline")
       /\ 2 * pos <= written["environ"]
       /\ args = <<>> /\ ~overrun
       /\ Gathered(pos)
  /\ step = "cmdline" => pos = 0 /\ args = <<>> /\ ~overrun
  /\ step \in {"cmdline", "readargs"} /\ err = "0" =>
       Complete("cmdline") /\ \E n \in Nat : AllOf(n) /\ Gathered(n)
  /\ step \in {"cmdline", "readargs"} /\ err # "0" => early \/ "environ" \notin files
  /\ step = "readargs" =>
       /\ 2 * pos <= written["cmdline"]
       /\ overrun => pos >= ArgsLen
       /\ ~overrun => ReadArgs(pos)
  /\ step \in {"home", "fifo", "chdir", "closefds", "exec", "user"} /\ ~overrun =>
       ReadArgs(Len(list["cmdline"]))
  /\ step = "home" => \E n \in Nat : AllOf(n) /\ Gathered(n)
  /\ step \in {"fifo", "chdir", "closefds", "exec", "user"} =>
       \E n \in Nat : AllOf(n) /\ GatheredHome(n)
  /\ step = "user" =>
       /\ \A n \in DOMAIN args : args[n] \notin Long
       /\ \A k \in Keys : env[k] \notin Long

InitInv == InitTypeOK /\ WriterInv /\ FdsInv /\ ReaderInv

-----------------------------------------------------------------------------
\* InitInv holds initially.
LEMMA InitInitInv == ASSUME ProcessInit PROVE InitInv
<1> USE InitAssumption DEF ProcessInit
<1>1. <<>> \in Seq(Pieces) /\ <<>> \in Seq(Strings) /\ Len(<<>>) = 0
  BY EmptySeq
<1>2. InitTypeOK
  BY <1>1 DEF InitTypeOK, IsList, Lists, Files, Ended
<1>3. WriterInv
  BY <1>1 DEF WriterInv, Lists, WroteCmdline, WroteEnviron
<1>4. FdsInv /\ ReaderInv
  BY DEF FdsInv, ReaderInv
<1> QED BY <1>2, <1>3, <1>4 DEF InitInv

-----------------------------------------------------------------------------
(***************************************************************************)
(* configureInit and delete.                                               *)
(***************************************************************************)

\* The numbers of the model are numbers.
LEMMA Numbers ==
  ASSUME InitTypeOK
  PROVE  /\ pos \in Nat
         /\ \A f \in Lists : written[f] \in Nat /\ Len(list[f]) \in Nat
         /\ \A f \in Lists : list[f] \in Seq(Pieces)
<1>1. pos \in Nat /\ written \in [Lists -> Nat]
  BY DEF InitTypeOK
<1>2. \A f \in Lists : list[f] \in Seq(Pieces)
  BY DEF InitTypeOK, IsList, Lists
<1> QED BY <1>1, <1>2, LenProperties

\* What init has read does not change when more is written or files are removed.
LEMMA WriterLeavesReader ==
  ASSUME InitTypeOK, ReaderInv, WriterInv, written' \in [Lists -> Nat],
         UNCHANGED <<list, step, err, fds, pos, env, args, early, overrun>>,
         \A f \in Lists : written[f] <= written'[f] /\ written'[f] <= 2 * Len(list[f]),
         "environ" \in files' => early \/ "environ" \in files \/ step = "none"
  PROVE  ReaderInv' /\ FdsInv' = FdsInv
<1>1. \A n : Gathered(n)' = Gathered(n) /\ GatheredHome(n)' = GatheredHome(n)
             /\ AllOf(n)' = AllOf(n) /\ ReadArgs(n)' = ReadArgs(n)
  BY DEF Gathered, GatheredHome, AllOf, ReadArgs, Defined
<1>2. Complete("cmdline") => Complete("cmdline")'
  BY Numbers DEF Complete, Lists
<1>3. FdsInv' = FdsInv
  BY DEF FdsInv
<1>4. 2 * pos <= written["environ"] => 2 * pos <= written'["environ"]
  BY Numbers DEF Lists
<1>5. 2 * pos <= written["cmdline"] => 2 * pos <= written'["cmdline"]
  BY Numbers DEF Lists
<1> QED BY <1>1, <1>2, <1>3, <1>4, <1>5 DEF ReaderInv

\* The writer keeps InitInv.
LEMMA WriterKeepsInitInv ==
  ASSUME InitInv,
         \/ ReadSpec \/ MakeFile
         \/ \E f \in Lists : OpenList(f) \/ WriteList(f) \/ CloseList(f)
         \/ \E f \in Files : Remove(f)
  PROVE  InitInv'
<1> USE InitAssumption DEF InitInv, memory, writer
<1>0. /\ \A f \in Lists : written[f] \in Nat /\ Len(list[f]) \in Nat
      /\ \A f \in Lists : written[f] <= written[f] /\ written[f] <= 2 * Len(list[f])
      /\ written \in [Lists -> Nat]
  <2>1. \A f \in Lists : written[f] \in Nat /\ Len(list[f]) \in Nat
    BY Numbers
  <2>2. \A f \in Lists : written[f] <= 2 * Len(list[f])
    BY DEF WriterInv
  <2>3. written \in [Lists -> Nat]
    BY DEF InitTypeOK
  <2> QED BY <2>1, <2>2, <2>3
<1>1. CASE ReadSpec
  <2>1. step = "none" /\ written' = [f \in Lists |-> 0]
    BY <1>1 DEF ReadSpec, WriterInv
  <2>2. IsList(list'["cmdline"]) /\ IsList(list'["environ"])
    BY <1>1 DEF ReadSpec
  <2>3. Len(list'["cmdline"]) \in Nat /\ Len(list'["environ"]) \in Nat
    BY <2>2, LenProperties DEF IsList
  <2>4. InitTypeOK'
    BY <1>1, <2>2 DEF ReadSpec, InitTypeOK, IsList
  <2>5. WriterInv'
    BY <1>1, <2>1, <2>3 DEF ReadSpec, WriterInv, Lists, WroteCmdline, WroteEnviron
  <2>6. FdsInv' /\ ReaderInv'
    BY <1>1, <2>1 DEF ReadSpec, FdsInv, ReaderInv
  <2> QED BY <2>4, <2>5, <2>6
<1>2. CASE MakeFile
  <2>1. InitTypeOK'
    BY <1>2 DEF MakeFile, InitTypeOK, Files
  <2>2. WriterInv'
    BY <1>2 DEF MakeFile, WriterInv, WroteCmdline, WroteEnviron, Complete
  <2>3. "environ" \in files' => "environ" \in files
    BY <1>2 DEF MakeFile
  <2>4. ReaderInv' /\ FdsInv' = FdsInv
    BY <1>0, <1>2, <2>3, WriterLeavesReader DEF MakeFile
  <2> QED BY <2>1, <2>2, <2>4
<1>3. ASSUME NEW f \in Lists, OpenList(f) PROVE InitInv'
  <2>1. InitTypeOK'
    BY <1>3 DEF OpenList, Writing, InitTypeOK, Files
  <2>2. WriterInv'
    BY <1>3 DEF OpenList, Writing, WriterInv, Lists, WroteCmdline, WroteEnviron, Complete
  <2>3. "environ" \in files' => early \/ "environ" \in files \/ step = "none"
    BY <1>3 DEF OpenList, WriterInv, Lists
  <2>4. ReaderInv' /\ FdsInv' = FdsInv
    BY <1>0, <1>3, <2>3, WriterLeavesReader DEF OpenList
  <2> QED BY <2>1, <2>2, <2>4
<1>4. ASSUME NEW f \in Lists, WriteList(f) PROVE InitInv'
  <2>1. /\ written' \in [Lists -> Nat]
        /\ \A g \in Lists : written[g] <= written'[g] /\ written'[g] <= 2 * Len(list[g])
    BY <1>0, <1>4 DEF WriteList
  <2>2. InitTypeOK'
    BY <1>4, <2>1 DEF WriteList, InitTypeOK
  <2>3. Complete("cmdline") => Complete("cmdline")'
    BY <1>0, <1>4, <2>1 DEF WriteList, Complete, Lists
  <2>4. wpc \notin WroteEnviron \cup {"spec"}
    BY <1>4 DEF WriteList, Writing, WroteEnviron
  <2>5. WriterInv'
    BY <1>4, <2>1, <2>3, <2>4 DEF WriteList, WriterInv
  <2>6. ReaderInv' /\ FdsInv' = FdsInv
    BY <1>4, <2>1, WriterLeavesReader DEF WriteList
  <2> QED BY <2>2, <2>5, <2>6
<1>5. ASSUME NEW f \in Lists, CloseList(f) PROVE InitInv'
  <2>1. InitTypeOK'
    BY <1>5 DEF CloseList, InitTypeOK
  <2>2. WriterInv'
    BY <1>5 DEF CloseList, Writing, WriterInv, Lists, WroteCmdline, WroteEnviron, Complete
  <2>3. ReaderInv' /\ FdsInv' = FdsInv
    BY <1>0, <1>5, WriterLeavesReader DEF CloseList
  <2> QED BY <2>1, <2>2, <2>3
<1>6. ASSUME NEW f \in Files, Remove(f) PROVE InitInv'
  <2>1. InitTypeOK'
    BY <1>6 DEF Remove, InitTypeOK
  <2>2. WriterInv'
    BY <1>6 DEF Remove, WriterInv, Complete
  <2>3. ReaderInv' /\ FdsInv' = FdsInv
    BY <1>0, <1>6, WriterLeavesReader DEF Remove
  <2> QED BY <2>1, <2>2, <2>3
<1> QED BY <1>1, <1>2, <1>3, <1>4, <1>5, <1>6

-----------------------------------------------------------------------------
(***************************************************************************)
(* crio-lxc-init.                                                          *)
(***************************************************************************)

\* A piece that init finds is a piece of the list.
LEMMA PieceOfList ==
  ASSUME InitInv, NEW f \in Lists, AtPiece(f)
  PROVE  pos + 1 \in 1 .. Len(list[f]) /\ Piece(f) = list[f][pos + 1] /\ Piece(f) \in Pieces
<1>1. /\ pos \in Nat /\ written[f] \in Nat /\ Len(list[f]) \in Nat
      /\ list[f] \in Seq(Pieces) /\ written[f] <= 2 * Len(list[f])
  BY Numbers DEF InitInv, WriterInv
<1>2. pos + 1 \in 1 .. Len(list[f])
  BY <1>1 DEF AtPiece
<1> QED BY <1>1, <1>2, ElementOfSeq DEF Piece

\* A variable that is loaded is the last definition of its name so far.
LEMMA LoadKeepsGathered ==
  ASSUME InitInv, LoadVariable
  PROVE  Gathered(pos)' /\ InitTypeOK'
<1> DEFINE P == Piece("environ")
<1>1. /\ AtPiece("environ") /\ P.key # NoKey /\ step = "readenv"
      /\ pos' = pos + 1
      /\ UNCHANGED <<list, root, wpc, written, owned, files, step, err, fds, args, early, overrun>>
  BY DEF LoadVariable, writer
<1>2. pos + 1 \in 1 .. Len(list["environ"]) /\ P = list["environ"][pos + 1] /\ P \in Pieces
  BY <1>1, PieceOfList DEF Lists
<1>3. P.key \in Keys /\ P.val \in Strings
  BY <1>1, <1>2 DEF Pieces
<1>4. PICK v \in {P.val} \cup (IF P.val \in Full THEN {Garbage} ELSE {}) :
        env' = [env EXCEPT ![P.key] = v]
  BY DEF LoadVariable
<1>5. v \in Strings /\ (v \in Long \/ v = P.val)
  BY <1>3, <1>4, InitAssumption
<1>6. pos \in Nat /\ env \in [Keys -> Strings \cup {Unset}]
  BY DEF InitInv, InitTypeOK
<1>7. env' \in [Keys -> Strings \cup {Unset}] /\ pos' \in Nat
  BY <1>1, <1>3, <1>4, <1>5, <1>6
<1>8. InitTypeOK'
  BY <1>1, <1>7 DEF InitInv, InitTypeOK
<1>9. Gathered(pos)
  BY <1>1 DEF InitInv, ReaderInv
<1>10. \A k \in Keys : Defined(pos, k)' =
         Defined(pos, k) \cup (IF P.key = k THEN {pos + 1} ELSE {})
  <2>1. \A k \in Keys : Defined(pos + 1, k) =
          Defined(pos, k) \cup (IF P.key = k THEN {pos + 1} ELSE {})
    BY <1>2, <1>6 DEF Defined
  <2> QED BY <1>1, <2>1 DEF Defined
<1>11. Gathered(pos)'
  <2> SUFFICES ASSUME NEW k \in Keys
               PROVE  IF Defined(pos, k)' = {} THEN env'[k] = Unset
                      ELSE \E m \in Defined(pos, k)' :
                             /\ \A o \in Defined(pos, k)' : o <= m
                             /\ env'[k] \in Long \/ env'[k] = list["environ"][m].val
    BY <1>1 DEF Gathered
  <2>1. CASE k = P.key
    <3>1. pos + 1 \in Defined(pos, k)' /\ \A o \in Defined(pos, k)' : o <= pos + 1
      BY <1>6, <1>10, <2>1 DEF Defined
    <3>2. env'[k] = v
      BY <1>4, <1>6, <2>1
    <3> QED BY <1>2, <1>5, <3>1, <3>2
  <2>2. CASE k # P.key
    <3>1. Defined(pos, k)' = Defined(pos, k) /\ env'[k] = env[k]
      BY <1>4, <1>6, <1>10, <2>2
    <3> QED BY <1>9, <3>1 DEF Gathered
  <2> QED BY <2>1, <2>2
<1> QED BY <1>8, <1>11

\* An argument that is read follows the ones before it.
LEMMA LoadKeepsArgs ==
  ASSUME InitInv, LoadArgument
  PROVE  /\ InitTypeOK'
         /\ overrun' => pos' >= ArgsLen
         /\ ~overrun' => ReadArgs(pos)'
<1> DEFINE P == Piece("cmdline")
<1>1. /\ AtPiece("cmdline") /\ step = "readargs" /\ pos' = pos + 1
      /\ overrun' = (pos + 1 >= ArgsLen)
      /\ args' = Append(args, P.val) \/ (overrun' /\ args' = args)
      /\ UNCHANGED <<list, root, wpc, written, owned, files, step, err, fds, env, early>>
  BY DEF LoadArgument, writer
<1>2. pos + 1 \in 1 .. Len(list["cmdline"]) /\ P = list["cmdline"][pos + 1] /\ P \in Pieces
  BY <1>1, PieceOfList DEF Lists
<1>3. pos \in Nat /\ P.val \in Strings /\ args \in Seq(Strings) /\ ArgsLen \in Nat
  BY <1>2, InitAssumption DEF Pieces, InitInv, InitTypeOK
<1>4. /\ Append(args, P.val) \in Seq(Strings)
      /\ Len(Append(args, P.val)) = Len(args) + 1
      /\ Append(args, P.val)[Len(args) + 1] = P.val
      /\ \A n \in 1 .. Len(args) : Append(args, P.val)[n] = args[n]
  BY <1>3, AppendProperties
<1>5. InitTypeOK'
  <2>1. overrun' \in BOOLEAN /\ pos' \in Nat /\ args' \in Seq(Strings)
    BY <1>1, <1>3, <1>4
  <2> QED BY <1>1, <2>1 DEF InitInv, InitTypeOK
<1>6. overrun' => pos' >= ArgsLen
  BY <1>1, <1>3
<1>7. ASSUME ~overrun' PROVE ReadArgs(pos)'
  <2>1. overrun => pos >= ArgsLen
    BY <1>1 DEF InitInv, ReaderInv
  <2>2. ~(pos + 1 >= ArgsLen) /\ args' = Append(args, P.val)
    BY <1>1, <1>7, Zenon
  <2>3. ~overrun
    BY <1>3, <2>1, <2>2
  <2>4. Len(args) = pos /\ \A m \in 1 .. pos : args[m] = list["cmdline"][m].val
    BY <1>1, <2>3 DEF InitInv, ReaderInv, ReadArgs
  <2>5. Len(args') = pos + 1 /\ \A m \in 1 .. pos + 1 : args'[m] = list["cmdline"][m].val
    BY <1>2, <1>3, <1>4, <2>2, <2>4
  <2> QED BY <1>1, <2>5 DEF ReadArgs
<1> QED BY <1>5, <1>6, <1>7

\* The steps of init keep the writer's part: they change none of it.
LEMMA MainKeepsWriterInv ==
  ASSUME InitInv, Start \/ Main
  PROVE  WriterInv'
<1>1. /\ UNCHANGED <<list, wpc, written, owned, files>>
      /\ wpc = "spec" => step' = "none"
      /\ step' # "none" /\ ~early' => wpc = "done"
  BY DEF InitInv, WriterInv, Start, Main, OpenErrorLog, OpenEnviron, LoadVariable,
         EnvironEnd, OpenCmdline, LoadArgument, CmdlineEnd, Malformed, EnsureHome, WriteFifo,
         Chdir, CloseExtraFds, Exec, Fails, Goto, writer, memory
<1> QED BY <1>1 DEF InitInv, WriterInv, Complete

\* They keep the descriptors apart: those that init opens are closed on exec.
LEMMA MainKeepsFdsInv ==
  ASSUME InitInv, Start \/ Main
  PROVE  FdsInv'
<1> USE DEF InitInv, FdsInv, Goto
<1>1. CASE Start
  BY <1>1 DEF Start
<1>2. CASE OpenErrorLog \/ OpenEnviron \/ OpenCmdline
  <2>1. step' # "user" /\ \E f \in Files : fds' \in {fds, fds \cup {<<f, TRUE>>}}
    BY <1>2 DEF OpenErrorLog, OpenEnviron, OpenCmdline, Files, Lists
  <2>2. \A f \in Files : <<f, TRUE>> \in Files \X {TRUE}
    OBVIOUS
  <2> QED BY <2>1, <2>2
<1>3. CASE Exec
  BY <1>3 DEF Exec
<1>4. CASE \/ LoadVariable \/ EnvironEnd \/ LoadArgument \/ CmdlineEnd \/ Malformed
           \/ EnsureHome \/ WriteFifo \/ Chdir \/ CloseExtraFds \/ Fails
  BY <1>4 DEF LoadVariable, EnvironEnd, LoadArgument, CmdlineEnd, Malformed, EnsureHome,
              WriteFifo, Chdir, CloseExtraFds, Fails
<1> QED BY <1>1, <1>2, <1>3, <1>4 DEF Main

\* They keep the types.
LEMMA MainKeepsTypes ==
  ASSUME InitInv, Start \/ Main
  PROVE  InitTypeOK'
<1> USE DEF InitTypeOK, Goto, writer, memory, Ended
<1>0. InitTypeOK
  BY DEF InitInv
<1>1. CASE Start
  BY <1>0, <1>1 DEF Start
<1>2. CASE OpenErrorLog \/ OpenEnviron \/ OpenCmdline
  <2>1. \E f \in Files : fds' \in {fds, fds \cup {<<f, TRUE>>}}
    BY <1>2 DEF OpenErrorLog, OpenEnviron, OpenCmdline, Files, Lists
  <2>2. fds' \subseteq (Files \cup Inherited) \X BOOLEAN
    <3>1. \A f \in Files : <<f, TRUE>> \in (Files \cup Inherited) \X BOOLEAN
      OBVIOUS
    <3> QED BY <1>0, <2>1, <3>1
  <2>3. err' \in {"0", "ENOENT", "EACCES"}
    BY <1>0, <1>2 DEF OpenErrorLog, OpenEnviron, OpenCmdline, OpenError
  <2>4. step' \in {"environ", "readenv", "cmdline", "readargs", "failed"}
    BY <1>2 DEF OpenErrorLog, OpenEnviron, OpenCmdline
  <2>5. UNCHANGED <<list, root, wpc, written, owned, files, pos, early, env, args, overrun>>
    BY <1>2 DEF OpenErrorLog, OpenEnviron, OpenCmdline
  <2> QED BY <1>0, <2>2, <2>3, <2>4, <2>5
<1>3. CASE Exec
  BY <1>0, <1>3 DEF Exec
<1>4. CASE EnvironEnd \/ CmdlineEnd \/ Malformed \/ WriteFifo \/ Chdir \/ CloseExtraFds \/ Fails
  <2>1. pos \in Nat /\ err \in {"0", "ENOENT", "EACCES"}
    BY <1>0
  <2>2. /\ step' \in {"cmdline", "home", "failed", "chdir", "closefds", "exec"}
        /\ pos' \in {pos, 0} /\ err' \in {err, "0"}
        /\ UNCHANGED <<list, root, wpc, written, owned, files, fds, early, env, args, overrun>>
    BY <1>4 DEF EnvironEnd, CmdlineEnd, Malformed, WriteFifo, Chdir, CloseExtraFds, Fails
  <2>3. pos' \in Nat /\ err' \in {"0", "ENOENT", "EACCES"}
    BY <2>1, <2>2
  <2> QED BY <1>0, <2>2, <2>3
<1>5. CASE EnsureHome
  BY <1>0, <1>5, InitAssumption DEF EnsureHome
<1> QED
  BY <1>1, <1>2, <1>3, <1>4, <1>5, LoadKeepsGathered, LoadKeepsArgs DEF Main

\* What was read stays what it is while init does something else.
LEMMA ReadStays ==
  ASSUME UNCHANGED <<list, env, args, early>>, NEW n
  PROVE  /\ Gathered(n)' = Gathered(n) /\ GatheredHome(n)' = GatheredHome(n)
         /\ AllOf(n)' = AllOf(n) /\ ReadArgs(n)' = ReadArgs(n)
BY DEF Gathered, GatheredHome, AllOf, ReadArgs, Defined

\* Opening the lists keeps ReaderInv: without environ init goes on with errno set.
LEMMA OpeningKeepsReaderInv ==
  ASSUME InitInv, Start \/ OpenErrorLog \/ OpenEnviron \/ OpenCmdline
  PROVE  ReaderInv'
<1> USE DEF InitInv, Goto, writer, memory
<1>1. CASE Start
  BY <1>1 DEF Start, ReaderInv
<1>2. CASE OpenErrorLog
  BY <1>2 DEF OpenErrorLog, ReaderInv
<1>3. CASE OpenEnviron
  <2>1. /\ pos = 0 /\ args = <<>> /\ ~overrun /\ env = [k \in Keys |-> Unset] /\ err = "0"
        /\ step = "environ"
        /\ UNCHANGED <<list, written, owned, wpc, files, pos, early, env, args, overrun>>
    BY <1>3 DEF OpenEnviron, ReaderInv
  <2>2. CASE step' = "readenv"
    <3>1. err' = "0" /\ "environ" \in files
      BY <1>3, <2>1, <2>2 DEF OpenEnviron, OpenError
    <3>2. Complete("cmdline")'
      BY <2>1, <3>1 DEF WriterInv, Complete
    <3>3. 2 * pos' <= written'["environ"]
      BY <2>1, Numbers DEF Lists
    <3>4. Gathered(pos)'
      BY <2>1 DEF Gathered, Defined
    <3> QED BY <2>1, <2>2, <3>1, <3>2, <3>3, <3>4 DEF ReaderInv
  <2>3. CASE step' = "cmdline"
    <3>1. err' = OpenError("environ") /\ err' # "0"
      BY <1>3, <2>1, <2>3 DEF OpenEnviron
    <3>2. early \/ "environ" \notin files
      BY <2>1, <3>1 DEF OpenError, WriterInv, WroteEnviron
    <3> QED BY <2>1, <2>3, <3>1, <3>2 DEF ReaderInv
  <2> QED BY <1>3, <2>2, <2>3 DEF OpenEnviron
<1>4. CASE OpenCmdline
  <2>1. /\ pos = 0 /\ args = <<>> /\ ~overrun /\ step = "cmdline"
        /\ UNCHANGED <<list, written, owned, wpc, files, pos, early, env, args, overrun>>
    BY <1>4 DEF OpenCmdline, ReaderInv
  <2>2. CASE step' = "readargs"
    <3>1. err' = err
      BY <1>4, <2>1, <2>2 DEF OpenCmdline
    <3>2. 2 * pos' <= written'["cmdline"]
      BY <2>1, Numbers DEF Lists
    <3>3. ReadArgs(pos)'
      BY <2>1, EmptySeq DEF ReadArgs
    <3>4. Complete("cmdline")' = Complete("cmdline")
      BY <2>1 DEF Complete
    <3> QED BY <2>1, <2>2, <3>1, <3>2, <3>3, <3>4, ReadStays DEF ReaderInv
  <2>3. CASE step' = "failed"
    BY <2>1, <2>3 DEF ReaderInv
  <2> QED BY <1>4, <2>2, <2>3 DEF OpenCmdline
<1> QED BY <1>1, <1>2, <1>3, <1>4

\* Reading the lists keeps it.
LEMMA ReadingKeepsReaderInv ==
  ASSUME InitInv, LoadVariable \/ EnvironEnd \/ LoadArgument \/ CmdlineEnd
  PROVE  ReaderInv'
<1> USE DEF InitInv, Goto, writer, memory
<1>0. /\ pos \in Nat /\ written["environ"] \in Nat /\ written["cmdline"] \in Nat
      /\ Len(list["environ"]) \in Nat /\ Len(list["cmdline"]) \in Nat
      /\ written["environ"] <= 2 * Len(list["environ"])
  BY Numbers DEF Lists, WriterInv
<1>1. CASE LoadVariable
  <2>1. /\ step = "readenv" /\ err = "0" /\ written["environ"] >= 2 * (pos + 1) /\ pos' = pos + 1
        /\ UNCHANGED <<list, written, files, step, err, args, early, overrun>>
    BY <1>1 DEF LoadVariable, AtPiece
  <2>2. Complete("cmdline")' /\ args = <<>> /\ ~overrun
    BY <2>1 DEF ReaderInv, Complete
  <2>3. 2 * pos' <= written'["environ"]
    BY <1>0, <2>1
  <2> QED BY <1>1, <2>1, <2>2, <2>3, LoadKeepsGathered DEF ReaderInv
<1>2. CASE EnvironEnd
  <2>1. /\ step = "readenv" /\ step' = "cmdline" /\ err = "0" /\ written["environ"] = 2 * pos
        /\ pos' = 0
        /\ UNCHANGED <<list, written, files, err, early, env, args, overrun>>
    BY <1>2 DEF EnvironEnd, AtEnd
  <2>2. Complete("cmdline")' /\ args = <<>> /\ ~overrun /\ Gathered(pos)
    BY <2>1 DEF ReaderInv, Complete
  <2>3. ~early => Complete("environ")
    BY <2>1 DEF WriterInv, WroteEnviron
  <2>4. AllOf(pos)
    BY <1>0, <2>1, <2>3 DEF AllOf, Complete
  <2>5. \E n \in Nat : AllOf(n)' /\ Gathered(n)'
    BY <1>0, <2>1, <2>2, <2>4, ReadStays
  <2> QED BY <2>1, <2>2, <2>5 DEF ReaderInv
<1>3. CASE LoadArgument
  <2>1. /\ step = "readargs" /\ err = "0" /\ written["cmdline"] >= 2 * (pos + 1) /\ pos' = pos + 1
        /\ UNCHANGED <<list, written, files, step, err, env, early>>
    BY <1>3 DEF LoadArgument, AtPiece
  <2>2. Complete("cmdline")'
    BY <2>1 DEF ReaderInv, Complete
  <2>3. \E n \in Nat : AllOf(n)' /\ Gathered(n)'
    BY <2>1 DEF ReaderInv, AllOf, Gathered, Defined
  <2>4. 2 * pos' <= written'["cmdline"]
    BY <1>0, <2>1
  <2> QED BY <1>3, <2>1, <2>2, <2>3, <2>4, LoadKeepsArgs DEF ReaderInv
<1>4. CASE CmdlineEnd
  <2>1. /\ step = "readargs" /\ step' \in {"home", "failed"} /\ err = "0"
        /\ written["cmdline"] = 2 * pos
        /\ UNCHANGED <<list, written, files, err, pos, early, env, args, overrun>>
    BY <1>4 DEF CmdlineEnd, AtEnd
  <2>2. pos = Len(list["cmdline"])
    BY <1>0, <2>1 DEF ReaderInv, Complete
  <2>3. ~overrun => ReadArgs(Len(list["cmdline"]))'
    BY <2>1, <2>2 DEF ReaderInv, ReadArgs
  <2>4. \E n \in Nat : AllOf(n)' /\ Gathered(n)'
    BY <2>1, ReadStays DEF ReaderInv
  <2> QED BY <2>1, <2>3, <2>4 DEF ReaderInv
<1> QED BY <1>1, <1>2, <1>3, <1>4

\* So does the rest of main.
LEMMA RestKeepsReaderInv ==
  ASSUME InitInv,
         \/ Malformed \/ EnsureHome \/ WriteFifo \/ Chdir \/ CloseExtraFds \/ Exec \/ Fails
  PROVE  ReaderInv'
<1> USE DEF InitInv, Goto, writer, memory
<1>1. CASE Malformed \/ Fails
  <2>1. step' = "failed"
    BY <1>1 DEF Malformed, Fails
  <2> QED BY <2>1 DEF ReaderInv
<1>2. CASE EnsureHome
  <2>1. step = "home" /\ step' = "fifo" /\ UNCHANGED <<list, args, early, overrun>>
    BY <1>2 DEF EnsureHome
  <2>2. ~overrun => ReadArgs(Len(list["cmdline"]))'
    BY <2>1 DEF ReaderInv, ReadArgs
  <2>3. PICK n \in Nat : AllOf(n) /\ Gathered(n)
    BY <2>1 DEF ReaderInv
  <2>4. GatheredHome(n)'
    <3> SUFFICES ASSUME NEW k \in Keys
                 PROVE  IF Defined(n, k) = {}
                        THEN IF k = HOME THEN env'[k] \in HomeDirs ELSE env'[k] = Unset
                        ELSE \E m \in Defined(n, k) :
                               /\ \A o \in Defined(n, k) : o <= m
                               /\ env'[k] \in Long \/ env'[k] = list["environ"][m].val
      BY <2>1 DEF GatheredHome, Defined
    <3>1. env[HOME] # Unset => env' = env
      BY <1>2 DEF EnsureHome
    <3>2. env[HOME] = Unset =>
            env'[HOME] \in HomeDirs /\ (k # HOME => env'[k] = env[k])
      BY <1>2, InitAssumption DEF EnsureHome, InitTypeOK
    <3>3. CASE Defined(n, k) = {}
      BY <2>3, <3>1, <3>2, <3>3 DEF Gathered
    <3>4. CASE Defined(n, k) # {}
      <4>1. PICK m \in Defined(n, k) :
              /\ \A o \in Defined(n, k) : o <= m
              /\ env[k] \in Long \/ env[k] = list["environ"][m].val
        BY <2>3, <3>4 DEF Gathered
      <4>2. m \in 1 .. Len(list["environ"]) /\ list["environ"] \in Seq(Pieces)
        BY <2>3, Numbers DEF AllOf, Defined, Lists
      <4>3. list["environ"][m].val \in Strings
        <5>1. list["environ"][m] \in Pieces
          BY <4>2, ElementOfSeq
        <5> QED BY <5>1 DEF Pieces
      <4>4. env[k] # Unset
        BY <4>1, <4>3, InitAssumption
      <4> QED BY <3>1, <3>2, <3>4, <4>1, <4>4
    <3> QED BY <3>3, <3>4
  <2> QED BY <2>1, <2>2, <2>3, <2>4 DEF ReaderInv, AllOf
<1>3. CASE WriteFifo \/ Chdir \/ CloseExtraFds
  <2>1. /\ step \in {"fifo", "chdir", "closefds"} /\ step' \in {"chdir", "closefds", "exec"}
        /\ UNCHANGED <<list, args, env, early, overrun>>
    BY <1>3 DEF WriteFifo, Chdir, CloseExtraFds
  <2>2. ~overrun => ReadArgs(Len(list["cmdline"]))'
    BY <2>1 DEF ReaderInv, ReadArgs
  <2>3. \E n \in Nat : AllOf(n)' /\ GatheredHome(n)'
    BY <2>1, ReadStays DEF ReaderInv
  <2> QED BY <2>1, <2>2, <2>3 DEF ReaderInv
<1>4. CASE Exec
  <2>1. /\ step = "exec" /\ step' = "user"
        /\ UNCHANGED <<list, args, env, early, overrun>>
    BY <1>4 DEF Exec
  <2>2. ~overrun => ReadArgs(Len(list["cmdline"]))'
    BY <2>1 DEF ReaderInv, ReadArgs
  <2>3. \E n \in Nat : AllOf(n)' /\ GatheredHome(n)'
    BY <2>1, ReadStays DEF ReaderInv
  <2>4. (\A n \in DOMAIN args : args[n] \notin Long)' /\ (\A k \in Keys : env[k] \notin Long)'
    BY <1>4, <2>1 DEF Exec
  <2> QED BY <2>1, <2>2, <2>3, <2>4 DEF ReaderInv
<1> QED BY <1>1, <1>2, <1>3, <1>4

-----------------------------------------------------------------------------
(***************************************************************************)
(* The theorems.                                                           *)
(***************************************************************************)

\* Every step of the writer, of a delete and of init keeps InitInv.
LEMMA NextInitInv == ASSUME InitInv, [ProcessNext]_processVars PROVE InitInv'
<1>1. CASE Start \/ Main
  <2>1. InitTypeOK' /\ WriterInv' /\ FdsInv'
    BY <1>1, MainKeepsTypes, MainKeepsWriterInv, MainKeepsFdsInv
  <2>2. ReaderInv'
    BY <1>1, OpeningKeepsReaderInv, ReadingKeepsReaderInv, RestKeepsReaderInv DEF Main
  <2> QED BY <2>1, <2>2 DEF InitInv
<1>2. CASE UNCHANGED processVars
  <2>1. InitTypeOK'
    BY <1>2 DEF processVars, InitInv, InitTypeOK
  <2>2. WriterInv' /\ FdsInv' /\ Complete("cmdline")' = Complete("cmdline")
    BY <1>2 DEF processVars, InitInv, WriterInv, FdsInv, Complete
  <2>3. ReaderInv'
    BY <1>2, <2>2, ReadStays DEF processVars, InitInv, ReaderInv
  <2> QED BY <2>1, <2>2, <2>3 DEF InitInv
<1>3. CASE Exited
  BY <1>2, <1>3 DEF Exited
<1> QED BY <1>1, <1>2, <1>3, WriterKeepsInitInv DEF ProcessNext

\* InitInv says that the program gets all of its arguments and its environment.
LEMMA InitInvExec == ASSUME InitInv PROVE ExecMeansComplete
<1> SUFFICES ASSUME step = "user", ~overrun
             PROVE  /\ args = [n \in DOMAIN list["cmdline"] |-> list["cmdline"][n].val]
                    /\ \A n \in DOMAIN args : args[n] \notin Full
                    /\ \E n \in 0 .. Len(list["environ"]) : IsEnvironment(n)
                    /\ ~early => IsEnvironment(Len(list["environ"]))
  BY DEF ExecMeansComplete
<1> USE DEF InitInv
<1>1. args = [n \in DOMAIN list["cmdline"] |-> list["cmdline"][n].val]
  <2>1. /\ Len(args) = Len(list["cmdline"])
        /\ \A m \in 1 .. Len(args) : args[m] = list["cmdline"][m].val
    BY DEF ReaderInv, ReadArgs
  <2>2. args \in Seq(Strings) /\ list["cmdline"] \in Seq(Pieces)
    BY Numbers DEF InitTypeOK, Lists
  <2>3. DOMAIN args = 1 .. Len(args) /\ DOMAIN list["cmdline"] = 1 .. Len(args)
    BY <2>1, <2>2, LenProperties
  <2> QED BY <2>1, <2>2, <2>3
<1>2. \A n \in DOMAIN args : args[n] \notin Full
  BY InitAssumption DEF ReaderInv
<1>3. PICK n \in Nat : AllOf(n) /\ GatheredHome(n)
  BY DEF ReaderInv
<1>4. IsEnvironment(n)
  BY <1>3 DEF ReaderInv, GatheredHome, IsEnvironment
<1> QED BY <1>1, <1>2, <1>3, <1>4 DEF AllOf

\* InitInv is enough for the rest.
LEMMA InitInvSuffices ==
  ASSUME InitInv PROVE InitTypeOK /\ StaleErrnoMeansNoEnviron /\ OwnFdsClosed
BY DEF InitInv, ReaderInv, FdsInv, StaleErrnoMeansNoEnviron, OwnFdsClosed

-----------------------------------------------------------------------------
(***************************************************************************)
(* The hook and init                                                       *)
(***************************************************************************)

\* HookInv and InitInv hold in every reachable state.
THEOREM StartupInvariance == StartupSpec => [](HookInv /\ InitInv)
<1>1. StartupInit => HookInv /\ InitInv
  BY InitHookInv, InitInitInv DEF StartupInit
<1>2. HookInv /\ InitInv /\ [StartupNext]_<<vars, processVars>> => HookInv' /\ InitInv'
  <2> SUFFICES ASSUME HookInv, InitInv, [StartupNext]_<<vars, processVars>>
               PROVE  HookInv' /\ InitInv'
    OBVIOUS
  <2>1. [Next]_vars /\ [ProcessNext]_processVars
    BY DEF StartupNext
  <2> QED BY <2>1, NextHookInv, NextInitInv
<1> QED BY <1>1, <1>2, PTL DEF StartupSpec

\* The hook's variables keep their types: errno is one of the errors it tells apart,
\* what is left to read are devices or paths.
THEOREM HookTypes == StartupSpec => []HookTypeOK
BY StartupInvariance, HookInvSuffices, PTL

\* Init is executed only after a hook that made every device and mounted over every
\* path that exists: no failed call gets lost on the way to the hook's exit code.
THEOREM HookOkIsComplete == StartupSpec => []HookOkMeansComplete
BY StartupInvariance, HookInvSuffices, PTL

\* The variables of configureInit and of init keep their types.
THEOREM InitTypes == StartupSpec => []InitTypeOK
BY StartupInvariance, InitInvSuffices, PTL

\* The user's program is executed with all arguments of the spec, none of them cut,
\* and with the environment of the spec, for any spec and any interleaving of init
\* with the create that writes the lists and a delete that removes them.
THEOREM ExecIsComplete == StartupSpec => []ExecMeansComplete
BY StartupInvariance, InitInvExec, PTL

\* Init gives up on a list because of an error left in errno only if the environment
\* was missing or not yet its user's: never because of a missing error.log.
THEOREM StaleErrnoOnlyOfEnviron == StartupSpec => []StaleErrnoMeansNoEnviron
BY StartupInvariance, InitInvSuffices, PTL

\* The user's program inherits none of the descriptors that init opened.
THEOREM OwnFdsAreClosed == StartupSpec => []OwnFdsClosed
BY StartupInvariance, InitInvSuffices, PTL

=============================================================================
