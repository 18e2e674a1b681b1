----------------------------- MODULE InitProcess ------------------------------
(***************************************************************************)
(* crio-lxc-init between its execution by liblxc and that of the user's    *)
(* program, on the files that configureInit writes to the directory        *)
(* .crio-lxc: the lists cmdline and environ, the syncfifo and the links    *)
(* cwd and error.log.  A delete may remove them at any time, and when a    *)
(* monitor outlives the files it was launched for, init may even find the  *)
(* half written files of the next create.                                  *)
(*                                                                         *)
(* A list is a sequence of PIECES, what one turn of the reading loop takes *)
(* from the file: a string that is shorter than the buffer is one piece, a *)
(* longer one is cut into "full" pieces and a last one that is not.        *)
(***************************************************************************)
EXTENDS Naturals, Sequences, FiniteSets

CONSTANTS Keys,       \* names of environment variables
          HOME,       \* one of them
          NoKey,      \* of a piece without a '='
          Strings,    \* arguments and values of variables
          Long,       \* strings that do not fit in MAX_ARG_STRLEN of the kernel
          Full,       \* those of them that fill the buffer
          HomeDirs,   \* the home directory of the user, /root and /
          Garbage,    \* one that goes past the end of the buffer
          Unset,      \* of a variable that is not set
          ArgLists,   \* the arguments of the container specs
          EnvLists,   \* their environments
          ArgsLen,    \* entries of the array args (256)
          Inherited   \* descriptors that the monitor may pass on to init

Pieces == [key : Keys \cup {NoKey}, val : Strings]

\* A string ends with a piece that is not full.
IsList(l) == l \in Seq(Pieces) /\ (l # <<>> => l[Len(l)].val \notin Full)

ASSUME InitAssumption ==
  /\ HOME \in Keys
  /\ NoKey \notin Keys
  /\ Full \subseteq Long /\ Long \subseteq Strings
  /\ HomeDirs \subseteq Strings \ Long
  /\ Garbage \in Long
  /\ Unset \notin Strings
  /\ ArgsLen \in Nat \ {0}
  /\ \A l \in ArgLists \cup EnvLists : IsList(l)

Lists == {"cmdline", "environ"}
Files == Lists \cup {"syncfifo", "cwd", "error.log"}

VARIABLES
  list,     \* the arguments and the environment of the spec
  root,     \* is the container's user root
  wpc,      \* next step of configureInit
  files,    \* the files that exist
  written,  \* how much of a list is written: 2n after n pieces, odd within one
  owned,    \* the lists that belong to the container's user
  step,     \* next step of init
  err,      \* errno: 0, or the error of the last call that failed and was not cleared
  fds,      \* descriptors above stdio: <<what is open, is it closed on exec>>
  pos,      \* pieces read of the list that is being read
  env,      \* the environment of init
  args,     \* the arguments that init has read
  early,    \* history: was init executed before configureInit was done
  overrun   \* history: did init write past the end of the array args

writer == <<list, root, wpc, written, owned>>
memory == <<env, args, overrun>>
processVars == <<list, root, wpc, files, written, owned, step, err, fds, pos, env,
                 args, early, overrun>>

Ended == {"user", "failed"}

InitTypeOK ==
  /\ IsList(list["cmdline"]) /\ IsList(list["environ"])
  /\ root \in BOOLEAN
  /\ wpc \in {"spec", "fifo", "cmdline", "write cmdline", "environ", "write environ", "cwd",
              "error.log", "done", "failed"}
  /\ files \subseteq Files
  /\ written \in [Lists -> Nat]
  /\ owned \subseteq Lists
  /\ step \in {"none", "errlog", "environ", "readenv", "cmdline", "readargs", "home",
             "fifo", "chdir", "closefds", "exec"} \cup Ended
  /\ err \in {"0", "ENOENT", "EACCES"}
  /\ fds \subseteq (Files \cup Inherited) \X BOOLEAN
  /\ pos \in Nat
  /\ env \in [Keys -> Strings \cup {Unset}]
  /\ args \in Seq(Strings)
  /\ early \in BOOLEAN
  /\ overrun \in BOOLEAN

ProcessInit ==
  /\ list = [f \in Lists |-> <<>>]
  /\ root = TRUE
  /\ wpc = "spec"
  /\ files = {}
  /\ written = [f \in Lists |-> 0]
  /\ owned = {}
  /\ step = "none"
  /\ err = "0"
  /\ fds = {}
  /\ pos = 0
  /\ env = [k \in Keys |-> Unset]
  /\ args = <<>>
  /\ early = FALSE
  /\ overrun = FALSE

-----------------------------------------------------------------------------
(***************************************************************************)
(* configureInit of `crio-lxc create', and RemoveAll of a delete           *)
(***************************************************************************)

\* The spec of the container: its process and its user.
ReadSpec ==
  /\ wpc = "spec"
  /\ \E a \in ArgLists, e \in EnvLists : list' = [cmdline |-> a, environ |-> e]
  /\ root' \in BOOLEAN
  /\ wpc' = "fifo"
  /\ UNCHANGED <<files, written, owned, step, err, fds, pos, early, memory>>

\* The links and the fifo.  error.log exists only if the spec has an annotation.
MakeFile ==
  /\ \/ wpc = "fifo" /\ files' = files \cup {"syncfifo"} /\ wpc' = "cmdline"
     \/ wpc = "cwd" /\ files' = files \cup {"cwd"} /\ wpc' = "error.log"
     \/ wpc = "error.log" /\ files' \in {files, files \cup {"error.log"}} /\ wpc' = "done"
  /\ UNCHANGED <<list, root, written, owned, step, err, fds, pos, early, memory>>

Writing(f) == IF f = "cmdline" THEN "write cmdline" ELSE "write environ"

\* createList opens the file exclusively, ...
OpenList(f) ==
  /\ wpc = f
  /\ files' = files \cup {f}
  /\ wpc' = Writing(f)
  /\ UNCHANGED <<list, root, written, owned, step, err, fds, pos, early, memory>>

\* ... writes each string and the zero byte after it, ...
WriteList(f) ==
  /\ wpc = Writing(f)
  /\ written[f] < 2 * Len(list[f])
  /\ written' = [written EXCEPT ![f] = @ + 1]
  /\ UNCHANGED <<list, root, wpc, files, owned, step, err, fds, pos, early, memory>>

\* ... closes it and gives it to the user.  If it was removed meanwhile, create fails.
CloseList(f) ==
  /\ wpc = Writing(f)
  /\ written[f] = 2 * Len(list[f])
  /\ \/ f \in files /\ owned' = owned \cup {f}
        /\ wpc' = IF f = "cmdline" THEN "environ" ELSE "cwd"
     \/ f \notin files /\ wpc' = "failed" /\ UNCHANGED owned
  /\ UNCHANGED <<list, root, files, written, step, err, fds, pos, early, memory>>

\* delete removes what it finds, in the order of the directory.
Remove(f) ==
  /\ f \in files
  /\ files' = files \ {f}
  /\ UNCHANGED <<writer, step, err, fds, pos, early, memory>>

-----------------------------------------------------------------------------
(***************************************************************************)
(* main of crio-lxc-init                                                   *)
(***************************************************************************)
Goto(from, to) == step = from /\ step' = to

\* liblxc executes init: when create has launched the monitor, or earlier, if the
\* monitor is that of a create whose files were deleted and made again.
Start ==
  /\ Goto("none", "errlog")
  /\ wpc # "spec"
  /\ early' = (wpc # "done")
  /\ fds' \in SUBSET (Inherited \X {FALSE})
  /\ UNCHANGED <<writer, files, err, pos, memory>>

\* The error of opening list f, which only root can do before it has its owner.
OpenError(f) ==
  IF f \notin files THEN "ENOENT" ELSE IF root \/ f \in owned THEN "0" ELSE "EACCES"

\* MUTANT of OpenErrorLog: errno is not cleared.
OpenErrorLogLeaves ==
  /\ Goto("errlog", "environ")
  /\ \/ "error.log" \in files /\ fds' = fds \cup {<<"error.log", TRUE>>} /\ UNCHANGED err
     \/ err' = "ENOENT" /\ UNCHANGED fds
  /\ UNCHANGED <<writer, files, pos, early, memory>>

\* error.log may be missing, or a link to a file that is missing: errno is cleared.
OpenErrorLog ==
  /\ Goto("errlog", "environ")
  /\ err' = "0"
  /\ \/ "error.log" \in files /\ fds' = fds \cup {<<"error.log", TRUE>>}
     \/ UNCHANGED fds
  /\ UNCHANGED <<writer, files, pos, early, memory>>

\* MUTANT of OpenEnviron: errno is cleared when the file can not be opened.
OpenEnvironClears ==
  /\ \/ Goto("environ", "readenv") /\ OpenError("environ") = "0"
        /\ fds' = fds \cup {<<"environ", TRUE>>} /\ UNCHANGED err
     \/ Goto("environ", "cmdline") /\ OpenError("environ") # "0"
        /\ err' = "0" /\ UNCHANGED fds
  /\ UNCHANGED <<writer, files, pos, early, memory>>

\* load_environ: a file that can not be opened is no error, but errno stays.
OpenEnviron ==
  /\ \/ Goto("environ", "readenv") /\ OpenError("environ") = "0"
        /\ fds' = fds \cup {<<"environ", TRUE>>} /\ UNCHANGED err
     \/ Goto("environ", "cmdline") /\ OpenError("environ") # "0"
        /\ err' = OpenError("environ") /\ UNCHANGED fds
  /\ UNCHANGED <<writer, files, pos, early, memory>>

\* What getc finds at the reader's place in list f.
AtPiece(f) == written[f] >= 2 * (pos + 1)
AtEnd(f)   == written[f] = 2 * pos
Piece(f)   == list[f][pos + 1]

\* MUTANT of LoadVariable: the variable that is defined first takes precedence.
LoadVariableFirst ==
  /\ step = "readenv" /\ err = "0" /\ AtPiece("environ") /\ Piece("environ").key # NoKey
  /\ \E v \in {Piece("environ").val} \cup (IF Piece("environ").val \in Full THEN {Garbage} ELSE {}) :
       env' = [env EXCEPT ![Piece("environ").key] = IF @ = Unset THEN v ELSE @]
  /\ pos' = pos + 1
  /\ UNCHANGED <<writer, files, step, err, fds, args, early, overrun>>

\* A variable overwrites an earlier definition.  The value in a full buffer has no
\* zero byte at its end: setenv takes what follows the buffer for a part of it.
LoadVariable ==
  /\ step = "readenv" /\ err = "0" /\ AtPiece("environ") /\ Piece("environ").key # NoKey
  /\ \E v \in {Piece("environ").val} \cup (IF Piece("environ").val \in Full THEN {Garbage} ELSE {}) :
       env' = [env EXCEPT ![Piece("environ").key] = v]
  /\ pos' = pos + 1
  /\ UNCHANGED <<writer, files, step, err, fds, args, early, overrun>>

EnvironEnd ==
  /\ Goto("readenv", "cmdline")
  /\ err = "0" /\ AtEnd("environ")
  /\ pos' = 0
  /\ UNCHANGED <<writer, files, err, fds, early, memory>>

\* MUTANT of OpenCmdline: the file is opened without O_CLOEXEC.
OpenCmdlineStaysOpen ==
  /\ \/ Goto("cmdline", "readargs") /\ OpenError("cmdline") = "0"
        /\ fds' = fds \cup {<<"cmdline", FALSE>>} /\ UNCHANGED err
     \/ Goto("cmdline", "failed") /\ OpenError("cmdline") # "0"
        /\ err' = OpenError("cmdline") /\ UNCHANGED fds
  /\ UNCHANGED <<writer, files, pos, early, memory>>

\* load_cmdline.
OpenCmdline ==
  /\ \/ Goto("cmdline", "readargs") /\ OpenError("cmdline") = "0"
        /\ fds' = fds \cup {<<"cmdline", TRUE>>} /\ UNCHANGED err
     \/ Goto("cmdline", "failed") /\ OpenError("cmdline") # "0"
        /\ err' = OpenError("cmdline") /\ UNCHANGED fds
  /\ UNCHANGED <<writer, files, pos, early, memory>>

\* main passes the bytes of args for its entries: an argument that has no entry left
\* for the NULL after it is written past the end, where it is found again or lost.
LoadArgument ==
  /\ step = "readargs" /\ err = "0" /\ AtPiece("cmdline")
  /\ overrun' = (pos + 1 >= ArgsLen)
  /\ \/ args' = Append(args, Piece("cmdline").val)
     \/ overrun' /\ args' = args
  /\ pos' = pos + 1
  /\ UNCHANGED <<writer, files, step, err, fds, env, early>>

CmdlineEnd ==
  /\ err = "0" /\ AtEnd("cmdline")
  /\ \/ pos > 0 /\ Goto("readargs", "home")
     \/ pos = 0 /\ Goto("readargs", "failed")
  /\ UNCHANGED <<writer, files, err, fds, pos, early, memory>>

\* errno is set, the list ends within a string, or a variable has no '='.
Malformed ==
  /\ \/ /\ Goto("readenv", "failed")
        /\ ~AtEnd("environ")
        /\ AtPiece("environ") => Piece("environ").key = NoKey
     \/ /\ Goto("readargs", "failed")
        /\ err # "0" \/ ~(AtPiece("cmdline") \/ AtEnd("cmdline"))
  /\ UNCHANGED <<writer, files, err, fds, pos, early, memory>>

\* ensure_HOME_exists: HOME from passwd, /root or /.
EnsureHome ==
  /\ Goto("home", "fifo")
  /\ \/ env[HOME] # Unset /\ UNCHANGED <<env, err>>
     \/ env[HOME] = Unset /\ err' = "0" /\ \E v \in HomeDirs : env' = [env EXCEPT ![HOME] = v]
  /\ UNCHANGED <<writer, files, fds, pos, args, early, overrun>>

\* writefifo: the open returns when a start has the fifo open (module Container).
WriteFifo ==
  /\ Goto("fifo", "chdir")
  /\ "syncfifo" \in files
  /\ UNCHANGED <<writer, files, err, fds, pos, early, memory>>

Chdir ==
  /\ Goto("chdir", "closefds")
  /\ "cwd" \in files
  /\ UNCHANGED <<writer, files, err, fds, pos, early, memory>>

\* MUTANT of CloseExtraFds: the error of closing a descriptor twice is left in errno.
CloseExtraFdsLeaves ==
  /\ Goto("closefds", "exec")
  /\ err' = "EBADF"
  /\ UNCHANGED <<writer, files, fds, pos, early, memory>>

\* close_extra_fds closes the descriptor of /proc/self/fd, again and again, in place
\* of those it finds there.
CloseExtraFds ==
  /\ Goto("closefds", "exec")
  /\ err' = "0"
  /\ UNCHANGED <<writer, files, fds, pos, early, memory>>

\* The kernel refuses strings that are too long, and closes what is marked for it.
Exec ==
  /\ Goto("exec", "user")
  /\ \A n \in DOMAIN args : args[n] \notin Long
  /\ \A k \in Keys : env[k] \notin Long
  /\ fds' = {d \in fds : ~d[2]}
  /\ UNCHANGED <<writer, files, err, pos, early, memory>>

\* A call fails: fdopen, getc, setenv, strndup, a fifo or cwd that is missing, the
\* working directory or the program itself.  Or the overrun or overread has killed init.
Fails ==
  /\ step \notin {"none", "errlog"} \cup Ended
  /\ step' = "failed"
  /\ UNCHANGED <<writer, files, err, fds, pos, early, memory>>

Exited == step \in Ended /\ UNCHANGED processVars

Main ==
  \/ OpenErrorLog \/ OpenEnviron \/ LoadVariable \/ EnvironEnd \/ OpenCmdline
  \/ LoadArgument \/ CmdlineEnd \/ Malformed \/ EnsureHome \/ WriteFifo \/ Chdir
  \/ CloseExtraFds \/ Exec \/ Fails

ProcessNext ==
  \/ ReadSpec \/ MakeFile
  \/ \E f \in Lists : OpenList(f) \/ WriteList(f) \/ CloseList(f)
  \/ \E f \in Files : Remove(f)
  \/ Start \/ Main \/ Exited

ProcessSpec == ProcessInit /\ [][ProcessNext]_processVars

-----------------------------------------------------------------------------
(***************************************************************************)
(* Properties                                                              *)
(***************************************************************************)

\* The environment that the first n variables of the spec define: the last definition
\* of a variable counts, and HOME is always set.
Defined(n, k) == {m \in 1 .. n : list["environ"][m].key = k}
IsEnvironment(n) ==
  \A k \in Keys :
    IF Defined(n, k) = {} THEN IF k = HOME THEN env[k] \in HomeDirs ELSE env[k] = Unset
    ELSE \E m \in Defined(n, k) :
           env[k] = list["environ"][m].val /\ \A o \in Defined(n, k) : o <= m

\* The user's program is executed with the arguments of the spec, all of them and none
\* cut, and with its environment, whatever files are removed meanwhile.  Of a create that
\* is still writing it gets all arguments, and the variables that were written so far.
\* (Specs with 256 or more arguments, which overrun the array args, are excluded.)
ExecMeansComplete ==
  step = "user" /\ ~overrun =>
    /\ args = [n \in DOMAIN list["cmdline"] |-> list["cmdline"][n].val]
    /\ \A n \in DOMAIN args : args[n] \notin Full
    /\ \E n \in 0 .. Len(list["environ"]) : IsEnvironment(n)
    /\ ~early => IsEnvironment(Len(list["environ"]))

\* Init reads a list with an error left in errno, which makes it give up, only if the
\* environment is missing or not complete yet: not because there is no error.log.
StaleErrnoMeansNoEnviron ==
  step \in {"readenv", "readargs"} /\ err # "0" => early \/ "environ" \notin files

\* The user's program gets none of the descriptors that init has opened and never closed.
OwnFdsClosed == step = "user" => fds \subseteq Inherited \X {FALSE}

\* "To avoid leaking inherited file descriptors, all file descriptors except stdio
\* (0,1,2) are closed" (crio-lxc-init.c).
OnlyStdio == step = "user" => fds = {}

=============================================================================
