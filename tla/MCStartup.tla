------------------------------- MODULE MCStartup ------------------------------
(***************************************************************************)
(* Module Startup for TLC.                                                 *)
(***************************************************************************)
EXTENDS Startup

CONSTANTS dev, net, opt,    \* directories: net is below dev
          null, tun, disk,  \* devices: dev/null, dev/net/tun, opt/disk
          proc, sys,        \* masked paths
          PATH,             \* another variable than HOME
          sh, x, home,      \* short strings
          big, huge,        \* too long for the kernel, and for the buffer
          rest              \* a string's last piece

DevicePaths ==
  [d \in Devices |-> IF d = tun THEN <<dev, net>> ELSE IF d = disk THEN <<opt>> ELSE <<dev>>]

\* Types with a fifo, tun, which the hook can not make.
FifoTypes == [d \in Devices |-> IF d = tun THEN "p" ELSE "c"]

Arg(v) == [key |-> NoKey, val |-> v]
Var(k, v) == [key |-> k, val |-> v]

\* No argument, up to as many as the array has entries, and long ones.
SpecArgs == {<<>>, <<Arg(sh)>>, <<Arg(sh), Arg(x)>>, <<Arg(sh), Arg(x), Arg(sh)>>,
             <<Arg(sh), Arg(big)>>, <<Arg(huge), Arg(rest)>>}

\* No variable, a conflicting definition, HOME, one without a '=', and long ones.
SpecEnv == {<<>>, <<Var(PATH, sh), Var(PATH, x)>>, <<Var(HOME, x), Var(PATH, sh)>>,
            <<Var(PATH, sh), Arg(x)>>, <<Var(PATH, big), Var(PATH, sh)>>,
            <<Var(PATH, huge), Arg(rest)>>, <<Var(PATH, huge), Var(HOME, rest)>>}

\* The variables of a hook that has succeeded matter to nobody but its properties.
View ==
  IF pc = "ok" THEN <<HookTypeOK, HookOkMeansComplete, processVars>> ELSE <<vars, processVars>>

=============================================================================
