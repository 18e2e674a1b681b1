-------------------------------- MODULE Startup -------------------------------
(***************************************************************************)
(* What the monitor runs before the user's program: the mount hook, and if *)
(* it succeeds init.  The hook reads other files than init and writes none *)
(* of init's, so what happens to these while the hook runs is put after it.*)
(***************************************************************************)
EXTENDS ContainerHook, InitProcess

StartupInit == Init /\ ProcessInit

StartupNext ==
  \/ Next /\ UNCHANGED processVars
  \/ pc = "ok" /\ ProcessNext /\ UNCHANGED vars

StartupSpec == StartupInit /\ [][StartupNext]_<<vars, processVars>>

=============================================================================
