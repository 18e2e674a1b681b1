------------------------------ MODULE MCRuntime ------------------------------
(***************************************************************************)
(* Module Runtime for TLC.                                                 *)
(***************************************************************************)
EXTENDS Runtime, TLC

\* Slots are interchangeable, and so are the invocations of create.
Symmetry == Permutations(Procs) \cup Permutations(Instances)

=============================================================================
