------------------------------- MODULE MCCgroup -------------------------------
(***************************************************************************)
(* Module Cgroup for TLC.                                                  *)
(***************************************************************************)
EXTENDS Cgroup

CONSTANTS payload, monitor, inner

\* Only the payload has cgroups of its own below it.
ParentOf == [n \in Nested |-> payload]

=============================================================================
