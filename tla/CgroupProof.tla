----------------------------- MODULE CgroupProof ------------------------------
(***************************************************************************)
(* drainCgroup and deleteCgroup for any number of processes and forks.     *)
(*                                                                         *)
(* A sweep misses nobody because of three facts that hold together: the    *)
(* processes that lived when it began are alive (Exit and KillProc take    *)
(* the dead ones out), a living process is in a cgroup that exists, and    *)
(* whoever lived when the sweep began is still to be read, still to be     *)
(* killed, or hides in a nested cgroup, from where it does not come back.  *)
(***************************************************************************)
EXTENDS Cgroup, TLAPS

\* What a sweep with SIGKILL still has to do reaches everyone who lived before it.
Sweep ==
  sig = "KILL" =>
    /\ pc = "load"  => \A t \in before : at[t] \in todo \cup Nested
    /\ pc = "kill"  => \A t \in before : t \in pids \/ at[t] \in todo \cup Nested
    /\ pc = "sleep" => \A t \in before : at[t] \in Nested

\* What deleteCgroup still has to remove is all that is left.
Removal == pc = "rmdir" => groups \cap Children \subseteq todo

Placed == \A t \in Tasks : at[t] # NoCgroup => at[t] \in groups

CgroupInv ==
  /\ CgroupTypeOK
  /\ Placed
  /\ before \subseteq Living
  /\ Sweep
  /\ Removal

\* CgroupInv holds initially.
LEMMA InitCgroupInv == ASSUME Init PROVE CgroupInv
BY CgroupAssumption
   DEF Init, CgroupInv, CgroupTypeOK, Placed, Living, Sweep, Removal,
       Groups, DrainSteps, DeleteSteps, Results

\* The processes of the container and liblxc keep it.
LEMMA OthersKeepCgroupInv == ASSUME CgroupInv, Others PROVE CgroupInv'
<1> USE CgroupAssumption
    DEF CgroupInv, CgroupTypeOK, Placed, Living, Sweep, Removal, Groups, tree
<1>1. CASE Fork
  BY <1>1 DEF Fork
<1>2. CASE Exit
  BY <1>2 DEF Exit
<1>3. CASE Attach
  BY <1>3 DEF Attach
<1>4. CASE EnterNested
  BY <1>4 DEF EnterNested
<1>5. CASE LxcRemoves
  BY <1>5 DEF LxcRemoves, Empty
<1> QED BY <1>1, <1>2, <1>3, <1>4, <1>5 DEF Others

\* drainCgroup keeps it.
LEMMA DrainKeepsCgroupInv == ASSUME CgroupInv, DrainStep \/ Deadline PROVE CgroupInv'
<1> USE CgroupAssumption
    DEF CgroupInv, CgroupTypeOK, Placed, Living, Sweep, Removal, Groups, DrainSteps,
        DeleteSteps, Results, tree
<1>1. CASE OpenEvents \/ Deadline
  BY <1>1 DEF OpenEvents, Deadline
<1>2. CASE ReadEvents
  BY <1>2 DEF ReadEvents
<1>3. CASE ReadDir
  BY <1>3 DEF ReadDir
<1>4. CASE LoadProcs
  BY <1>4 DEF LoadProcs
<1>5. CASE KillProc
  BY <1>5 DEF KillProc
<1>6. CASE NextEntry \/ SweepDone \/ Sleep
  BY <1>6 DEF NextEntry, SweepDone, Sleep
<1> QED BY <1>1, <1>2, <1>3, <1>4, <1>5, <1>6 DEF DrainStep

\* deleteCgroup keeps it.
LEMMA DeleteKeepsCgroupInv == ASSUME CgroupInv, DeleteStep PROVE CgroupInv'
<1> USE CgroupAssumption
    DEF CgroupInv, CgroupTypeOK, Placed, Living, Sweep, Removal, Groups, DrainSteps,
        DeleteSteps, Results, tree
<1>1. CASE DeleteAfterDrain \/ ReadEntries
  BY <1>1 DEF DeleteAfterDrain, ReadEntries
<1>2. CASE RmdirChild
  BY <1>2 DEF RmdirChild, Empty
<1>3. CASE RmdirDir
  BY <1>3 DEF RmdirDir
<1> QED BY <1>1, <1>2, <1>3 DEF DeleteStep

\* CgroupInv holds in every reachable state.
THEOREM CgroupInvariance == Spec => []CgroupInv
<1>1. CgroupInv /\ [Next]_vars => CgroupInv'
  <2> SUFFICES ASSUME CgroupInv, [Next]_vars PROVE CgroupInv'
    OBVIOUS
  <2>1. CASE UNCHANGED vars
    BY <2>1 DEF vars, CgroupInv, CgroupTypeOK, Placed, Living, Sweep, Removal
  <2> QED BY <2>1, OthersKeepCgroupInv, DrainKeepsCgroupInv, DeleteKeepsCgroupInv
             DEF Next, Done
<1> QED BY <1>1, InitCgroupInv, PTL DEF Spec

\* The drain's variables keep their types: it lists, signals and removes only cgroups of the
\* container and processes that were in them.
THEOREM CgroupTypes == Spec => []CgroupTypeOK
<1>1. CgroupInv => CgroupTypeOK
  BY DEF CgroupInv
<1> QED BY <1>1, CgroupInvariance, PTL

\* A sweep with SIGKILL reaches every process that lived when it began and does not
\* hide in a cgroup that the container made.
THEOREM SweepKillsAllHolds == Spec => []SweepKillsAll
<1>1. CgroupInv => SweepKillsAll
  BY DEF CgroupInv, Sweep, SweepKillsAll
<1> QED BY <1>1, CgroupInvariance, PTL

\* deleteCgroup fails only while a process or a cgroup that the container made is left.
THEOREM DeleteFailsOnlyIfBusyHolds == Spec => DeleteFailsOnlyIfBusy
<1>1. ASSUME CgroupInv, [Next]_vars, pc # "deleteFailed", pc' = "deleteFailed"
      PROVE  Living # {} \/ groups \cap Nested # {}
  <2>1. RmdirChild \/ RmdirDir
    BY <1>1 DEF Next, vars, DrainStep, Deadline, DeleteStep, Others, Done, OpenEvents,
                ReadEvents, ReadDir, LoadProcs, KillProc, NextEntry, SweepDone, Sleep,
                DeleteAfterDrain, ReadEntries, Fork, Attach, Exit, EnterNested, LxcRemoves
  <2>2. CASE RmdirChild
    <3>1. PICK g \in todo : g \in groups /\ ~Empty(g)
      BY <1>1, <2>2 DEF RmdirChild
    <3>2. CASE \E n \in Nested : n \in groups
      BY <3>2
    <3>3. ASSUME NEW t \in Tasks, at[t] = g PROVE Living # {}
      BY <1>1, <3>1, <3>3, CgroupAssumption DEF CgroupInv, CgroupTypeOK, Groups, Living
    <3> QED BY <3>1, <3>2, <3>3 DEF Empty
  <2>3. CASE RmdirDir
    BY <1>1, <2>3 DEF RmdirDir, CgroupInv, CgroupTypeOK, Groups, Removal
  <2> QED BY <2>1, <2>2, <2>3
<1>2. CgroupInv /\ [Next]_vars
        => [pc # "deleteFailed" /\ pc' = "deleteFailed"
              => Living # {} \/ groups \cap Nested # {}]_vars
  BY <1>1
<1> QED BY <1>2, CgroupInvariance, PTL DEF Spec, DeleteFailsOnlyIfBusy

=============================================================================
