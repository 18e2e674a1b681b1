-------------------------------- MODULE Cgroup --------------------------------
(***************************************************************************)
(* drainCgroup and deleteCgroup on the cgroup tree of one container, while *)
(* its processes fork, exit and move, exec attaches others, and liblxc     *)
(* removes what it made.                                                   *)
(* Module Runtime takes a whole sweep of the drain as one step; here every *)
(* system call of it is a step of its own.                                 *)
(***************************************************************************)
EXTENDS Naturals, FiniteSets

CONSTANTS Tasks,     \* processes that may live in the container's cgroup
          Children,  \* child cgroups of CgroupDir: lxc.payload.ID, lxc.monitor.ID
          Nested,    \* cgroups the container makes below a child
          Parent,    \* the child a nested cgroup is made in
          NoCgroup,  \* the place of a process that does not exist
          MaxForks   \* how often processes fork or are attached

ASSUME CgroupAssumption ==
  /\ Nested \cap Children = {}
  /\ NoCgroup \notin Children \cup Nested
  /\ Parent \in [Nested -> Children]
  /\ MaxForks \in Nat

VARIABLES
  sig,     \* the signal of the kill: "KILL" or "TERM"
  dir,     \* does CgroupDir exist
  groups,  \* the cgroups that exist below it
  at,      \* the cgroup of each process
  forks,   \* number of processes forked or attached so far
  pc,      \* next step of crio-lxc
  todo,    \* directory entries that are still to be handled
  pids,    \* pids read from a cgroup.procs that are still to be killed
  before   \* history: processes alive since the sweep began

tree == <<dir, groups>>
vars == <<sig, dir, groups, at, forks, pc, todo, pids, before>>

Groups == Children \cup Nested
Living == {t \in Tasks : at[t] # NoCgroup}
Empty(g) == /\ \A t \in Tasks : at[t] # g
            /\ \A n \in Nested : Parent[n] = g => n \notin groups

DrainSteps  == {"events", "readdir", "load", "kill", "sleep"}
DeleteSteps == {"entries", "rmdir"}
Results     == {"drained", "drainFailed", "deleted", "deleteFailed"}

CgroupTypeOK ==
  /\ sig \in {"KILL", "TERM"}
  /\ dir \in BOOLEAN
  /\ groups \subseteq Groups
  /\ at \in [Tasks -> Groups \cup {NoCgroup}]
  /\ forks \in 0 .. MaxForks
  /\ pc \in {"open"} \cup DrainSteps \cup DeleteSteps \cup Results
  /\ todo \subseteq Children
  /\ pids \subseteq Tasks
  /\ before \subseteq Tasks

\* kill (or delete --force) drains; delete of a stopped container does not.
Init ==
  /\ sig \in {"KILL", "TERM"}
  /\ dir = TRUE
  /\ groups = Children
  /\ at \in [Tasks -> Children \cup {NoCgroup}]
  /\ forks = 0
  /\ pc \in {"open", "entries"}
  /\ todo = {}
  /\ pids = {}
  /\ before = {}

-----------------------------------------------------------------------------
(***************************************************************************)
(* The container's processes and liblxc.                                   *)
(***************************************************************************)

\* A child starts in the cgroup of its parent, under any pid that is free.
Fork ==
  /\ forks < MaxForks
  /\ forks' = forks + 1
  /\ \E t \in Living, u \in Tasks \ Living : at' = [at EXCEPT ![u] = at[t]]
  /\ UNCHANGED <<sig, tree, pc, todo, pids, before>>

\* The process of an exec comes from outside and enters a cgroup of the container, whoever
\* still lives there (liblxc has one in mind, here it may be any of them).
Attach ==
  /\ forks < MaxForks
  /\ forks' = forks + 1
  /\ \E g \in groups \cap Children, t \in Tasks \ Living : at' = [at EXCEPT ![t] = g]
  /\ UNCHANGED <<sig, tree, pc, todo, pids, before>>

Exit ==
  /\ \E t \in Living :
       /\ at' = [at EXCEPT ![t] = NoCgroup]
       /\ before' = before \ {t}
  /\ UNCHANGED <<sig, tree, forks, pc, todo, pids>>

\* A process of the container makes a cgroup below its own and enters it.
EnterNested ==
  /\ \E t \in Living, n \in Nested :
       /\ at[t] = Parent[n]
       /\ groups' = groups \cup {n}
       /\ at' = [at EXCEPT ![t] = n]
  /\ UNCHANGED <<sig, dir, forks, pc, todo, pids, before>>

\* liblxc removes the cgroups it made when the container stops.
LxcRemoves ==
  /\ \E g \in groups : Empty(g) /\ groups' = groups \ {g}
  /\ UNCHANGED <<sig, dir, at, forks, pc, todo, pids, before>>

-----------------------------------------------------------------------------
(***************************************************************************)
(* drainCgroup                                                             *)
(***************************************************************************)

OpenEvents ==
  /\ pc = "open"
  /\ pc' = IF dir THEN "events" ELSE "drainFailed"
  /\ UNCHANGED <<sig, tree, at, forks, todo, pids, before>>

\* The loop begins with a look at the deadline.
Deadline ==
  /\ pc = "events"
  /\ pc' = "drainFailed"
  /\ UNCHANGED <<sig, tree, at, forks, todo, pids, before>>

ReadEvents ==
  /\ pc = "events"
  /\ pc' = IF ~dir THEN "drainFailed" ELSE IF Living = {} THEN "drained" ELSE "readdir"
  /\ UNCHANGED <<sig, tree, at, forks, todo, pids, before>>

\* killCgroupProcs lists the directory: only the children of CgroupDir.
ReadDir ==
  /\ pc = "readdir"
  /\ todo' = groups \cap Children
  /\ before' = Living
  /\ pc' = "load"
  /\ UNCHANGED <<sig, tree, at, forks, pids>>

\* MUTANT of LoadProcs: the last pid of cgroup.procs is lost.
LoadProcsButLast ==
  /\ pc = "load"
  /\ \E g \in todo :
       IF g \in groups
       THEN /\ todo' = todo \ {g}
            /\ pids' = LET all == {t \in Tasks : at[t] = g}
                       IN  all \ {CHOOSE t \in Tasks : all # {} => t \in all}
            /\ pc' = "kill"
       ELSE /\ pc' = "drainFailed"
            /\ UNCHANGED <<todo, pids>>
  /\ UNCHANGED <<sig, tree, at, forks, before>>

\* loadCgroup reads cgroup.procs of the next entry.  An entry that vanished ends
\* the drain with an error.
LoadProcs ==
  /\ pc = "load"
  /\ \E g \in todo :
       IF g \in groups
       THEN /\ todo' = todo \ {g}
            /\ pids' = {t \in Tasks : at[t] = g}
            /\ pc' = "kill"
       ELSE /\ pc' = "drainFailed"
            /\ UNCHANGED <<todo, pids>>
  /\ UNCHANGED <<sig, tree, at, forks, before>>

\* MUTANT of KillProc: a pid that is gone (ESRCH) ends the loop over the pids.
KillProcStopsAtGone ==
  /\ pc = "kill"
  /\ \E t \in pids :
       /\ pids' = IF at[t] = NoCgroup THEN {} ELSE pids \ {t}
       /\ \/ at' = [at EXCEPT ![t] = NoCgroup] /\ before' = before \ {t}
          \/ sig = "TERM" /\ UNCHANGED <<at, before>>
  /\ UNCHANGED <<sig, tree, forks, pc, todo>>

\* ESRCH is no error, and SIGTERM need not kill.
KillProc ==
  /\ pc = "kill"
  /\ \E t \in pids :
       /\ pids' = pids \ {t}
       /\ \/ at' = [at EXCEPT ![t] = NoCgroup] /\ before' = before \ {t}
          \/ sig = "TERM" /\ UNCHANGED <<at, before>>
  /\ UNCHANGED <<sig, tree, forks, pc, todo>>

NextEntry ==
  /\ pc = "kill"
  /\ pids = {}
  /\ pc' = "load"
  /\ UNCHANGED <<sig, tree, at, forks, todo, pids, before>>

SweepDone ==
  /\ pc = "load"
  /\ todo = {}
  /\ pc' = "sleep"
  /\ UNCHANGED <<sig, tree, at, forks, todo, pids, before>>

Sleep ==
  /\ pc = "sleep"
  /\ pc' = "events"
  /\ UNCHANGED <<sig, tree, at, forks, todo, pids, before>>

-----------------------------------------------------------------------------
(***************************************************************************)
(* deleteCgroup, after a successful kill or on its own                     *)
(***************************************************************************)

DeleteAfterDrain ==
  /\ pc = "drained"
  /\ pc' = "entries"
  /\ UNCHANGED <<sig, tree, at, forks, todo, pids, before>>

\* MUTANT of ReadEntries: it also lists the cgroups below the children.
ReadEntriesBelow ==
  /\ pc = "entries"
  /\ todo' = groups
  /\ pc' = "rmdir"
  /\ UNCHANGED <<sig, tree, at, forks, pids, before>>

ReadEntries ==
  /\ pc = "entries"
  /\ todo' = groups \cap Children
  /\ pc' = "rmdir"
  /\ UNCHANGED <<sig, tree, at, forks, pids, before>>

\* MUTANT of RmdirChild: an entry that is gone (ENOENT) is an error, too.
RmdirChildMustExist ==
  /\ pc = "rmdir"
  /\ \E g \in todo :
       IF g \notin groups \/ ~Empty(g)
       THEN pc' = "deleteFailed" /\ UNCHANGED <<todo, groups>>
       ELSE /\ todo' = todo \ {g}
            /\ groups' = groups \ {g}
            /\ UNCHANGED pc
  /\ UNCHANGED <<sig, dir, at, forks, pids, before>>

\* ENOENT is no error; EBUSY of a cgroup that is not empty is.
RmdirChild ==
  /\ pc = "rmdir"
  /\ \E g \in todo :
       IF g \in groups /\ ~Empty(g)
       THEN pc' = "deleteFailed" /\ UNCHANGED <<todo, groups>>
       ELSE /\ todo' = todo \ {g}
            /\ groups' = groups \ {g}
            /\ UNCHANGED pc
  /\ UNCHANGED <<sig, dir, at, forks, pids, before>>

RmdirDir ==
  /\ pc = "rmdir"
  /\ todo = {}
  /\ dir' = (groups # {})
  /\ pc' = IF groups = {} THEN "deleted" ELSE "deleteFailed"
  /\ UNCHANGED <<sig, groups, at, forks, todo, pids, before>>

\* crio-lxc has returned.
Done ==
  /\ pc \in {"drainFailed", "deleted", "deleteFailed"}
  /\ UNCHANGED vars

DrainStep == OpenEvents \/ ReadEvents \/ ReadDir \/ LoadProcs \/ KillProc
             \/ NextEntry \/ SweepDone \/ Sleep
DeleteStep == DeleteAfterDrain \/ ReadEntries \/ RmdirChild \/ RmdirDir
Others == Fork \/ Attach \/ Exit \/ EnterNested \/ LxcRemoves

Next == DrainStep \/ Deadline \/ DeleteStep \/ Others \/ Done

Spec == Init /\ [][Next]_vars

\* crio-lxc goes on; nothing makes its deadline expire.
LiveSpec == Spec /\ WF_vars(DrainStep) /\ WF_vars(DeleteStep)

-----------------------------------------------------------------------------
\* One sweep with SIGKILL reaches every process that lived when it began, in
\* whatever order directories and pids are read and whoever forks or is attached meanwhile;
\* only a process in a cgroup that the container made for itself escapes.
SweepKillsAll ==
  sig = "KILL" /\ pc = "sleep" => \A t \in before : at[t] \in Nested

\* deleteCgroup fails (which destroy only logs) only while a process or a cgroup
\* that the container made is left.
DeleteFailsOnlyIfBusy ==
  [][pc # "deleteFailed" /\ pc' = "deleteFailed"
       => Living # {} \/ groups \cap Nested # {}]_vars

\* Once no process is forked or attached any more a drain with SIGKILL ends by itself, long
\* before its deadline: every sweep leaves only what came during it.
DrainEnds ==
  pc = "open" /\ sig = "KILL" ~> pc \in Results \/ groups \cap Nested # {}

=============================================================================
