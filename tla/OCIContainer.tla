---------------------------- MODULE OCIContainer -----------------------------
(***************************************************************************)
(* What a container ID promises to those who use it, whatever the commands *)
(* do: every create begins the life of one container, a container's life   *)
(* goes creating, created, running, stopped and never back, at most one    *)
(* container of the ID is created or running at a time, and a container    *)
(* runs its program only after a start was asked for it.                   *)
(***************************************************************************)
CONSTANT Instances

VARIABLES phase,  \* the phase of each container's life
          asked   \* the containers that a start was asked for

Phases == {"none", "creating", "created", "running", "stopped"}
Live == {"created", "running"}

OCITypeOK == phase \in [Instances -> Phases] /\ asked \subseteq Instances

OCIInit == phase = [i \in Instances |-> "none"] /\ asked = {}

Create(i) ==
  /\ phase[i] = "none"
  /\ phase' = [phase EXCEPT ![i] = "creating"]
  /\ UNCHANGED asked

\* A start that was waiting already is served by the container that appears.
BecomeCreated(i) ==
  /\ phase[i] = "creating"
  /\ \A j \in Instances : phase[j] \notin Live
  /\ phase' = [phase EXCEPT ![i] = "created"]
  /\ asked' \in {asked, asked \cup {i}}

AskStart(S) ==
  /\ \A i \in S : phase[i] \notin {"none", "creating"}
  /\ asked' = asked \cup S
  /\ UNCHANGED phase

Run(i) ==
  /\ phase[i] = "created"
  /\ i \in asked
  /\ phase' = [phase EXCEPT ![i] = "running"]
  /\ UNCHANGED asked

\* Containers end one by one or, when their cgroup is killed, together.
End(S) ==
  /\ \A i \in S : phase[i] # "none"
  /\ phase' = [i \in Instances |-> IF i \in S THEN "stopped" ELSE phase[i]]
  /\ UNCHANGED asked

OCINext ==
  \/ \E S \in SUBSET Instances : AskStart(S) \/ End(S)
  \/ \E i \in Instances : Create(i) \/ BecomeCreated(i) \/ Run(i)

OCISpec == OCIInit /\ [][OCINext]_<<phase, asked>>

=============================================================================
