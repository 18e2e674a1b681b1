---------------------------- MODULE RuntimeClaims ----------------------------
(***************************************************************************)
(* What comments, messages and usage texts of crio-lxc say of the commands *)
(* and the code does not keep.  TLC finds a counterexample to each.        *)
(***************************************************************************)
EXTENDS Runtime

\* The files of a container are removed only when it is stopped (Delete: "container
\* is not not stopped"): no monitor owns the name of a container whose runtime
\* directory a delete has just removed.
DeletedMeansStopped ==
  \A p \in Procs :
    Returned(p, "delete", "ok") /\ fs["dir"] = None => LxcStopped

\* kill "sends a signal to a container": it does not report an error for a signal
\* that the monitor process received.
SentSignalIsSuccess ==
  [][\A p \in Procs :
       /\ pc[p] = "signal" /\ pc'[p] = "idle"
       /\ inst[p] \in pidfile /\ Owns(inst[p])
       => res'[p] # "fail"]_vars

\* An "init process [that] died or returned" is reported stopped, so a container
\* reported running was started.
RunningMeansStarted ==
  \A i \in Instances : seen[i] = Rank["running"] => initFifo[i] \in released

=============================================================================
