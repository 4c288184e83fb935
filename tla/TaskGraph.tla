------------------------------ MODULE TaskGraph ------------------------------
(***************************************************************************)
(* What the thread pool promises: a task that was handed in runs exactly   *)
(* once, after everything it depends on has completed, and some day.       *)
(* Nothing is said of threads, locks, queues or counters.                  *)
(***************************************************************************)
CONSTANT Task

VARIABLES
  deps,    \* the tasks each task was told to wait for
  status   \* "new", "submitted", "running" or "done"

vars == <<deps, status>>

Init ==
  /\ deps = [t \in Task |-> {}]
  /\ status = [t \in Task |-> "new"]

\* Only a task that was handed in itself can be depended on: no cycles.
Depend(t, d) ==
  /\ status[t] = "new" /\ status[d] # "new"
  /\ deps' = [deps EXCEPT ![t] = @ \cup {d}]
  /\ UNCHANGED status

Submit(t) ==
  /\ status[t] = "new"
  /\ status' = [status EXCEPT ![t] = "submitted"]
  /\ UNCHANGED deps

Start(t) ==
  /\ status[t] = "submitted"
  /\ \A d \in deps[t] : status[d] = "done"
  /\ status' = [status EXCEPT ![t] = "running"]
  /\ UNCHANGED deps

Finish(t) ==
  /\ status[t] = "running"
  /\ status' = [status EXCEPT ![t] = "done"]
  /\ UNCHANGED deps

Next ==
  \E t \in Task : Submit(t) \/ Start(t) \/ Finish(t) \/ \E d \in Task : Depend(t, d)

Spec == Init /\ [][Next]_vars

Fairness == \A t \in Task : WF_vars(Start(t)) /\ WF_vars(Finish(t))

FairSpec == Spec /\ Fairness
=============================================================================
