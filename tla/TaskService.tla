---- MODULE TaskService ----
(***************************************************************************)
(* What the task queue promises to the rest of blank-one: a submitted task *)
(* is run by one worker at most at a time, it may come back to the queue   *)
(* before the worker has it, and its submitter gets one outcome: the       *)
(* result of a run, or a timeout if it asked for one.                      *)
(***************************************************************************)
CONSTANTS Tasks, TimedTasks

VARIABLES outcome,  \* what the submitter of each task got
          started   \* tasks a worker was given

vars == <<outcome, started>>

Init == outcome = [t \in Tasks |-> "none"] /\ started = {}

Submit(t) == /\ outcome[t] = "none"
             /\ outcome' = [outcome EXCEPT ![t] = "pending"]
             /\ UNCHANGED started

Start(t) == /\ outcome[t] \in {"pending", "timeout"}
            /\ t \notin started
            /\ started' = started \cup {t}
            /\ UNCHANGED outcome

Answer(t) == /\ outcome[t] = "pending"
             /\ t \in started
             /\ outcome' = [outcome EXCEPT ![t] = "answered"]
             /\ UNCHANGED started

Expire(t) == /\ outcome[t] = "pending"
             /\ t \in TimedTasks
             /\ outcome' = [outcome EXCEPT ![t] = "timeout"]
             /\ UNCHANGED started

Next == \E t \in Tasks : Submit(t) \/ Start(t) \/ Answer(t) \/ Expire(t)

Spec == Init /\ [][Next]_vars
====
