---- MODULE MCScheduler ----
(* A store a with a startup task and a cron task that allows concurrent runs; a
   configuration with a task that allows none and one that cannot be scheduled; one
   in which a has no task left and b has one.  MCSameConfig is one task, reloaded. *)
EXTENDS Scheduler, TLC

CONSTANTS a, b

Task(schedule, allow) == [schedule |-> schedule, allowConcurrent |-> allow]

MCConfigs ==
    { a :> <<Task("startup", FALSE), Task("cron", TRUE)>>,
      a :> <<Task("cron", FALSE), Task("invalid", FALSE)>>,
      (a :> <<>>) @@ (b :> <<Task("startup", FALSE)>>) }

MCSameConfig == {a :> <<Task("cron", FALSE)>>}
====
