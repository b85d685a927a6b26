---- MODULE Scheduler ----
(***************************************************************************)
(* The scheduled tasks of stores, scheduler/scheduler.go, on top of what   *)
(* the task queue promises (TaskService).  A configuration update installs *)
(* a cron for each of its stores; a tick of a cron, or an update for a     *)
(* startup task, is a goroutine that submits the task of a store with a    *)
(* given index and waits for its result.  runningTasks marks the indexes   *)
(* that run, so that a task which does not allow it has no second run.     *)
(*                                                                         *)
(* Each goroutine is a member of Runs and its task in the queue the same   *)
(* member.  Sections under locker are single steps.                        *)
(***************************************************************************)
EXTENDS Naturals, Sequences, FiniteSets

CONSTANTS Runs,      \* goroutines that run a scheduled task, once each (a bound)
          Updaters,  \* goroutines that announce a configuration, once each (a bound)
          Stores,
          Configs,   \* configurations: the tasks of each store they mention
          None

Kinds == [schedule : {"startup", "cron", "invalid"}, allowConcurrent : BOOLEAN]

ASSUME SchedulerAssumption ==
    /\ IsFiniteSet(Runs)
    /\ IsFiniteSet(Updaters)
    /\ \A c \in Configs : /\ DOMAIN c \subseteq Stores
                          /\ \A s \in DOMAIN c : c[s] \in Seq(Kinds)
    /\ None \notin Stores \cup Configs

VARIABLES
    updater,         \* the configuration of each updater, and the stores still to do
    storeSchedulers, \* the entries of the cron of each store
    runningTasks,    \* the marks
    run,             \* the goroutines
    outcome, started \* the queue

Queue == INSTANCE TaskService WITH Tasks <- Runs, TimedTasks <- {}

queueVars == <<outcome, started>>
vars == <<updater, storeSchedulers, runningTasks, run, outcome, started>>

----
RunStates == {"new", "check", "mark", "push", "waiting", "manual", "over"}
NoRun     == [pc |-> "new", store |-> None, index |-> 0, allowConcurrent |-> FALSE]

TypeOK ==
    /\ updater \in [Updaters -> [config : Configs \cup {None}, todo : SUBSET Stores]]
    /\ storeSchedulers \in [Stores -> SUBSET [index : Nat, allowConcurrent : BOOLEAN]]
    /\ runningTasks \in [Stores -> SUBSET Nat]
    /\ run \in [Runs -> [pc : RunStates, store : Stores \cup {None}, index : Nat,
                         allowConcurrent : BOOLEAN]]
    /\ outcome \in [Runs -> {"none", "pending", "answered"}]
    /\ started \subseteq Runs
    /\ \A r \in Runs : /\ run[r].pc = "new" <=> run[r].store = None
                       /\ run[r].pc \in {"new", "check", "mark", "push"} =>
                              outcome[r] = "none"
                       /\ run[r].pc \in {"waiting", "manual"} => outcome[r] # "none"

Init ==
    /\ updater = [u \in Updaters |-> [config |-> None, todo |-> {}]]
    /\ storeSchedulers = [s \in Stores |-> {}]
    /\ runningTasks = [s \in Stores |-> {}]
    /\ run = [r \in Runs |-> NoRun]
    /\ Queue!Init

----
(* Configuration updates: the first is config.Init at the start of the process. *)

Update(u, c) ==
    /\ updater[u].config = None
    /\ updater' = [updater EXCEPT ![u] = [config |-> c, todo |-> DOMAIN c]]
    /\ UNCHANGED <<storeSchedulers, runningTasks, run, queueVars>>

Indexes(tasks, schedule) == {i \in 0..(Len(tasks) - 1) : tasks[i + 1].schedule = schedule}

(* The goroutines of the startup tasks: f gives each of them its index. *)
Startup(s, f) ==
    run' = [r \in Runs |-> IF r \in DOMAIN f
                           THEN [pc |-> "check", store |-> s, index |-> f[r],
                                 allowConcurrent |-> FALSE]
                           ELSE run[r]]

(* updateScheduler, the whole of it under locker.  A store without tasks loses its
   cron and keeps its marks; an invalid schedule is logged and left out. *)
UpdateScheduler(u, s) ==
    LET tasks == updater[u].config[s] IN
    /\ s \in updater[u].todo
    /\ updater' = [updater EXCEPT ![u].todo = @ \ {s}]
    /\ storeSchedulers' = [storeSchedulers EXCEPT ![s] =
           {[index |-> i, allowConcurrent |-> tasks[i + 1].allowConcurrent] :
                i \in Indexes(tasks, "cron")}]
    /\ runningTasks' = IF tasks = <<>> THEN runningTasks
                       ELSE [runningTasks EXCEPT ![s] = {}]
    /\ \E R \in SUBSET {r \in Runs : run[r].pc = "new"} :
           \E f \in [R -> Indexes(tasks, "startup")] :
               /\ \A i \in Indexes(tasks, "startup") : \E r \in R : f[r] = i
               /\ \A q, r \in R : f[q] = f[r] => q = r
               /\ Startup(s, f)
    /\ UNCHANGED queueVars

----
(* runTask *)

Tick(r, s, e) ==
    /\ run[r].pc = "new"
    /\ e \in storeSchedulers[s]
    /\ run' = [run EXCEPT ![r] = [pc |-> "check", store |-> s, index |-> e.index,
                                  allowConcurrent |-> e.allowConcurrent]]
    /\ UNCHANGED <<updater, storeSchedulers, runningTasks, queueVars>>

Goto(r, pc) == run' = [run EXCEPT ![r].pc = pc]

Marked(r) == run[r].index \in runningTasks[run[r].store]

CanRunTask(r) ==
    /\ run[r].pc = "check"
    /\ Goto(r, IF ~run[r].allowConcurrent /\ Marked(r) THEN "over" ELSE "mark")
    /\ UNCHANGED <<updater, storeSchedulers, runningTasks, queueVars>>

(* Mutant: the mark is set without a second look, as if canRunTask had settled it. *)
MarkUnchecked(r) ==
    /\ run[r].pc = "mark"
    /\ Goto(r, "push")
    /\ runningTasks' = [runningTasks EXCEPT ![run[r].store] = @ \cup {run[r].index}]
    /\ UNCHANGED <<updater, storeSchedulers, queueVars>>

(* checkAndMarkTaskRunning: it refuses a marked task, whatever it allows. *)
CheckAndMark(r) ==
    /\ run[r].pc = "mark"
    /\ Goto(r, IF Marked(r) THEN "over" ELSE "push")
    /\ runningTasks' = [runningTasks EXCEPT ![run[r].store] = @ \cup {run[r].index}]
    /\ UNCHANGED <<updater, storeSchedulers, queueVars>>

Push(r) ==
    /\ run[r].pc = "push"
    /\ Goto(r, "waiting")
    /\ Queue!Submit(r)
    /\ UNCHANGED <<updater, storeSchedulers, runningTasks>>

(* Mutants: the same Task is submitted again; a run that ended with an error returns
   before it clears its mark. *)
RetryCompleted(r) ==
    /\ run[r].pc = "waiting"
    /\ outcome[r] = "answered"
    /\ Goto(r, "push")
    /\ runningTasks' = [runningTasks EXCEPT ![run[r].store] = @ \ {run[r].index}]
    /\ UNCHANGED <<updater, storeSchedulers, queueVars>>

CompletedOrFailed(r) ==
    /\ run[r].pc = "waiting"
    /\ outcome[r] = "answered"
    /\ Goto(r, "over")
    /\ \/ runningTasks' = [runningTasks EXCEPT ![run[r].store] = @ \ {run[r].index}]
       \/ UNCHANGED runningTasks
    /\ UNCHANGED <<updater, storeSchedulers, queueVars>>

(* markTaskCompleted, after a result and after an error. *)
MarkTaskCompleted(r) ==
    /\ run[r].pc = "waiting"
    /\ outcome[r] = "answered"
    /\ Goto(r, "over")
    /\ runningTasks' = [runningTasks EXCEPT ![run[r].store] = @ \ {run[r].index}]
    /\ UNCHANGED <<updater, storeSchedulers, queueVars>>

----
(* cron.run: a worker has a scheduled task run now; the marks are not involved. *)

CronRun(r, s, i) ==
    /\ run[r].pc = "new"
    /\ run' = [run EXCEPT ![r] = [pc |-> "manual", store |-> s, index |-> i,
                                  allowConcurrent |-> FALSE]]
    /\ Queue!Submit(r)
    /\ UNCHANGED <<updater, storeSchedulers, runningTasks>>

CronRunDone(r) ==
    /\ run[r].pc = "manual"
    /\ outcome[r] = "answered"
    /\ Goto(r, "over")
    /\ UNCHANGED <<updater, storeSchedulers, runningTasks, queueVars>>

(* Workers take tasks from the queue and answer them. *)
Work(r) ==
    /\ Queue!Start(r) \/ Queue!Answer(r)
    /\ UNCHANGED <<updater, storeSchedulers, runningTasks, run>>

----
(* The indexes a store has in some configuration. *)
KnownIndexes(s) == UNION {0..(Len(c[s]) - 1) : c \in {c \in Configs : s \in DOMAIN c}}

RunTask(r) == CanRunTask(r) \/ CheckAndMark(r) \/ Push(r) \/ MarkTaskCompleted(r)

Next ==
    \/ \E u \in Updaters : \/ \E c \in Configs : Update(u, c)
                           \/ \E s \in Stores : UpdateScheduler(u, s)
    \/ \E r \in Runs : \/ RunTask(r) \/ Work(r) \/ CronRunDone(r)
                       \/ \E s \in Stores : \/ \E e \in storeSchedulers[s] : Tick(r, s, e)
                                            \/ \E i \in KnownIndexes(s) : CronRun(r, s, i)

Spec == Init /\ [][Next]_vars

(* The goroutines of runTask are scheduled.  Nothing is assumed of workers, of ticks
   and of updates. *)
FairSpec == Spec /\ \A r \in Runs : WF_vars(RunTask(r))

----
(* The runs of a task that the scheduler let through and that are not over. *)
InProgress(s, i) == {r \in Runs : /\ run[r].pc \in {"push", "waiting"}
                                  /\ run[r].store = s /\ run[r].index = i}

(* The updates that gave a store new marks. *)
Resets(s) == {u \in Updaters : /\ updater[u].config # None
                               /\ s \in DOMAIN updater[u].config \ updater[u].todo
                               /\ updater[u].config[s] # <<>>}

(* A task has at most as many runs at a time as its store was configured: while
   nothing is reloaded, never two, whether or not it allows concurrent runs. *)
RunsBoundedByUpdates ==
    \A r \in Runs : run[r].pc \in {"push", "waiting"} =>
        Cardinality(InProgress(run[r].store, run[r].index)) <=
            Cardinality(Resets(run[r].store))

(* No mark outlives its run, so no tick is refused for a run that is over: canRunTask
   and checkAndMarkTaskRunning refuse only next to a run in progress. *)
Refused(r) == run[r].pc \in {"check", "mark"} /\ run'[r].pc = "over"

RefusedOnlyNextToARun ==
    [][\A r \in Runs : Refused(r) => InProgress(run[r].store, run[r].index) # {}]_vars

(* A mark is cleared, unless a worker has not answered a run of its task. *)
Unanswered(s, i) == \E r \in InProgress(s, i) : outcome[r] = "pending"

MarkIsCleared ==
    \A s \in Stores : \A i \in KnownIndexes(s) :
        i \in runningTasks[s] ~> i \notin runningTasks[s] \/ Unanswered(s, i)

(* What runTask logs when it refuses, "Concurrent is not allowed. Prev task is not
   completed" (scheduler.go:73): workers are never at two runs at a time of a task
   that no configuration allows to be concurrent. *)
ConcurrentIsNotAllowed ==
    \A q, r \in Runs :
        /\ {q, r} \subseteq started
        /\ outcome[q] = "pending" /\ outcome[r] = "pending"
        /\ run[q].pc = "waiting" /\ run[r].pc = "waiting"
        /\ ~run[q].allowConcurrent
        /\ run[q] = run[r]
        => q = r
====
