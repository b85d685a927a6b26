---- MODULE SchedulerProofs ----
(***************************************************************************)
(* Proofs about Scheduler, for any stores, configurations, number of       *)
(* updates and number of runs: its types, the bound on the runs of a task, *)
(* and that a run is refused only next to another one.                     *)
(***************************************************************************)
EXTENDS Scheduler, FiniteSetTheorems, TLAPS

(* What an updater still has to do is in its configuration. *)
Announced ==
    \A u \in Updaters : \A s \in updater[u].todo :
        updater[u].config # None /\ s \in DOMAIN updater[u].config

(* Entries and runs exist only for stores that were given marks. *)
Configured ==
    /\ \A s \in Stores : storeSchedulers[s] # {} => Resets(s) # {}
    /\ \A r \in Runs, s \in Stores :
           run[r].store = s /\ run[r].pc \in {"check", "mark", "push", "waiting"}
               => Resets(s) # {}

(* A mark stands for a run in progress. *)
MarkHasRun == \A s \in Stores : \A i \in runningTasks[s] : InProgress(s, i) # {}

(* Each update but the first of a store makes room for one run without a mark. *)
Slack ==
    \A s \in Stores, i \in Nat :
        /\ i \in runningTasks[s] => Cardinality(InProgress(s, i)) <= Cardinality(Resets(s))
        /\ i \notin runningTasks[s] =>
               \/ Cardinality(InProgress(s, i)) = 0
               \/ Cardinality(InProgress(s, i)) < Cardinality(Resets(s))

IInv == TypeOK /\ Announced /\ Configured /\ MarkHasRun /\ Slack

----
(* The sets the bound counts are finite. *)
LEMMA Finite ==
    ASSUME NEW s, NEW i
    PROVE  /\ IsFiniteSet(InProgress(s, i)) /\ Cardinality(InProgress(s, i)) \in Nat
           /\ IsFiniteSet(Resets(s)) /\ Cardinality(Resets(s)) \in Nat
<1>1. InProgress(s, i) \subseteq Runs /\ Resets(s) \subseteq Updaters
    BY DEF InProgress, Resets
<1> QED
    BY <1>1, SchedulerAssumption, FS_Subset, FS_CardinalityType

(* The invariant holds initially: nothing is configured and nothing runs. *)
LEMMA InitIInv == Init => IInv
<1> SUFFICES ASSUME Init PROVE IInv
    OBVIOUS
<1> USE SchedulerAssumption DEF Init, Queue!Init, NoRun
<1>1. TypeOK
    BY DEF TypeOK, RunStates
<1>2. Announced /\ Configured /\ MarkHasRun
    BY DEF Announced, Configured, MarkHasRun
<1>3. Slack
    <2>1. \A s \in Stores, i \in Nat : InProgress(s, i) = {}
        BY DEF InProgress
    <2> QED
        BY <2>1, FS_EmptySet DEF Slack
<1> QED
    BY <1>1, <1>2, <1>3 DEF IInv

(* A run moves on and stays what it is otherwise. *)
LEMMA GotoMoves ==
    ASSUME IInv, NEW r \in Runs, NEW pc \in RunStates, Goto(r, pc)
    PROVE  /\ run' \in [Runs -> [pc : RunStates, store : Stores \cup {None}, index : Nat,
                                 allowConcurrent : BOOLEAN]]
           /\ run'[r].pc = pc /\ run'[r].store = run[r].store
           /\ \A q \in Runs \ {r} : run'[q] = run[q]
<1> DEFINE RunT == [pc : RunStates, store : Stores \cup {None}, index : Nat,
                    allowConcurrent : BOOLEAN]
           moved == [run[r] EXCEPT !.pc = pc]
<1>1. run \in [Runs -> RunT] /\ run[r] \in RunT
    BY DEF IInv, TypeOK
<1>2. moved \in RunT /\ moved.pc = pc /\ moved.store = run[r].store
    BY <1>1
<1>3. run' = [run EXCEPT ![r] = moved]
    BY DEF Goto
<1> HIDE DEF RunT, moved
<1>4. run' \in [Runs -> RunT] /\ run'[r] = moved /\ \A q \in Runs \ {r} : run'[q] = run[q]
    BY <1>1, <1>2, <1>3
<1> QED
    BY <1>2, <1>4 DEF RunT

(* A step that gives nobody a task and no run a store. *)
LEMMA ConfiguredStays ==
    ASSUME IInv, \A s \in Stores : Resets(s)' = Resets(s), storeSchedulers' = storeSchedulers,
           \A r \in Runs : /\ run'[r].store = run[r].store
                           /\ run'[r].pc \in {"check", "mark", "push", "waiting"} =>
                                  run[r].pc \in {"check", "mark", "push", "waiting"}
    PROVE  Configured'
BY DEF IInv, Configured

(* A step that changes neither marks nor the sets that are counted. *)
LEMMA Quiet ==
    ASSUME IInv, runningTasks' = runningTasks,
           \A s \in Stores : Resets(s)' = Resets(s),
           \A s \in Stores, i \in Nat : InProgress(s, i)' = InProgress(s, i)
    PROVE  MarkHasRun' /\ Slack'
<1>1. \A s \in Stores : runningTasks[s] \subseteq Nat
    BY DEF IInv, TypeOK
<1>2. MarkHasRun'
    BY <1>1 DEF IInv, MarkHasRun
<1>3. Slack'
    BY DEF IInv, Slack
<1> QED
    BY <1>2, <1>3

LEMMA UpdateIInv ==
    ASSUME IInv, NEW u \in Updaters, NEW c \in Configs, Update(u, c)
    PROVE  IInv'
<1> USE SchedulerAssumption DEF Update, queueVars
<1>1. TypeOK'
    BY DEF IInv, TypeOK
<1>2. \A s \in Stores : Resets(s)' = Resets(s)
    BY DEF IInv, TypeOK, Resets
<1>3. Announced' /\ Configured'
    BY <1>2 DEF IInv, TypeOK, Announced, Configured
<1>4. \A s \in Stores, i \in Nat : InProgress(s, i)' = InProgress(s, i)
    BY DEF InProgress
<1> QED
    BY <1>1, <1>2, <1>3, <1>4, Quiet DEF IInv

(* The one step that replaces marks: it makes room in the bound for every run whose
   mark is lost. *)
LEMMA UpdateSchedulerIInv ==
    ASSUME IInv, NEW u \in Updaters, NEW s \in Stores, UpdateScheduler(u, s)
    PROVE  IInv'
<1> DEFINE tasks == updater[u].config[s]
           entries == {[index |-> i, allowConcurrent |-> tasks[i + 1].allowConcurrent] :
                           i \in Indexes(tasks, "cron")}
<1>1. /\ updater[u].config \in Configs /\ updater[u].config # None
      /\ s \in DOMAIN updater[u].config /\ tasks \in Seq(Kinds)
    BY SchedulerAssumption DEF UpdateScheduler, IInv, TypeOK, Announced
<1>2. \A k : Indexes(tasks, k) \subseteq Nat /\ (tasks = <<>> => Indexes(tasks, k) = {})
    BY <1>1 DEF Indexes
<1>3. /\ s \in updater[u].todo
      /\ updater' = [updater EXCEPT ![u].todo = @ \ {s}]
      /\ storeSchedulers' = [storeSchedulers EXCEPT ![s] = entries]
      /\ runningTasks' = IF tasks = <<>> THEN runningTasks
                         ELSE [runningTasks EXCEPT ![s] = {}]
      /\ outcome' = outcome /\ started' = started
    BY DEF UpdateScheduler, queueVars
<1>4. PICK R \in SUBSET {r \in Runs : run[r].pc = "new"} :
          \E f \in [R -> Indexes(tasks, "startup")] : Startup(s, f)
    BY DEF UpdateScheduler
<1>5. PICK f \in [R -> Indexes(tasks, "startup")] : Startup(s, f)
    BY <1>4
<1>6. run' = [r \in Runs |-> IF r \in R
                             THEN [pc |-> "check", store |-> s, index |-> f[r],
                                   allowConcurrent |-> FALSE]
                             ELSE run[r]]
    BY <1>5 DEF Startup
<1>7. entries \subseteq [index : Nat, allowConcurrent : BOOLEAN]
    <2> SUFFICES ASSUME NEW i \in Indexes(tasks, "cron")
                 PROVE  i \in Nat /\ tasks[i + 1].allowConcurrent \in BOOLEAN
        OBVIOUS
    <2>1. i \in Nat /\ i + 1 \in 1..Len(tasks)
        BY <1>1 DEF Indexes
    <2>2. tasks[i + 1] \in Kinds
        BY <1>1, <2>1
    <2> QED
        BY <2>1, <2>2 DEF Kinds
<1>8. TypeOK'
    <2>1. /\ updater' \in [Updaters -> [config : Configs \cup {None}, todo : SUBSET Stores]]
          /\ storeSchedulers' \in [Stores -> SUBSET [index : Nat, allowConcurrent : BOOLEAN]]
          /\ runningTasks' \in [Stores -> SUBSET Nat]
        BY <1>3, <1>7 DEF IInv, TypeOK
    <2>2. run' \in [Runs -> [pc : RunStates, store : Stores \cup {None}, index : Nat,
                             allowConcurrent : BOOLEAN]]
        BY <1>2, <1>5, <1>6 DEF IInv, TypeOK, RunStates
    <2>3. \A r \in Runs : /\ run'[r].pc = "new" <=> run'[r].store = None
                          /\ run'[r].pc \in {"new", "check", "mark", "push"} =>
                                 outcome'[r] = "none"
                          /\ run'[r].pc \in {"waiting", "manual"} => outcome'[r] # "none"
        BY <1>3, <1>4, <1>6, SchedulerAssumption DEF IInv, TypeOK
    <2> QED
        BY <1>3, <2>1, <2>2, <2>3 DEF IInv, TypeOK
<1>9. Announced'
    BY <1>3 DEF IInv, TypeOK, Announced
<1>10. \A q \in Stores : Resets(q) \subseteq Resets(q)'
    BY <1>3 DEF IInv, TypeOK, Resets
<1>11. tasks # <<>> => /\ u \notin Resets(s)
                       /\ Resets(s)' = Resets(s) \cup {u}
    BY <1>1, <1>3 DEF IInv, TypeOK, Resets
<1>12. \A q \in Stores : q # s \/ tasks = <<>> => Resets(q)' = Resets(q)
    BY <1>1, <1>3 DEF IInv, TypeOK, Resets
<1>13. Configured'
    <2>1. ASSUME NEW q \in Stores, storeSchedulers'[q] # {}
          PROVE  Resets(q)' # {}
        BY <1>2, <1>3, <1>10, <1>11, <2>1 DEF IInv, TypeOK, Configured
    <2>2. ASSUME NEW r \in Runs, NEW q \in Stores, run'[r].store = q,
                 run'[r].pc \in {"check", "mark", "push", "waiting"}
          PROVE  Resets(q)' # {}
        <3>1. CASE r \in R
            BY <1>2, <1>5, <1>6, <1>11, <2>2, <3>1
        <3>2. CASE r \notin R
            <4>1. run[r].store = q /\ run[r].pc \in {"check", "mark", "push", "waiting"}
                BY <1>6, <2>2, <3>2
            <4>2. Resets(q) # {}
                BY <4>1 DEF IInv, Configured
            <4> QED
                BY <1>10, <4>2
        <3> QED
            BY <3>1, <3>2
    <2> QED
        BY <2>1, <2>2 DEF Configured
<1>14. \A q \in Stores, i \in Nat : InProgress(q, i)' = InProgress(q, i)
    BY <1>4, <1>6 DEF InProgress
<1>15. MarkHasRun'
    BY <1>3, <1>14 DEF IInv, TypeOK, MarkHasRun
<1>16. Slack'
    <2> SUFFICES ASSUME NEW q \in Stores, NEW i \in Nat
                 PROVE  /\ i \in runningTasks'[q] =>
                               Cardinality(InProgress(q, i)) <= Cardinality(Resets(q)')
                        /\ i \notin runningTasks'[q] =>
                               \/ Cardinality(InProgress(q, i)) = 0
                               \/ Cardinality(InProgress(q, i)) < Cardinality(Resets(q)')
        BY <1>14 DEF Slack
    <2>1. CASE q # s \/ tasks = <<>>
        BY <1>3, <1>12, <2>1 DEF IInv, TypeOK, Slack
    <2>2. CASE q = s /\ tasks # <<>>
        <3>1. Cardinality(Resets(s)') = Cardinality(Resets(s)) + 1
            BY <1>11, <2>2, Finite, FS_AddElement
        <3>2. Cardinality(InProgress(s, i)) <= Cardinality(Resets(s))
            <4>1. Cardinality(InProgress(s, i)) \in Nat /\ Cardinality(Resets(s)) \in Nat
                BY Finite
            <4> QED
                BY <4>1 DEF IInv, Slack
        <3> QED
            BY <1>3, <2>2, <3>1, <3>2, Finite DEF IInv, TypeOK
    <2> QED
        BY <2>1, <2>2
<1> QED
    BY <1>8, <1>9, <1>13, <1>15, <1>16 DEF IInv

LEMMA TickIInv ==
    ASSUME IInv, NEW r \in Runs, NEW s \in Stores, NEW e \in storeSchedulers[s], Tick(r, s, e)
    PROVE  IInv'
<1> USE SchedulerAssumption DEF Tick, queueVars
<1>1. TypeOK'
    <2>1. e \in [index : Nat, allowConcurrent : BOOLEAN]
        BY DEF IInv, TypeOK
    <2> QED
        BY <2>1 DEF IInv, TypeOK, RunStates
<1>2. \A q \in Stores : Resets(q)' = Resets(q)
    BY DEF Resets
<1>3. Announced'
    BY DEF IInv, Announced
<1>4. Configured'
    <2>1. ASSUME NEW p \in Runs, NEW q \in Stores, run'[p].store = q,
                 run'[p].pc \in {"check", "mark", "push", "waiting"}
          PROVE  Resets(q) # {}
        BY <2>1 DEF IInv, TypeOK, Configured
    <2> QED
        BY <1>2, <2>1 DEF IInv, Configured
<1>5. \A q \in Stores, i \in Nat : InProgress(q, i)' = InProgress(q, i)
    BY DEF IInv, TypeOK, InProgress
<1> QED
    BY <1>1, <1>2, <1>3, <1>4, <1>5, Quiet DEF IInv

LEMMA CanRunTaskIInv ==
    ASSUME IInv, NEW r \in Runs, CanRunTask(r)
    PROVE  IInv'
<1> USE SchedulerAssumption DEF CanRunTask, Goto, queueVars
<1>1. TypeOK'
    BY DEF IInv, TypeOK, RunStates
<1>2. \A q \in Stores : Resets(q)' = Resets(q)
    BY DEF Resets
<1>3. Announced'
    BY DEF IInv, Announced
<1>4. Configured'
    <2>1. ASSUME NEW p \in Runs, NEW q \in Stores, run'[p].store = q,
                 run'[p].pc \in {"check", "mark", "push", "waiting"}
          PROVE  Resets(q) # {}
        <3>1. run[p].store = q /\ run[p].pc \in {"check", "mark", "push", "waiting"}
            BY <2>1 DEF IInv, TypeOK
        <3> QED
            BY <3>1 DEF IInv, Configured
    <2> QED
        BY <1>2, <2>1 DEF IInv, Configured
<1>5. \A q \in Stores, i \in Nat : InProgress(q, i)' = InProgress(q, i)
    BY DEF IInv, TypeOK, InProgress
<1> QED
    BY <1>1, <1>2, <1>3, <1>4, <1>5, Quiet DEF IInv

LEMMA PushIInv ==
    ASSUME IInv, NEW r \in Runs, Push(r)
    PROVE  IInv'
<1> USE SchedulerAssumption DEF Push, Goto, Queue!Submit
<1>1. TypeOK'
    <2>1. Goto(r, "waiting") /\ "waiting" \in RunStates /\ run[r].pc = "push"
        BY DEF RunStates
    <2>2. outcome' = [outcome EXCEPT ![r] = "pending"] /\ UNCHANGED <<updater, storeSchedulers, runningTasks, started>>
        OBVIOUS
    <2> QED
        BY ONLY <2>1, <2>2, GotoMoves, IInv DEF IInv, TypeOK
<1>2. \A q \in Stores : Resets(q)' = Resets(q)
    BY DEF Resets
<1>3. Announced'
    BY DEF IInv, Announced
<1>4. Configured'
    <2>1. ASSUME NEW p \in Runs, NEW q \in Stores, run'[p].store = q,
                 run'[p].pc \in {"check", "mark", "push", "waiting"}
          PROVE  Resets(q) # {}
        <3>1. run[p].store = q /\ run[p].pc \in {"check", "mark", "push", "waiting"}
            BY <2>1 DEF IInv, TypeOK
        <3> QED
            BY <3>1 DEF IInv, Configured
    <2> QED
        BY <1>2, <2>1 DEF IInv, Configured
<1>5. \A q \in Stores, i \in Nat : InProgress(q, i)' = InProgress(q, i)
    BY DEF IInv, TypeOK, InProgress
<1> QED
    BY <1>1, <1>2, <1>3, <1>4, <1>5, Quiet DEF IInv

(* A mark is set together with a run in progress, and only if the task had none. *)
LEMMA CheckAndMarkIInv ==
    ASSUME IInv, NEW r \in Runs, CheckAndMark(r),
           NEW s \in Stores, NEW j \in Nat, run[r].store = s, run[r].index = j
    PROVE  IInv'
<1> USE DEF queueVars
<1>1. /\ run[r].pc = "mark"
      /\ runningTasks' = [runningTasks EXCEPT ![s] = @ \cup {j}]
      /\ UNCHANGED <<updater, storeSchedulers, outcome, started>>
    BY DEF CheckAndMark, IInv, TypeOK
<1>2. CASE Marked(r)
    <2>1. run' = [run EXCEPT ![r].pc = "over"] /\ runningTasks' = runningTasks
        BY <1>1, <1>2 DEF CheckAndMark, Goto, Marked, IInv, TypeOK
    <2>2. TypeOK'
        BY <1>1, <2>1 DEF IInv, TypeOK, RunStates
    <2>3. \A q \in Stores : Resets(q)' = Resets(q)
        BY <1>1 DEF Resets
    <2>4. Announced'
        BY <1>1 DEF IInv, Announced
    <2>5. Configured'
        BY <1>1, <2>1, <2>3 DEF IInv, TypeOK, Configured
    <2>6. \A q \in Stores, i \in Nat : InProgress(q, i)' = InProgress(q, i)
        BY <1>1, <2>1 DEF IInv, TypeOK, InProgress
    <2> QED
        BY <2>1, <2>2, <2>3, <2>4, <2>5, <2>6, Quiet DEF IInv
<1>3. CASE ~Marked(r)
    <2>1. run' = [run EXCEPT ![r].pc = "push"] /\ j \notin runningTasks[s]
        BY <1>1, <1>3 DEF CheckAndMark, Goto, Marked
    <2>2. TypeOK'
        BY <1>1, <2>1 DEF IInv, TypeOK, RunStates
    <2>3. \A q \in Stores : Resets(q)' = Resets(q)
        BY <1>1 DEF Resets
    <2>4. Announced'
        BY <1>1 DEF IInv, Announced
    <2>5. Configured'
        BY <1>1, <2>1, <2>3 DEF IInv, TypeOK, Configured
    <2>6. r \notin InProgress(s, j) /\ InProgress(s, j)' = InProgress(s, j) \cup {r}
        BY <1>1, <2>1 DEF IInv, TypeOK, InProgress
    <2>7. \A q \in Stores, i \in Nat :
              q # s \/ i # j => /\ InProgress(q, i)' = InProgress(q, i)
                                /\ i \in runningTasks'[q] <=> i \in runningTasks[q]
        BY <1>1, <2>1 DEF IInv, TypeOK, InProgress
    <2>8. MarkHasRun'
        <3> SUFFICES ASSUME NEW q \in Stores, NEW i \in runningTasks'[q]
                     PROVE  InProgress(q, i)' # {}
            BY DEF MarkHasRun
        <3>1. i \in Nat
            BY <2>2 DEF TypeOK
        <3>2. CASE q = s /\ i = j
            BY <2>6, <3>2
        <3>3. CASE q # s \/ i # j
            BY <2>7, <3>1, <3>3 DEF IInv, MarkHasRun
        <3> QED
            BY <3>2, <3>3
    <2>9. Slack'
        <3> SUFFICES ASSUME NEW q \in Stores, NEW i \in Nat
                     PROVE  /\ i \in runningTasks'[q] =>
                                   Cardinality(InProgress(q, i)') <= Cardinality(Resets(q))
                            /\ i \notin runningTasks'[q] =>
                                   \/ Cardinality(InProgress(q, i)') = 0
                                   \/ Cardinality(InProgress(q, i)') < Cardinality(Resets(q))
            BY <2>3 DEF Slack
        <3>1. CASE q # s \/ i # j
            BY <2>7, <3>1 DEF IInv, Slack
        <3>2. CASE q = s /\ i = j
            <4>1. j \in runningTasks'[s]
                BY <1>1 DEF IInv, TypeOK
            <4>2. Cardinality(InProgress(s, j)') = Cardinality(InProgress(s, j)) + 1
                <5>1. IsFiniteSet(InProgress(s, j))
                    BY Finite
                <5> DEFINE before == InProgress(s, j)
                <5>2. r \notin before /\ InProgress(s, j)' = before \cup {r} /\ IsFiniteSet(before)
                    BY <2>6, <5>1
                <5> HIDE DEF before
                <5>3. Cardinality(before \cup {r}) = Cardinality(before) + 1
                    BY <5>2, FS_AddElement
                <5> QED
                    BY <5>2, <5>3 DEF before
            <4>3. Cardinality(Resets(s)) # 0
                BY <1>1, Finite, FS_EmptySet DEF IInv, Configured
            <4>4. \/ Cardinality(InProgress(s, j)) = 0
                  \/ Cardinality(InProgress(s, j)) < Cardinality(Resets(s))
                BY <1>1, <2>1 DEF IInv, Slack
            <4> QED
                BY <3>2, <4>1, <4>2, <4>3, <4>4, Finite
        <3> QED
            BY <3>1, <3>2
    <2> QED
        BY <2>2, <2>4, <2>5, <2>8, <2>9 DEF IInv
<1> QED
    BY <1>2, <1>3

(* The end of a run takes the mark of its task away, whoever set it, and a run with it. *)
LEMMA MarkTaskCompletedIInv ==
    ASSUME IInv, NEW r \in Runs, MarkTaskCompleted(r),
           NEW s \in Stores, NEW j \in Nat, run[r].store = s, run[r].index = j
    PROVE  IInv'
<1> USE DEF queueVars
<1>1. /\ run[r].pc = "waiting"
      /\ runningTasks' = [runningTasks EXCEPT ![s] = @ \ {j}]
      /\ run' = [run EXCEPT ![r].pc = "over"]
      /\ UNCHANGED <<updater, storeSchedulers, outcome, started>>
    BY DEF MarkTaskCompleted, Goto, IInv, TypeOK
<1>2. TypeOK'
    BY <1>1 DEF IInv, TypeOK, RunStates
<1>3. \A q \in Stores : Resets(q)' = Resets(q)
    BY <1>1 DEF Resets
<1>4. Announced'
    BY <1>1 DEF IInv, Announced
<1>5. Configured'
    <2>1. \A q \in Runs : run'[q].store = run[q].store /\ (q # r => run'[q] = run[q]) /\ run'[r].pc = "over"
        BY <1>1 DEF IInv, TypeOK
    <2> QED
        BY <1>1, <1>3, <2>1, ConfiguredStays
<1>6. r \in InProgress(s, j) /\ InProgress(s, j)' = InProgress(s, j) \ {r}
    BY <1>1 DEF IInv, TypeOK, InProgress
<1>7. \A q \in Stores, i \in Nat :
          q # s \/ i # j => /\ InProgress(q, i)' = InProgress(q, i)
                            /\ i \in runningTasks'[q] <=> i \in runningTasks[q]
    BY <1>1 DEF IInv, TypeOK, InProgress
<1>8. j \notin runningTasks'[s]
    BY <1>1 DEF IInv, TypeOK
<1>9. MarkHasRun'
    <2> SUFFICES ASSUME NEW q \in Stores, NEW i \in runningTasks'[q]
                 PROVE  InProgress(q, i)' # {}
        BY DEF MarkHasRun
    <2>1. i \in Nat /\ (q # s \/ i # j)
        BY <1>2, <1>8 DEF TypeOK
    <2> QED
        BY <1>7, <2>1 DEF IInv, MarkHasRun
<1>10. Slack'
    <2> SUFFICES ASSUME NEW q \in Stores, NEW i \in Nat
                 PROVE  /\ i \in runningTasks'[q] =>
                               Cardinality(InProgress(q, i)') <= Cardinality(Resets(q))
                        /\ i \notin runningTasks'[q] =>
                               \/ Cardinality(InProgress(q, i)') = 0
                               \/ Cardinality(InProgress(q, i)') < Cardinality(Resets(q))
        BY <1>3 DEF Slack
    <2>1. CASE q # s \/ i # j
        BY <1>7, <2>1 DEF IInv, Slack
    <2>2. CASE q = s /\ i = j
        <3>1. Cardinality(InProgress(s, j)') = Cardinality(InProgress(s, j)) - 1
            <4>1. IsFiniteSet(InProgress(s, j))
                BY Finite
            <4>2. Cardinality(InProgress(s, j) \ {r}) = Cardinality(InProgress(s, j)) - 1
                BY <1>6, <4>1, FS_RemoveElement
            <4> QED
                BY <1>6, <4>2
        <3>2. \/ Cardinality(InProgress(s, j)) <= Cardinality(Resets(s))
              \/ Cardinality(InProgress(s, j)) = 0
            BY <1>1, Finite DEF IInv, Slack
        <3>3. Cardinality(InProgress(s, j)) # 0
            BY <1>6, Finite, FS_EmptySet
        <3> QED
            BY <1>8, <2>2, <3>1, <3>2, <3>3, Finite
    <2> QED
        BY <2>1, <2>2
<1> QED
    BY <1>2, <1>4, <1>5, <1>9, <1>10 DEF IInv

LEMMA CronRunIInv ==
    ASSUME IInv, NEW r \in Runs, NEW s \in Stores, NEW i \in KnownIndexes(s), CronRun(r, s, i)
    PROVE  IInv'
<1> USE SchedulerAssumption DEF CronRun, Queue!Submit
<1>1. i \in Nat
    <2>1. PICK c \in Configs : s \in DOMAIN c /\ i \in 0..(Len(c[s]) - 1)
        BY DEF KnownIndexes
    <2> QED
        BY <2>1
<1>2. TypeOK'
    BY <1>1 DEF IInv, TypeOK, RunStates
<1>3. \A q \in Stores : Resets(q)' = Resets(q)
    BY DEF Resets
<1>4. Announced'
    BY DEF IInv, Announced
<1>5. Configured'
    BY <1>3 DEF IInv, TypeOK, Configured
<1>6. \A q \in Stores, k \in Nat : InProgress(q, k)' = InProgress(q, k)
    BY DEF IInv, TypeOK, InProgress
<1> QED
    BY <1>2, <1>3, <1>4, <1>5, <1>6, Quiet DEF IInv

LEMMA CronRunDoneIInv ==
    ASSUME IInv, NEW r \in Runs, CronRunDone(r)
    PROVE  IInv'
<1> USE SchedulerAssumption DEF CronRunDone, Goto, queueVars
<1>0. /\ Goto(r, "over") /\ "over" \in RunStates /\ run[r].pc = "manual"
      /\ UNCHANGED <<updater, storeSchedulers, runningTasks, outcome, started>>
    BY DEF RunStates
<1>1. TypeOK'
    BY ONLY <1>0, GotoMoves, IInv, r \in Runs DEF IInv, TypeOK
<1>2. \A q \in Stores : Resets(q)' = Resets(q)
    BY DEF Resets
<1>3. Announced'
    BY DEF IInv, Announced
<1>4. Configured'
    <2>1. \A q \in Runs : run'[q].store = run[q].store /\ (q # r => run'[q] = run[q]) /\ run'[r].pc = "over"
        BY <1>0, GotoMoves
    <2> QED
        BY <1>0, <1>2, <2>1, ConfiguredStays
<1>5. \A q \in Stores, i \in Nat : InProgress(q, i)' = InProgress(q, i)
    BY DEF IInv, TypeOK, InProgress
<1> QED
    BY <1>1, <1>2, <1>3, <1>4, <1>5, Quiet DEF IInv

LEMMA WorkIInv ==
    ASSUME IInv, NEW r \in Runs, Work(r)
    PROVE  IInv'
<1> USE DEF Work, Queue!Start, Queue!Answer
<1>1. TypeOK'
    BY DEF IInv, TypeOK
<1>2. \A q \in Stores : Resets(q)' = Resets(q)
    BY DEF Resets
<1>3. Announced' /\ Configured'
    BY <1>2 DEF IInv, Announced, Configured
<1>4. \A q \in Stores, i \in Nat : InProgress(q, i)' = InProgress(q, i)
    BY DEF InProgress
<1> QED
    BY <1>1, <1>2, <1>3, <1>4, Quiet DEF IInv

LEMMA StutterIInv ==
    ASSUME IInv, UNCHANGED vars
    PROVE  IInv'
<1> USE DEF vars
<1>1. TypeOK' /\ Announced'
    BY DEF IInv, TypeOK, Announced
<1>2. \A q \in Stores : Resets(q)' = Resets(q)
    BY DEF Resets
<1>3. Configured'
    BY <1>2 DEF IInv, Configured
<1>4. \A q \in Stores, i \in Nat : InProgress(q, i)' = InProgress(q, i)
    BY DEF InProgress
<1> QED
    BY <1>1, <1>2, <1>3, <1>4, Quiet DEF IInv

----
(* Every step of the scheduler keeps the invariant. *)
THEOREM Invariance == Spec => []IInv
<1>1. IInv /\ [Next]_vars => IInv'
    <2> SUFFICES ASSUME IInv, [Next]_vars PROVE IInv'
        OBVIOUS
    <2>1. ASSUME NEW u \in Updaters, NEW c \in Configs, Update(u, c) PROVE IInv'
        BY <2>1, UpdateIInv
    <2>2. ASSUME NEW u \in Updaters, NEW s \in Stores, UpdateScheduler(u, s) PROVE IInv'
        BY <2>2, UpdateSchedulerIInv
    <2>3. ASSUME NEW r \in Runs, RunTask(r) PROVE IInv'
        <3>1. CASE CanRunTask(r)
            BY <3>1, CanRunTaskIInv
        <3>2. CASE CheckAndMark(r)
            <4>1. run[r].store \in Stores /\ run[r].index \in Nat
                BY <3>2 DEF CheckAndMark, IInv, TypeOK
            <4> QED
                BY <3>2, <4>1, CheckAndMarkIInv
        <3>3. CASE Push(r)
            BY <3>3, PushIInv
        <3>4. CASE MarkTaskCompleted(r)
            <4>1. run[r].store \in Stores /\ run[r].index \in Nat
                BY <3>4 DEF MarkTaskCompleted, IInv, TypeOK
            <4> QED
                BY <3>4, <4>1, MarkTaskCompletedIInv
        <3> QED
            BY <2>3, <3>1, <3>2, <3>3, <3>4 DEF RunTask
    <2>4. ASSUME NEW r \in Runs, Work(r) PROVE IInv'
        BY <2>4, WorkIInv
    <2>5. ASSUME NEW r \in Runs, CronRunDone(r) PROVE IInv'
        BY <2>5, CronRunDoneIInv
    <2>6. ASSUME NEW r \in Runs, NEW s \in Stores, NEW e \in storeSchedulers[s], Tick(r, s, e)
          PROVE  IInv'
        BY <2>6, TickIInv
    <2>7. ASSUME NEW r \in Runs, NEW s \in Stores, NEW i \in KnownIndexes(s), CronRun(r, s, i)
          PROVE  IInv'
        BY <2>7, CronRunIInv
    <2>8. CASE UNCHANGED vars
        BY <2>8, StutterIInv
    <2> QED
        BY <2>1, <2>2, <2>3, <2>4, <2>5, <2>6, <2>7, <2>8 DEF Next
<1> QED
    BY <1>1, InitIInv, PTL DEF Spec

(* The variables of the scheduler keep their types. *)
THEOREM TypeCorrect == Spec => []TypeOK
<1>1. IInv => TypeOK
    BY DEF IInv
<1> QED
    BY <1>1, Invariance, PTL

(* A task has at most as many runs at a time as its store was configured. *)
THEOREM RunsBounded == Spec => []RunsBoundedByUpdates
<1>1. IInv => RunsBoundedByUpdates
    <2> SUFFICES ASSUME IInv, NEW r \in Runs, run[r].pc \in {"push", "waiting"},
                        NEW s, NEW i, s = run[r].store, i = run[r].index
                 PROVE  Cardinality(InProgress(s, i)) <= Cardinality(Resets(s))
        BY DEF RunsBoundedByUpdates
    <2>1. s \in Stores /\ i \in Nat
        BY DEF IInv, TypeOK
    <2>2. \/ Cardinality(InProgress(s, i)) <= Cardinality(Resets(s))
          \/ Cardinality(InProgress(s, i)) = 0
        BY <2>1, Finite DEF IInv, Slack
    <2> QED
        BY <2>2, Finite
<1> QED
    BY <1>1, Invariance, PTL

(* No run of a task is refused unless another one is in progress. *)
THEOREM RefusedNextToARun == Spec => RefusedOnlyNextToARun
<1>1. IInv /\ [Next]_vars =>
          [\A r \in Runs : Refused(r) => InProgress(run[r].store, run[r].index) # {}]_vars
    <2> SUFFICES ASSUME IInv, Next, NEW r \in Runs, Refused(r)
                 PROVE  InProgress(run[r].store, run[r].index) # {}
        OBVIOUS
    <2>1. Marked(r)
        <3> USE DEF Refused, IInv, TypeOK
        <3>1. ASSUME NEW u \in Updaters, NEW c \in Configs, Update(u, c) PROVE FALSE
            BY <3>1 DEF Update
        <3>2. ASSUME NEW u \in Updaters, NEW s \in Stores, UpdateScheduler(u, s) PROVE FALSE
            BY <3>2 DEF UpdateScheduler, Startup
        <3>3. ASSUME NEW q \in Runs, RunTask(q) PROVE Marked(r)
            <4>1. CASE CanRunTask(q)
                BY <4>1 DEF CanRunTask, Goto
            <4>2. CASE CheckAndMark(q)
                BY <4>2 DEF CheckAndMark, Goto
            <4>3. CASE Push(q) \/ MarkTaskCompleted(q)
                BY <4>3 DEF Push, MarkTaskCompleted, Goto
            <4> QED
                BY <3>3, <4>1, <4>2, <4>3 DEF RunTask
        <3>4. ASSUME NEW q \in Runs, Work(q) \/ CronRunDone(q) PROVE FALSE
            BY <3>4 DEF Work, CronRunDone, Goto
        <3>5. ASSUME NEW q \in Runs, NEW s \in Stores, NEW e \in storeSchedulers[s],
                     Tick(q, s, e)
              PROVE  FALSE
            BY <3>5 DEF Tick
        <3>6. ASSUME NEW q \in Runs, NEW s \in Stores, NEW i \in KnownIndexes(s),
                     CronRun(q, s, i)
              PROVE  FALSE
            BY <3>6 DEF CronRun
        <3> QED
            BY <3>1, <3>2, <3>3, <3>4, <3>5, <3>6 DEF Next
    <2>2. run[r].store \in Stores
        BY DEF Refused, IInv, TypeOK
    <2> QED
        BY <2>1, <2>2 DEF Marked, IInv, MarkHasRun
<1> QED
    BY <1>1, Invariance, PTL DEF Spec, RefusedOnlyNextToARun

(* No mark is without a run that will clear it, whatever was reloaded: the part of
   MarkIsCleared that needs no time. *)
THEOREM MarksHaveRuns == Spec => []MarkHasRun
<1>1. IInv => MarkHasRun
    BY DEF IInv
<1> QED
    BY <1>1, Invariance, PTL

(* No run submits its task twice: what Push and CronRun give to the queue is new, so the
   promise of TaskService, which is about tasks submitted once, covers all of them and
   keeps none from being submitted. *)
SubmissionsAreNew == \A r \in Runs : run[r].pc \in {"new", "push"} => outcome[r] = "none"

THEOREM SubmitsOnce == Spec => []SubmissionsAreNew
<1>1. IInv => SubmissionsAreNew
    BY DEF IInv, TypeOK, SubmissionsAreNew
<1> QED
    BY <1>1, Invariance, PTL
====
