---- MODULE TaskQ ----
(***************************************************************************)
(* The in-memory task queue of blank-router, package taskq, as blank-one   *)
(* runs it: goroutines submit tasks and wait for one result each, worker   *)
(* requests take tasks with Shift, give them back with UnShift and close   *)
(* them with Done.  One goroutine, queuing(), moves tasks from the two     *)
(* buffered channels to the unbuffered shiftQueue.                         *)
(*                                                                         *)
(* A step is what runs between two points where a goroutine can block or   *)
(* where another one can see its effect: a channel operation, or a section *)
(* under resultLocker or under the mutex of one task.                      *)
(***************************************************************************)
EXTENDS Naturals, Sequences

CONSTANTS Tasks,            \* every task that may be submitted (one Task object, one ID)
          TimedTasks,       \* those submitted with a timeout
          Shifters,         \* goroutines that call Shift and then UnShift or hand out
          Closers,          \* goroutines that call Done
          Results,          \* what Done may carry
          MainQueueLength,  \* capacity of mainQueue, 1000 in the code
          ExtraQueueLength, \* capacity of extraQueue, 1000 in the code
          None              \* no task, no result

ASSUME TaskQAssumption ==
    /\ TimedTasks \subseteq Tasks
    /\ None \notin Tasks
    /\ None \notin Results
    /\ MainQueueLength \in Nat \ {0}
    /\ ExtraQueueLength \in Nat \ {0}

VARIABLES
    submitter,    \* where the goroutine that submits each task is
    answer,       \* what PushAndGetResult returned to it
    resultChans,  \* tasks whose result channel is still in the map
    rotten,       \* tasks marked by a timed out submitter
    mainQueue,    \* buffered channel of new tasks
    extraQueue,   \* buffered channel of returned tasks
    queuing,      \* the queuing() goroutine: which select it is at, and the task it offers
    shifter,      \* goroutines inside Shift or UnShift
    closer,       \* goroutines inside Done
    out           \* tasks whose ID has been given to a worker

taskqVars == <<submitter, answer, resultChans, rotten, mainQueue, extraQueue,
               queuing, shifter, closer, out>>

----
SubmitterStates == {"new", "pushing", "waiting", "expired", "timedOut", "answered"}

ShifterIdle == [pc |-> "idle", task |-> None]
CloserIdle  == [pc |-> "idle", task |-> None, result |-> None]

TypeOK ==
    /\ submitter \in [Tasks -> SubmitterStates]
    /\ answer \in [Tasks -> Results \cup {None}]
    /\ resultChans \subseteq Tasks
    /\ rotten \subseteq Tasks
    /\ mainQueue \in Seq(Tasks)
    /\ extraQueue \in Seq(Tasks)
    /\ queuing \in [pc : {"first", "second", "offerFirst", "offerSecond"},
                    task : Tasks \cup {None}]
    /\ queuing.pc \in {"offerFirst", "offerSecond"} <=> queuing.task # None
    /\ shifter \in [Shifters -> [pc : {"idle", "receive", "check", "got", "return"},
                                 task : Tasks \cup {None}]]
    /\ \A s \in Shifters :
           shifter[s].pc \in {"check", "got", "return"} <=> shifter[s].task # None
    /\ closer \in [Closers -> [pc : {"idle", "take", "send"},
                               task : Tasks \cup {None},
                               result : Results \cup {None}]]
    /\ \A d \in Closers :
           closer[d].pc \in {"take", "send"} <=> closer[d].task # None
    /\ out \subseteq Tasks

Init ==
    /\ submitter = [t \in Tasks |-> "new"]
    /\ answer = [t \in Tasks |-> None]
    /\ resultChans = {}
    /\ rotten = {}
    /\ mainQueue = <<>>
    /\ extraQueue = <<>>
    /\ queuing = [pc |-> "first", task |-> None]
    /\ shifter = [s \in Shifters |-> ShifterIdle]
    /\ closer = [d \in Closers |-> CloserIdle]
    /\ out = {}

----
(* Submitters: Push and PushAndGetResult. *)

(* A new ID and a result channel, before the task can be seen by anybody. *)
Push(t) ==
    /\ submitter[t] = "new"
    /\ submitter' = [submitter EXCEPT ![t] = "pushing"]
    /\ resultChans' = resultChans \cup {t}
    /\ UNCHANGED <<answer, rotten, mainQueue, extraQueue, queuing, shifter, closer, out>>

(* mainQueue <- t blocks while the channel is full. *)
Enqueue(t) ==
    /\ submitter[t] = "pushing"
    /\ Len(mainQueue) < MainQueueLength
    /\ mainQueue' = Append(mainQueue, t)
    /\ submitter' = [submitter EXCEPT ![t] = "waiting"]
    /\ UNCHANGED <<answer, resultChans, rotten, extraQueue, queuing, shifter, closer, out>>

(* Mutant: the test for timeout == 0 is lost. *)
TimerAlwaysFires(t) ==
    /\ submitter[t] = "waiting"
    /\ submitter' = [submitter EXCEPT ![t] = "expired"]
    /\ UNCHANGED <<answer, resultChans, rotten, mainQueue, extraQueue, queuing, shifter,
                   closer, out>>

(* The select of PushAndGetResult picks its timer: from here on nobody receives
   from the result channel, whose entry stays in the map. *)
TimerFires(t) ==
    /\ t \in TimedTasks
    /\ submitter[t] = "waiting"
    /\ submitter' = [submitter EXCEPT ![t] = "expired"]
    /\ UNCHANGED <<answer, resultChans, rotten, mainQueue, extraQueue, queuing, shifter,
                   closer, out>>

(* UnShift keeps the mutex of its task locked while it waits for room in extraQueue. *)
TaskLocked(t) == \E s \in Shifters : shifter[s] = [pc |-> "return", task |-> t]

MarkRotten(t) ==
    /\ submitter[t] = "expired"
    /\ ~TaskLocked(t)
    /\ rotten' = rotten \cup {t}
    /\ submitter' = [submitter EXCEPT ![t] = "timedOut"]
    /\ UNCHANGED <<answer, resultChans, mainQueue, extraQueue, queuing, shifter, closer, out>>

----
(* The queuing() goroutine. *)

TakeExtra(pc) ==
    /\ extraQueue # <<>>
    /\ queuing' = [pc |-> pc, task |-> Head(extraQueue)]
    /\ extraQueue' = Tail(extraQueue)
    /\ UNCHANGED mainQueue

(* First select: a returned task if there is one, else fall through. *)
FirstSelect ==
    /\ queuing.pc = "first"
    /\ \/ TakeExtra("offerFirst")
       \/ /\ extraQueue = <<>>
          /\ queuing' = [queuing EXCEPT !.pc = "second"]
          /\ UNCHANGED <<mainQueue, extraQueue>>
    /\ UNCHANGED <<submitter, answer, resultChans, rotten, shifter, closer, out>>

(* Second select: whichever channel is ready, no preference. *)
SecondSelect ==
    /\ queuing.pc = "second"
    /\ \/ TakeExtra("offerSecond")
       \/ /\ mainQueue # <<>>
          /\ queuing' = [pc |-> "offerSecond", task |-> Head(mainQueue)]
          /\ mainQueue' = Tail(mainQueue)
          /\ UNCHANGED extraQueue
    /\ UNCHANGED <<submitter, answer, resultChans, rotten, shifter, closer, out>>

----
(* Shift and UnShift. *)

ShiftCall(s) ==
    /\ shifter[s].pc = "idle"
    /\ shifter' = [shifter EXCEPT ![s].pc = "receive"]
    /\ UNCHANGED <<submitter, answer, resultChans, rotten, mainQueue, extraQueue, queuing,
                   closer, out>>

(* The rendezvous on shiftQueue. *)
ShiftReceive(s) ==
    /\ shifter[s].pc = "receive"
    /\ queuing.task # None
    /\ shifter' = [shifter EXCEPT ![s] = [pc |-> "check", task |-> queuing.task]]
    /\ queuing' = [pc |-> IF queuing.pc = "offerFirst" THEN "second" ELSE "first",
                   task |-> None]
    /\ UNCHANGED <<submitter, answer, resultChans, rotten, mainQueue, extraQueue, closer, out>>

(* Mutant: Shift does not look at rotten. *)
ShiftUnchecked(s) ==
    /\ shifter[s].pc = "check"
    /\ shifter' = [shifter EXCEPT ![s].pc = "got"]
    /\ UNCHANGED <<submitter, answer, resultChans, rotten, mainQueue, extraQueue, queuing,
                   closer, out>>

(* A rotten task is dropped here and the loop receives again. *)
ShiftCheck(s) ==
    /\ shifter[s].pc = "check"
    /\ shifter' = [shifter EXCEPT ![s] =
                      IF shifter[s].task \in rotten
                      THEN [pc |-> "receive", task |-> None]
                      ELSE [pc |-> "got", task |-> shifter[s].task]]
    /\ UNCHANGED <<submitter, answer, resultChans, rotten, mainQueue, extraQueue, queuing,
                   closer, out>>

(* Mutant: the caller hands the task out and falls through to UnShift. *)
HandOutAndKeep(s) ==
    /\ shifter[s].pc = "got"
    /\ out' = out \cup {shifter[s].task}
    /\ UNCHANGED <<submitter, answer, resultChans, rotten, mainQueue, extraQueue, queuing,
                   shifter, closer>>

(* The caller of Shift gives the task to its worker. *)
HandOut(s) ==
    /\ shifter[s].pc = "got"
    /\ out' = out \cup {shifter[s].task}
    /\ shifter' = [shifter EXCEPT ![s] = ShifterIdle]
    /\ UNCHANGED <<submitter, answer, resultChans, rotten, mainQueue, extraQueue, queuing,
                   closer>>

(* UnShift: under the mutex of the task, drop it if it is rotten... *)
UnShift(s) ==
    /\ shifter[s].pc = "got"
    /\ shifter' = [shifter EXCEPT ![s] =
                      IF shifter[s].task \in rotten
                      THEN ShifterIdle
                      ELSE [pc |-> "return", task |-> shifter[s].task]]
    /\ UNCHANGED <<submitter, answer, resultChans, rotten, mainQueue, extraQueue, queuing,
                   closer, out>>

(* Mutant: a select with a default drops the task when extraQueue is full. *)
UnShiftOrDrop(s) ==
    /\ shifter[s].pc = "return"
    /\ extraQueue' = IF Len(extraQueue) < ExtraQueueLength
                     THEN Append(extraQueue, shifter[s].task)
                     ELSE extraQueue
    /\ shifter' = [shifter EXCEPT ![s] = ShifterIdle]
    /\ UNCHANGED <<submitter, answer, resultChans, rotten, mainQueue, queuing, closer, out>>

(* ... and else wait for room in extraQueue, the mutex still locked. *)
UnShiftSend(s) ==
    /\ shifter[s].pc = "return"
    /\ Len(extraQueue) < ExtraQueueLength
    /\ extraQueue' = Append(extraQueue, shifter[s].task)
    /\ shifter' = [shifter EXCEPT ![s] = ShifterIdle]
    /\ UNCHANGED <<submitter, answer, resultChans, rotten, mainQueue, queuing, closer, out>>

----
(* Done.  Only somebody who was given the ID of a task calls it. *)

DoneCall(d, t, r) ==
    /\ closer[d].pc = "idle"
    /\ t \in out
    /\ closer' = [closer EXCEPT ![d] = [pc |-> "take", task |-> t, result |-> r]]
    /\ UNCHANGED <<submitter, answer, resultChans, rotten, mainQueue, extraQueue, queuing,
                   shifter, out>>

(* Mutants: the channel is not deleted from the map; the early return is lost
   and the goroutine keeps the task. *)
DoneKeepsChannel(d) ==
    /\ closer[d].pc = "take"
    /\ closer' = [closer EXCEPT ![d] = IF closer[d].task \in resultChans
                                       THEN [closer[d] EXCEPT !.pc = "send"]
                                       ELSE CloserIdle]
    /\ UNCHANGED <<submitter, answer, resultChans, rotten, mainQueue, extraQueue, queuing,
                   shifter, out>>

DoneKeepsTask(d) ==
    /\ closer[d].pc = "take"
    /\ resultChans' = resultChans \ {closer[d].task}
    /\ closer' = [closer EXCEPT ![d].pc = IF closer[d].task \in resultChans
                                          THEN "send" ELSE "idle"]
    /\ UNCHANGED <<submitter, answer, rotten, mainQueue, extraQueue, queuing, shifter, out>>

(* Look the result channel up and delete it, under resultLocker. *)
DoneTake(d) ==
    /\ closer[d].pc = "take"
    /\ resultChans' = resultChans \ {closer[d].task}
    /\ closer' = [closer EXCEPT ![d] = IF closer[d].task \in resultChans
                                       THEN [closer[d] EXCEPT !.pc = "send"]
                                       ELSE CloserIdle]
    /\ UNCHANGED <<submitter, answer, rotten, mainQueue, extraQueue, queuing, shifter, out>>

(* ch <- r on an unbuffered channel: it needs the submitter at its receive. *)
DoneSend(d) ==
    /\ closer[d].pc = "send"
    /\ submitter[closer[d].task] = "waiting"
    /\ submitter' = [submitter EXCEPT ![closer[d].task] = "answered"]
    /\ answer' = [answer EXCEPT ![closer[d].task] = closer[d].result]
    /\ closer' = [closer EXCEPT ![d] = CloserIdle]
    /\ UNCHANGED <<resultChans, rotten, mainQueue, extraQueue, queuing, shifter, out>>

----
Next ==
    \/ \E t \in Tasks : Push(t) \/ Enqueue(t) \/ TimerFires(t) \/ MarkRotten(t)
    \/ FirstSelect
    \/ SecondSelect
    \/ \E s \in Shifters : \/ ShiftCall(s) \/ ShiftReceive(s) \/ ShiftCheck(s)
                           \/ HandOut(s) \/ UnShift(s) \/ UnShiftSend(s)
    \/ \E d \in Closers : \/ \E t \in Tasks, r \in Results : DoneCall(d, t, r)
                          \/ DoneTake(d)
                          \/ DoneSend(d)

Spec == Init /\ [][Next]_taskqVars

----
(* The places a task can be in, each a distinct tag. *)
Places(t) ==
    {<<"main", i>> : i \in {i \in 1..Len(mainQueue) : mainQueue[i] = t}}
        \cup {<<"extra", i>> : i \in {i \in 1..Len(extraQueue) : extraQueue[i] = t}}
        \cup {<<"shifter", s>> : s \in {s \in Shifters : shifter[s].task = t}}
        \cup (IF queuing.task = t THEN {<<"queuing">>} ELSE {})
        \cup (IF t \in out THEN {<<"out">>} ELSE {})

(* A task is in one place at most: no interleaving of queuing(), Shift, UnShift
   and a hand-out copies it, so no two workers are ever given the same task. *)
SingleCustody == \A t \in Tasks : \A p, q \in Places(t) : p = q

(* The queues drop no task that somebody waits for: whoever waits in
   PushAndGetResult has its task in a queue, in a Shift or with a worker. *)
NothingDropped == \A t \in Tasks : submitter[t] = "waiting" => Places(t) # {}

(* One party at most will answer a submitter: the result channel is in the map,
   or one Done has it, or the answer was received.  Whatever Done calls race
   for a task (the worker twice, the worker and the disconnect), the second
   finds no channel and returns. *)
OneResolver ==
    \A t \in Tasks :
        /\ \A d \in Closers :
               closer[d].pc = "send" /\ closer[d].task = t =>
                   /\ t \notin resultChans
                   /\ submitter[t] \in {"waiting", "expired", "timedOut"}
                   /\ \A e \in Closers :
                          closer[e].pc = "send" /\ closer[e].task = t => e = d
        /\ t \in resultChans => submitter[t] \notin {"new", "answered"}
        /\ submitter[t] = "waiting" =>
               t \in resultChans \/ \E d \in Closers : closer[d].pc = "send" /\ closer[d].task = t

(* Done blocks for ever only on a task whose submitter left by its timeout. *)
DoneBlocksOnlyOnTimeout ==
    \A d \in Closers :
        closer[d].pc = "send" /\ submitter[closer[d].task] # "waiting"
            => closer[d].task \in TimedTasks

(* A task that is rotten while it is in a queue, or on its way back to one, is
   never given to a worker afterwards: every path from there leads through the
   check of Shift. *)
RottenInQueue(t) ==
    /\ t \in rotten
    /\ t \notin out
    /\ \A s \in Shifters : shifter[s].task = t => shifter[s].pc = "check"

RottenNeverHandedOut == \A t \in Tasks : [](RottenInQueue(t) => [](t \notin out))

----
(* The queue keeps the promise of TaskService. *)
Outcome(t) ==
    CASE submitter[t] = "new" -> "none"
      [] submitter[t] \in {"pushing", "waiting"} -> "pending"
      [] submitter[t] \in {"expired", "timedOut"} -> "timeout"
      [] submitter[t] = "answered" -> "answered"

Service == INSTANCE TaskService
               WITH outcome <- [t \in Tasks |-> Outcome(t)], started <- out

(* Every step of the channels, locks and goroutines of taskq is a step of the
   abstract service or invisible to it. *)
ImplementsService == Service!Spec
====
