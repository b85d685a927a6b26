---- MODULE Intranet ----
(***************************************************************************)
(* The worker side of blank-one, intranet/server.go, on top of the task    *)
(* queue: websocket connections of workers, the handlers of task.get,      *)
(* task.done and task.error (one goroutine per call), and taskWatcher, the *)
(* one goroutine that knows which connection runs which task and closes    *)
(* the tasks of a connection that is lost.                                 *)
(*                                                                         *)
(* A connection identifier is never reused (wango draws a new UUID), so a  *)
(* member of Conns connects at most once.                                  *)
(***************************************************************************)
EXTENDS TaskQ

CONSTANTS Conns,        \* worker connections
          Watcher,      \* the taskWatcher goroutine, as a caller of Done
          WatchLength   \* capacity of taskWatchChan, 1000 in the code

DoneCalls == Closers \ {Watcher}   \* goroutines of task.done and task.error

ASSUME IntranetAssumption ==
    /\ None \notin Conns
    /\ Watcher \in Closers
    /\ {"done", "lost"} \subseteq Results
    /\ WatchLength \in Nat \ {0}

VARIABLES
    conn,           \* life of each connection: connected is TRUE in opening and open
    getter,         \* per task.get goroutine: its connection, what Connected() said
    doneCall,       \* per task.done goroutine: its connection and task
    taskWatchChan,  \* buffered channel of taskKeepers
    entries,        \* keys of the map workerTasks
    workerTasks,    \* its values
    watcher,        \* taskWatcher: at its select or closing the tasks of a connection
    handed,         \* what each worker was given, as the worker knows it
    panicked        \* the process died of a write to a nil map

intranetVars == <<conn, getter, doneCall, taskWatchChan, entries, workerTasks, watcher,
                  handed, panicked>>
vars == <<taskqVars, intranetVars>>

----
GetterIdle  == [conn |-> None, connected |-> "unread"]
DoneIdle    == [conn |-> None, task |-> None]
WatcherIdle == [pc |-> "select", conn |-> None, todo |-> {}]
Keepers     == [conn : Conns, task : Tasks, done : BOOLEAN]

IntranetTypeOK ==
    /\ TypeOK
    /\ conn \in [Conns -> {"new", "opening", "open", "closing", "closed"}]
    /\ getter \in [Shifters -> [conn : Conns \cup {None},
                                connected : {"unread", "yes", "no"}]]
    /\ doneCall \in [DoneCalls -> [conn : Conns \cup {None}, task : Tasks \cup {None}]]
    /\ taskWatchChan \in Seq(Keepers)
    /\ entries \subseteq Conns
    /\ workerTasks \in [Conns -> SUBSET Tasks]
    /\ watcher \in [pc : {"select", "closing"}, conn : Conns \cup {None},
                    todo : SUBSET Tasks]
    /\ watcher.pc = "closing" <=> watcher.conn # None
    /\ handed \subseteq Conns \X Tasks
    /\ panicked \in BOOLEAN

IntranetInit ==
    /\ Init
    /\ conn = [w \in Conns |-> "new"]
    /\ getter = [s \in Shifters |-> GetterIdle]
    /\ doneCall = [d \in DoneCalls |-> DoneIdle]
    /\ taskWatchChan = <<>>
    /\ entries = {}
    /\ workerTasks = [w \in Conns |-> {}]
    /\ watcher = WatcherIdle
    /\ handed = {}
    /\ panicked = FALSE

----
(* Connections.  The callbacks meet taskWatcher on unbuffered channels, so they
   wait until it is back at its select. *)

(* Mutant: the open callback runs in a goroutine of its own and nobody waits for it. *)
ConnectUnannounced(w) ==
    /\ conn[w] = "new"
    /\ conn' = [conn EXCEPT ![w] = "open"]
    /\ UNCHANGED <<taskqVars, getter, doneCall, taskWatchChan, entries, workerTasks,
                   watcher, handed, panicked>>

Connect(w) ==
    /\ conn[w] = "new"
    /\ conn' = [conn EXCEPT ![w] = "opening"]
    /\ UNCHANGED <<taskqVars, getter, doneCall, taskWatchChan, entries, workerTasks,
                   watcher, handed, panicked>>

OpenCallback(w) ==
    /\ conn[w] = "opening"
    /\ watcher.pc = "select"
    /\ conn' = [conn EXCEPT ![w] = "open"]
    /\ entries' = entries \cup {w}
    /\ workerTasks' = [workerTasks EXCEPT ![w] = {}]
    /\ UNCHANGED <<taskqVars, getter, doneCall, taskWatchChan, watcher, handed, panicked>>

(* The message loop ends and deleteConnection clears connected. *)
Disconnect(w) ==
    /\ conn[w] = "open"
    /\ conn' = [conn EXCEPT ![w] = "closing"]
    /\ UNCHANGED <<taskqVars, getter, doneCall, taskWatchChan, entries, workerTasks,
                   watcher, handed, panicked>>

(* Mutants: the loop runs over the tasks of every worker; the loop closes nothing. *)
CloseOfEveryWorker(w) ==
    /\ conn[w] = "closing"
    /\ watcher.pc = "select"
    /\ conn' = [conn EXCEPT ![w] = "closed"]
    /\ watcher' = [pc |-> "closing", conn |-> w,
                   todo |-> UNION {workerTasks[v] : v \in Conns}]
    /\ UNCHANGED <<taskqVars, getter, doneCall, taskWatchChan, entries, workerTasks,
                   handed, panicked>>

CloseForgets(w) ==
    /\ conn[w] = "closing"
    /\ watcher.pc = "select"
    /\ conn' = [conn EXCEPT ![w] = "closed"]
    /\ watcher' = [pc |-> "closing", conn |-> w, todo |-> {}]
    /\ UNCHANGED <<taskqVars, getter, doneCall, taskWatchChan, entries, workerTasks,
                   handed, panicked>>

(* A connection with no recorded task keeps its entry in the map. *)
CloseCallback(w) ==
    /\ conn[w] = "closing"
    /\ watcher.pc = "select"
    /\ conn' = [conn EXCEPT ![w] = "closed"]
    /\ watcher' = IF workerTasks[w] = {}
                  THEN watcher
                  ELSE [pc |-> "closing", conn |-> w, todo |-> workerTasks[w]]
    /\ UNCHANGED <<taskqVars, getter, doneCall, taskWatchChan, entries, workerTasks,
                   handed, panicked>>

----
(* task.get: the calls are served concurrently, several of one worker too. *)

GetCall(s, w) ==
    /\ conn[w] = "open"
    /\ getter[s] = GetterIdle
    /\ getter' = [getter EXCEPT ![s].conn = w]
    /\ ShiftCall(s)
    /\ UNCHANGED <<conn, doneCall, taskWatchChan, entries, workerTasks, watcher, handed,
                   panicked>>

GetShift(s) ==
    /\ ShiftReceive(s) \/ ShiftCheck(s)
    /\ UNCHANGED intranetVars

(* if c.Connected(): the answer may be stale when it is used. *)
GetConnected(s) ==
    /\ shifter[s].pc = "got"
    /\ getter[s].connected = "unread"
    /\ getter' = [getter EXCEPT ![s].connected =
                     IF conn[getter[s].conn] = "open" THEN "yes" ELSE "no"]
    /\ UNCHANGED <<taskqVars, conn, doneCall, taskWatchChan, entries, workerTasks, watcher,
                   handed, panicked>>

(* Mutant: the keeper is not sent when taskWatchChan is full. *)
GetRecordOrSkip(s) ==
    /\ getter[s].connected = "yes"
    /\ taskWatchChan' = IF Len(taskWatchChan) < WatchLength
                        THEN Append(taskWatchChan, [conn |-> getter[s].conn,
                                        task |-> shifter[s].task, done |-> FALSE])
                        ELSE taskWatchChan
    /\ HandOut(s)
    /\ handed' = handed \cup {<<getter[s].conn, shifter[s].task>>}
    /\ getter' = [getter EXCEPT ![s] = GetterIdle]
    /\ UNCHANGED <<conn, doneCall, entries, workerTasks, watcher, panicked>>

GetRecord(s) ==
    /\ getter[s].connected = "yes"
    /\ Len(taskWatchChan) < WatchLength
    /\ taskWatchChan' = Append(taskWatchChan, [conn |-> getter[s].conn,
                                               task |-> shifter[s].task, done |-> FALSE])
    /\ HandOut(s)
    /\ handed' = handed \cup {<<getter[s].conn, shifter[s].task>>}
    /\ getter' = [getter EXCEPT ![s] = GetterIdle]
    /\ UNCHANGED <<conn, doneCall, entries, workerTasks, watcher, panicked>>

GetUnShift(s) ==
    /\ getter[s].connected = "no"
    /\ UnShift(s) \/ UnShiftSend(s)
    /\ getter' = IF shifter'[s] = ShifterIdle
                 THEN [getter EXCEPT ![s] = GetterIdle]
                 ELSE getter
    /\ UNCHANGED <<conn, doneCall, taskWatchChan, entries, workerTasks, watcher, handed,
                   panicked>>

----
(* task.done and task.error: Done first, then the keeper.  A worker may send
   either again for a task it already closed, or on the new connection it made
   after it lost the one that it got the task on. *)

DoneRequest(d, w, t) ==
    /\ conn[w] = "open"
    /\ \E v \in Conns : <<v, t>> \in handed /\ (v = w \/ conn[v] \in {"closing", "closed"})
    /\ doneCall[d] = DoneIdle
    /\ doneCall' = [doneCall EXCEPT ![d] = [conn |-> w, task |-> t]]
    /\ DoneCall(d, t, "done")
    /\ UNCHANGED <<conn, getter, taskWatchChan, entries, workerTasks, watcher, handed,
                   panicked>>

CloseTask(d) ==
    /\ DoneTake(d) \/ DoneSend(d)
    /\ UNCHANGED intranetVars

DoneRecord(d) ==
    /\ doneCall[d] # DoneIdle
    /\ closer[d].pc = "idle"
    /\ Len(taskWatchChan) < WatchLength
    /\ taskWatchChan' = Append(taskWatchChan, [conn |-> doneCall[d].conn,
                                               task |-> doneCall[d].task, done |-> TRUE])
    /\ doneCall' = [doneCall EXCEPT ![d] = DoneIdle]
    /\ UNCHANGED <<taskqVars, conn, getter, entries, workerTasks, watcher, handed, panicked>>

----
(* taskWatcher. *)

WatchTask ==
    LET k == Head(taskWatchChan) IN
    /\ watcher.pc = "select"
    /\ taskWatchChan # <<>>
    /\ taskWatchChan' = Tail(taskWatchChan)
    /\ \/ /\ k.done
          /\ workerTasks' = [workerTasks EXCEPT ![k.conn] = @ \ {k.task}]
          /\ UNCHANGED panicked
       \/ /\ ~k.done
          /\ k.conn \in entries
          /\ workerTasks' = [workerTasks EXCEPT ![k.conn] = @ \cup {k.task}]
          /\ UNCHANGED panicked
       \/ /\ ~k.done
          /\ k.conn \notin entries    \* assignment to an entry in a nil map
          /\ panicked' = TRUE
          /\ UNCHANGED workerTasks
    /\ UNCHANGED <<taskqVars, conn, getter, doneCall, entries, watcher, handed>>

WatchClose(t) ==
    /\ watcher.pc = "closing"
    /\ t \in watcher.todo
    /\ watcher' = [watcher EXCEPT !.todo = @ \ {t}]
    /\ DoneCall(Watcher, t, "lost")
    /\ UNCHANGED <<conn, getter, doneCall, taskWatchChan, entries, workerTasks, handed,
                   panicked>>

(* Mutant: the worker variable of the disconnect is not left behind. *)
WatchClosedStale ==
    /\ watcher.pc = "closing"
    /\ watcher.todo = {}
    /\ closer[Watcher].pc = "idle"
    /\ entries' = entries \ {watcher.conn}
    /\ workerTasks' = [workerTasks EXCEPT ![watcher.conn] = {}]
    /\ watcher' = [watcher EXCEPT !.pc = "select"]
    /\ UNCHANGED <<taskqVars, conn, getter, doneCall, taskWatchChan, handed, panicked>>

WatchClosed ==
    /\ watcher.pc = "closing"
    /\ watcher.todo = {}
    /\ closer[Watcher].pc = "idle"
    /\ entries' = entries \ {watcher.conn}
    /\ workerTasks' = [workerTasks EXCEPT ![watcher.conn] = {}]
    /\ watcher' = WatcherIdle
    /\ UNCHANGED <<taskqVars, conn, getter, doneCall, taskWatchChan, handed, panicked>>

----
Submitting(t) ==
    /\ Push(t) \/ Enqueue(t) \/ TimerFires(t) \/ MarkRotten(t)
    /\ UNCHANGED intranetVars

Queuing ==
    /\ FirstSelect \/ SecondSelect
    /\ UNCHANGED intranetVars

ConnStep(w) == Connect(w) \/ OpenCallback(w) \/ Disconnect(w) \/ CloseCallback(w)
GetStep(s)  == GetShift(s) \/ GetConnected(s) \/ GetRecord(s) \/ GetUnShift(s)
WatchStep   == WatchTask \/ (\E t \in Tasks : WatchClose(t)) \/ WatchClosed

IntranetNext ==
    /\ ~panicked
    /\ \/ \E t \in Tasks : Submitting(t)
       \/ Queuing
       \/ \E w \in Conns : ConnStep(w)
       \/ \E s \in Shifters : GetStep(s) \/ \E w \in Conns : GetCall(s, w)
       \/ \E d \in Closers : CloseTask(d)
       \/ \E d \in DoneCalls : \/ DoneRecord(d)
                               \/ \E w \in Conns, t \in Tasks : DoneRequest(d, w, t)
       \/ WatchStep

IntranetSpec == IntranetInit /\ [][IntranetNext]_vars

----
(* taskWatcher always has the entry of a live connection: the map write of
   server.go:247 can meet a nil map only for a connection that is gone. *)
EntryWhileConnected == \A w \in Conns : conn[w] \in {"open", "closing"} => w \in entries

(* "connection with worker lost" is only ever answered for a task of a worker
   whose connection is gone, also when the disconnect of one worker is handled
   while others go on. *)
LostOnlyIfDisconnected ==
    \A t \in Tasks :
        answer[t] = "lost" => \E w \in Conns : conn[w] = "closed" /\ <<w, t>> \in handed

(* Recorded(w, t): taskWatcher knows, or will read in its channel, that w runs t. *)
Recorded(w, t) ==
    \/ t \in workerTasks[w]
    \/ [conn |-> w, task |-> t, done |-> FALSE] \in
           {taskWatchChan[i] : i \in 1..Len(taskWatchChan)}

BeingClosed(t) == \E d \in Closers : closer[d].task = t

(* A task that a worker has and that is still awaited is on record against that
   worker, or some Done is at work on it: whatever the order in which the keepers
   of task.get and task.done reach taskWatcher, no task is forgotten. *)
AwaitedTaskRecorded ==
    ~panicked =>
    \A t \in Tasks :
        submitter[t] = "waiting" /\ t \in out =>
            BeingClosed(t) \/ \E w \in Conns : <<w, t>> \in handed /\ Recorded(w, t)

(* The one way to strand a submitter: task.get saw the connection alive, and its
   keeper reached taskWatcher after the disconnect had been handled. *)
Stranded(t) == \E w \in Conns : conn[w] = "closed" /\ watcher.conn # w /\ Recorded(w, t)

(* What taskWatcher sets out to do at a disconnect, "close all proccessing tasks by this
   worker with error" (server.go:256), and logs at its end, "All workers %s tasks closed"
   (server.go:265): no submitter still waits for a task recorded for a connection whose
   disconnect was handled, also when there was none to close at that moment. *)
AllTasksClosed ==
    \A w \in Conns, t \in Tasks :
        conn[w] = "closed" /\ watcher.pc = "select" /\ t \in workerTasks[w]
            => submitter[t] # "waiting" \/ BeingClosed(t)
====
