---- MODULE Hub ----
(***************************************************************************)
(* The WAMP hub that the workers connect to (wango), under intranet: the   *)
(* message loop of a connection, which reads one message at a time; calls, *)
(* which it gives to goroutines; and subscriptions, which it handles       *)
(* itself, with the lock of all subscribers of the hub taken.  The handler *)
(* of a subscription to a store waits for a task.  A connection that is    *)
(* lost needs the same lock before its callback can tell taskWatcher.      *)
(*                                                                         *)
(* Who is subscribed to what matters to events only, and is left out.      *)
(***************************************************************************)
EXTENDS Intranet

CONSTANTS Subscribing, \* connections that subscribe to anything (a bound)
          SubTasks     \* tasks that subscriptions to a store may be for

ASSUME HubAssumption ==
    /\ Subscribing \subseteq Conns
    /\ SubTasks \subseteq Tasks \ TimedTasks

VARIABLES
    loop,              \* what the message loop of each connection is at
    subscribersLocker  \* the subscription whose handler holds it: its connection and task

hubVars == <<loop, subscribersLocker>>
allVars == <<vars, hubVars>>

Unlocked   == [conn |-> None, task |-> None]
LoopStates == {"reading", "locking", "handler", "delete", "ended"}

HubTypeOK ==
    /\ IntranetTypeOK
    /\ loop \in [Conns -> LoopStates]
    /\ subscribersLocker \in {Unlocked} \cup [conn : Conns, task : SubTasks]
    /\ \A w \in Conns :
           /\ loop[w] \in {"locking", "handler"} => conn[w] = "open"
           /\ loop[w] = "handler" <=> subscribersLocker.conn = w
           /\ conn[w] = "closed" => loop[w] = "ended"

HubInit ==
    /\ IntranetInit
    /\ loop = [w \in Conns |-> "reading"]
    /\ subscribersLocker = Unlocked

Goto(w, at) == loop' = [loop EXCEPT ![w] = at]

----
(* receive: what a connection sends is read when the message loop is back from what it
   has read before, and its end is noticed there, too. *)

HandleCall(s, w) ==
    /\ loop[w] = "reading"
    /\ GetCall(s, w)
    /\ UNCHANGED hubVars

HandleDone(d, w, t) ==
    /\ loop[w] = "reading"
    /\ DoneRequest(d, w, t)
    /\ UNCHANGED hubVars

(* handleSubscribe and handleUnSubscribe *)
HandleSubscribe(w) ==
    /\ conn[w] = "open" /\ loop[w] = "reading"
    /\ Goto(w, "locking")
    /\ UNCHANGED <<vars, subscribersLocker>>

(* Nothing but the lock to wait for... *)
Subscribed(w) ==
    /\ loop[w] = "locking"
    /\ subscribersLocker = Unlocked
    /\ Goto(w, "reading")
    /\ UNCHANGED <<vars, subscribersLocker>>

(* ... or a store, whose handler keeps the lock until its task is answered. *)
SubStores(w, t) ==
    /\ loop[w] = "locking"
    /\ subscribersLocker = Unlocked
    /\ Push(t)
    /\ subscribersLocker' = [conn |-> w, task |-> t]
    /\ Goto(w, "handler")
    /\ UNCHANGED intranetVars

SubStoresDone(w) ==
    /\ loop[w] = "handler"
    /\ submitter[subscribersLocker.task] = "answered"
    /\ subscribersLocker' = Unlocked
    /\ Goto(w, "reading")
    /\ UNCHANGED vars

----
(* deleteConnection: connected is cleared, then the subscriptions go, then the callback
   is called. *)

LoopEnds(w) ==
    /\ loop[w] = "reading"
    /\ Disconnect(w)
    /\ Goto(w, "delete")
    /\ UNCHANGED subscribersLocker

DeleteSubscriber(w) ==
    /\ loop[w] = "delete"
    /\ subscribersLocker = Unlocked
    /\ Goto(w, "ended")
    /\ UNCHANGED <<vars, subscribersLocker>>

(* Mutant: the callback does not wait for the lock. *)
CloseCBFirst(w) ==
    /\ CloseCallback(w)
    /\ UNCHANGED hubVars

CloseCB(w) ==
    /\ loop[w] = "ended"
    /\ CloseCallback(w)
    /\ UNCHANGED hubVars

----
Inside(A) == A /\ UNCHANGED hubVars

Opens(w) == Inside(Connect(w) \/ OpenCallback(w))

Loop(w) == \/ Subscribed(w) \/ (\E t \in SubTasks : SubStores(w, t)) \/ SubStoresDone(w)
           \/ DeleteSubscriber(w) \/ CloseCB(w)

HubNext ==
    /\ ~panicked
    /\ \/ \E t \in Tasks : Inside(Submitting(t))
       \/ Inside(Queuing)
       \/ \E w \in Conns : Opens(w) \/ LoopEnds(w) \/ Loop(w)
       \/ \E w \in Subscribing : HandleSubscribe(w)
       \/ \E s \in Shifters : Inside(GetStep(s)) \/ \E w \in Conns : HandleCall(s, w)
       \/ \E d \in Closers : Inside(CloseTask(d))
       \/ \E d \in DoneCalls : \/ Inside(DoneRecord(d))
                               \/ \E w \in Conns, t \in Tasks : HandleDone(d, w, t)
       \/ Inside(WatchStep)

HubSpec == HubInit /\ [][HubNext]_allVars

(* The goroutines of the process are scheduled: each connection's, each task.done and
   taskWatcher... *)
Watching ==
    /\ \A w \in Conns : WF_allVars(~panicked /\ (Inside(OpenCallback(w)) \/ Loop(w)))
    /\ \A d \in DoneCalls : WF_allVars(~panicked /\ Inside(CloseTask(d) \/ DoneRecord(d)))
    /\ WF_allVars(~panicked /\ Inside(CloseTask(Watcher) \/ WatchStep))

(* ... and each submitter, the queue's and each task.get.  Nothing else is fair: a worker
   may never ask, never answer and never leave, and a timer may never fire. *)
Waits(t) == (Enqueue(t) \/ MarkRotten(t)) /\ UNCHANGED intranetVars

Fairness ==
    /\ Watching
    /\ \A t \in Tasks : WF_allVars(~panicked /\ Inside(Waits(t)))
    /\ WF_allVars(~panicked /\ Inside(Queuing))
    /\ \A s \in Shifters : WF_allVars(~panicked /\ Inside(GetStep(s)))

WatchedHubSpec == HubSpec /\ Watching
FairHubSpec == HubSpec /\ Fairness

----
(* taskWatcher waits for a submitter that has left by its timeout: for good. *)
WatcherBlocked ==
    /\ closer[Watcher].pc = "send"
    /\ submitter[closer[Watcher].task] # "waiting"

(* A worker that is lost answers its tasks by being lost, however late the loss and the
   hand-outs reach taskWatcher: unless a task is stranded, or taskWatcher died or is blocked
   by a timed out task, its submitter has an answer or its timeout.  Subscriptions to stores
   hold up the disconnects; that they end is up to the workers. *)
Lost(t) ==
    /\ submitter[t] = "waiting"
    /\ \E w \in Conns : conn[w] \in {"closing", "closed"} /\ <<w, t>> \in handed

LostTasksAnswered ==
    []<>(subscribersLocker = Unlocked) =>
        \A t \in Tasks :
            Lost(t) ~> (submitter[t] # "waiting" \/ Stranded(t) \/ WatcherBlocked \/ panicked)

(* "SetSessionCloseCallback sets callback that will called when connection will closed"
   (wango): the callback of a lost worker that has tasks is called. *)
CloseCallbackCalled ==
    \A w \in Conns :
        (conn[w] = "closing" /\ \E t \in Tasks : Recorded(w, t))
            ~> (conn[w] = "closed" \/ panicked)
====
