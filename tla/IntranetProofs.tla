---- MODULE IntranetProofs ----
(***************************************************************************)
(* Proofs about Intranet, for any number of workers, tasks and goroutines: *)
(* the task queue under the calls of intranet/server.go is the queue of    *)
(* TaskQ, the hub implements what Intranet takes it for, taskWatcher has   *)
(* the entry of every live connection and knows of every task that a       *)
(* worker has, and no worker is blamed for the loss of another.            *)
(***************************************************************************)
EXTENDS Hub, TaskQProofs

(* The handlers drive the queue only through its own operations. *)
LEMMA StepOfQueue == [IntranetNext]_vars => [Next]_taskqVars
<1> SUFFICES ASSUME [IntranetNext]_vars PROVE [Next]_taskqVars
    OBVIOUS
<1> USE IntranetAssumption
<1>1. ASSUME NEW t \in Tasks, Submitting(t) PROVE Next
    BY <1>1 DEF Submitting, Next
<1>2. CASE Queuing
    BY <1>2 DEF Queuing, Next
<1>3. ASSUME NEW w \in Conns, ConnStep(w) PROVE UNCHANGED taskqVars
    BY <1>3 DEF ConnStep, Connect, OpenCallback, Disconnect, CloseCallback, taskqVars
<1>4. ASSUME NEW s \in Shifters, GetStep(s) \/ \E w \in Conns : GetCall(s, w)
      PROVE  [Next]_taskqVars
    <2>1. CASE GetConnected(s)
        BY <2>1 DEF GetConnected, taskqVars
    <2>2. CASE ~GetConnected(s)
        BY <1>4, <2>2 DEF GetStep, GetShift, GetRecord, GetUnShift, GetCall, Next
    <2> QED
        BY <2>1, <2>2
<1>5. ASSUME NEW d \in Closers, CloseTask(d) PROVE Next
    BY <1>5 DEF CloseTask, Next
<1>6. ASSUME NEW d \in DoneCalls, DoneRecord(d) PROVE UNCHANGED taskqVars
    BY <1>6 DEF DoneRecord, taskqVars
<1>7. ASSUME NEW d \in DoneCalls, NEW w \in Conns, NEW t \in Tasks, DoneRequest(d, w, t)
      PROVE  Next
    BY <1>7 DEF DoneCalls, DoneRequest, Next
<1>8. CASE WatchTask \/ WatchClosed
    BY <1>8 DEF WatchTask, WatchClosed, taskqVars
<1>9. ASSUME NEW t \in Tasks, WatchClose(t) PROVE Next
    BY <1>9 DEF WatchClose, Next
<1>10. CASE UNCHANGED vars
    BY <1>10 DEF vars
<1> QED
    BY <1>1, <1>2, <1>3, <1>4, <1>5, <1>6, <1>7, <1>8, <1>9, <1>10
    DEF IntranetNext, WatchStep

(* The composition keeps everything proved of the queue: in particular the workers of
   all connections together are never given one task twice, and the queue loses none. *)
THEOREM QueueInside == IntranetSpec => Spec
<1>1. IntranetInit => Init
    BY DEF IntranetInit
<1> QED
    BY <1>1, StepOfQueue, PTL DEF IntranetSpec, Spec

----
(* Only OpenCallback and WatchClosed touch the entries, and WatchClosed removes that of
   the closed connection that taskWatcher is at. *)
EntriesInv ==
    /\ conn \in [Conns -> {"new", "opening", "open", "closing", "closed"}]
    /\ watcher.pc = "closing" => watcher.conn \in Conns /\ conn[watcher.conn] = "closed"
    /\ EntryWhileConnected

LEMMA EntriesStep == EntriesInv /\ [IntranetNext]_vars => EntriesInv'
<1> SUFFICES ASSUME EntriesInv, [IntranetNext]_vars PROVE EntriesInv'
    OBVIOUS
<1> USE DEF EntriesInv, EntryWhileConnected
<1>1. ASSUME UNCHANGED <<conn, entries, watcher>> PROVE EntriesInv'
    BY <1>1
<1>2. ASSUME NEW t \in Tasks, Submitting(t) PROVE EntriesInv'
    BY <1>2 DEF Submitting, intranetVars
<1>3. CASE Queuing
    BY <1>3 DEF Queuing, intranetVars
<1>4. ASSUME NEW w \in Conns, ConnStep(w) PROVE EntriesInv'
    <2>1. CASE Connect(w) \/ Disconnect(w)
        BY <2>1 DEF Connect, Disconnect
    <2>2. CASE OpenCallback(w)
        BY <2>2 DEF OpenCallback
    <2>3. CASE CloseCallback(w)
        BY <2>3 DEF CloseCallback
    <2> QED
        BY <1>4, <2>1, <2>2, <2>3 DEF ConnStep
<1>5. ASSUME NEW s \in Shifters, GetStep(s) \/ \E w \in Conns : GetCall(s, w) PROVE EntriesInv'
    BY <1>1, <1>5 DEF GetStep, GetShift, GetConnected, GetRecord, GetUnShift, GetCall, intranetVars
<1>6. ASSUME NEW d \in Closers, CloseTask(d) PROVE EntriesInv'
    BY <1>6 DEF CloseTask, intranetVars
<1>7. ASSUME NEW d \in DoneCalls, \/ DoneRecord(d)
                                 \/ \E w \in Conns, t \in Tasks : DoneRequest(d, w, t)
      PROVE  EntriesInv'
    BY <1>7 DEF DoneRecord, DoneRequest
<1>8. CASE WatchTask
    BY <1>8 DEF WatchTask
<1>9. ASSUME NEW t \in Tasks, WatchClose(t) PROVE EntriesInv'
    BY <1>9 DEF WatchClose
<1>10. CASE WatchClosed
    BY <1>10 DEF WatchClosed, WatcherIdle
<1>11. CASE UNCHANGED vars
    BY <1>11 DEF vars, intranetVars
<1> QED
    BY <1>2, <1>3, <1>4, <1>5, <1>6, <1>7, <1>8, <1>9, <1>10, <1>11
    DEF IntranetNext, WatchStep

(* A keeper of a connection that is alive never meets a nil map in taskWatcher. *)
THEOREM LiveConnectionsHaveEntries == IntranetSpec => []EntryWhileConnected
<1>1. IntranetInit => EntriesInv
    BY DEF IntranetInit, EntriesInv, EntryWhileConnected, WatcherIdle
<1>2. EntriesInv => EntryWhileConnected
    BY DEF EntriesInv
<1> QED
    BY <1>1, <1>2, EntriesStep, PTL DEF IntranetSpec

----
(* What taskWatchChan carries. *)
Sent == Range(taskWatchChan)

LEMMA ReceiveRange ==
    ASSUME NEW S, NEW q \in Seq(S), q # <<>>
    PROVE  /\ Head(q) \in S /\ Tail(q) \in Seq(S)
           /\ Range(q) = Range(Tail(q)) \cup {Head(q)}
<1> DEFINE u == Tail(q)
<1>1. /\ Head(q) \in S /\ u \in Seq(S) /\ Len(u) = Len(q) - 1
      /\ \A i \in 1..Len(u) : u[i] = q[i + 1]
    BY HeadTailProperties
<1>2. Len(q) \in Nat \ {0} /\ Head(q) = q[1] /\ DOMAIN q = 1..Len(q)
    OBVIOUS
<1>3. DOMAIN u = 1..Len(u)
    BY <1>1
<1> HIDE DEF u
<1>4. ASSUME NEW y \in Range(u) PROVE y \in Range(q)
    <2>1. PICK i \in 1..Len(u) : y = u[i]
        BY <1>3 DEF Range
    <2>2. i + 1 \in DOMAIN q /\ y = q[i + 1]
        BY <1>1, <1>2, <2>1
    <2> QED
        BY <2>2 DEF Range
<1>5. ASSUME NEW y \in Range(q), y # Head(q) PROVE y \in Range(u)
    <2>1. PICK i \in 1..Len(q) : y = q[i]
        BY <1>2 DEF Range
    <2>2. i - 1 \in 1..Len(u) /\ u[i - 1] = y
        BY <1>1, <1>2, <1>5, <2>1
    <2> QED
        BY <1>3, <2>2 DEF Range
<1>6. Head(q) \in Range(q)
    BY <1>2 DEF Range
<1> QED
    BY <1>1, <1>4, <1>5, <1>6 DEF u

(* The variables of this module, and who is at work on what. *)
Met == {"open", "closing", "closed"}

Handlers ==
    /\ conn \in [Conns -> {"new", "opening"} \cup Met]
    /\ getter \in [Shifters -> [conn : Conns \cup {None},
                                connected : {"unread", "yes", "no"}]]
    /\ \A s \in Shifters :
           IF getter[s].conn = None
           THEN shifter[s].pc = "idle" /\ getter[s].connected = "unread"
           ELSE conn[getter[s].conn] \in Met
    /\ doneCall \in [DoneCalls -> [conn : Conns \cup {None}, task : Tasks \cup {None}]]
    /\ \A d \in DoneCalls : doneCall[d].conn = None <=> doneCall[d].task = None
    /\ handed \subseteq Conns \X Tasks
    /\ \A w \in Conns, t \in Tasks : <<w, t>> \in handed => t \in out /\ conn[w] \in Met

Records ==
    /\ taskWatchChan \in Seq(Keepers)
    /\ entries \subseteq Conns
    /\ workerTasks \in [Conns -> SUBSET Tasks]
    /\ watcher \in [pc : {"select", "closing"}, conn : Conns \cup {None}, todo : SUBSET Tasks]
    /\ watcher.pc = "closing" <=> watcher.conn # None
    /\ panicked \in BOOLEAN
    /\ \A k \in Sent : ~k.done => <<k.conn, k.task>> \in handed
    /\ \A w \in Conns : \A t \in workerTasks[w] : <<w, t>> \in handed
    /\ watcher.pc = "closing" => /\ conn[watcher.conn] = "closed"
                                 /\ \A t \in watcher.todo : <<watcher.conn, t>> \in handed

Served == IInv /\ Handlers /\ Records

LEMMA ServedInit == IntranetInit => Served
<1> SUFFICES ASSUME IntranetInit PROVE Served
    OBVIOUS
<1>1. IInv
    BY InitIInv DEF IntranetInit
<1>2. Handlers
    BY IntranetAssumption DEF IntranetInit, Init, Handlers, ShifterIdle, GetterIdle, DoneIdle, Met
<1>3. Sent = {}
    BY DEF IntranetInit, Sent, Range
<1>4. Records
    <2>1. taskWatchChan \in Seq(Keepers) /\ workerTasks \in [Conns -> SUBSET Tasks]
        BY DEF IntranetInit
    <2> QED
        BY <1>3, <2>1 DEF IntranetInit, Records, WatcherIdle
<1> QED
    BY <1>1, <1>2, <1>4 DEF Served

(* Steps that change nothing but the queue, and goroutines of task.get not at all or
   without entering or leaving Shift. *)
LEMMA ServedQueueStep ==
    ASSUME Served, IInv', UNCHANGED intranetVars, out' = out,
           \A s \in Shifters : shifter[s].pc = "idle" => shifter'[s].pc = "idle"
    PROVE  Served'
BY DEF Served, Handlers, Records, Sent, intranetVars

LEMMA ServedConnStep == ASSUME Served, IInv', NEW w \in Conns, ConnStep(w) PROVE Served'
<1> USE DEF Served, Handlers, Records, Sent, Met
<1>1. CASE Connect(w) \/ Disconnect(w)
    <2>1. /\ UNCHANGED <<taskqVars, getter, doneCall, taskWatchChan, entries, workerTasks,
                        watcher, handed, panicked>>
          /\ \/ conn[w] = "new" /\ conn' = [conn EXCEPT ![w] = "opening"]
             \/ conn[w] = "open" /\ conn' = [conn EXCEPT ![w] = "closing"]
        BY <1>1 DEF Connect, Disconnect
    <2>2. \A v \in Conns : conn[v] \in Met => conn'[v] \in Met
        BY <2>1
    <2> QED
        BY <2>1, <2>2 DEF taskqVars
<1>2. CASE OpenCallback(w)
    BY <1>2 DEF OpenCallback, taskqVars
<1>3. CASE CloseCallback(w)
    BY <1>3, IntranetAssumption DEF CloseCallback, taskqVars
<1> QED
    BY <1>1, <1>2, <1>3 DEF ConnStep

LEMMA ServedGetStep ==
    ASSUME Served, IInv', NEW s \in Shifters, GetStep(s) \/ \E w \in Conns : GetCall(s, w)
    PROVE  Served'
<1> USE IntranetAssumption DEF Served, Met
<1>0. shifter \in [Shifters -> [pc : {"idle", "receive", "check", "got", "return"},
                                task : Tasks \cup {None}]]
    BY DEF IInv, TypeOK
<1>1. ASSUME NEW w \in Conns, GetCall(s, w) PROVE Served'
    <2>1. Handlers'
        BY <1>0, <1>1 DEF Handlers, GetCall, ShiftCall, GetterIdle
    <2>2. Records'
        BY <1>1 DEF Records, Sent, GetCall
    <2> QED
        BY <2>1, <2>2
<1>2. CASE GetShift(s)
    <2>1. out' = out /\ \A r \in Shifters : shifter[r].pc = "idle" => shifter'[r].pc = "idle"
        BY <1>0, <1>2 DEF GetShift, ShiftReceive, ShiftCheck
    <2> QED
        BY <1>2, <2>1, ServedQueueStep DEF GetShift
<1>3. CASE GetConnected(s)
    <2>1. Handlers'
        BY <1>3 DEF Handlers, GetConnected, taskqVars
    <2>2. Records'
        BY <1>3 DEF Records, Sent, GetConnected
    <2> QED
        BY <2>1, <2>2
<1>4. CASE GetRecord(s)
    <2> DEFINE w == getter[s].conn
               t == shifter[s].task
               k == [conn |-> w, task |-> t, done |-> FALSE]
    <2>1. w \in Conns /\ conn[w] \in Met
        BY <1>4 DEF Handlers, GetRecord
    <2>2. t \in Tasks /\ shifter[s].pc = "got"
        BY <1>0, <1>4 DEF GetRecord, HandOut, IInv, TypeOK
    <2>3. k \in Keepers
        BY <2>1, <2>2 DEF Keepers
    <2>4. taskWatchChan' = Append(taskWatchChan, k) /\ handed' = handed \cup {<<w, t>>}
        BY <1>4 DEF GetRecord
    <2>5. taskWatchChan' \in Seq(Keepers) /\ Sent' = Sent \cup {k}
        <3>1. taskWatchChan \in Seq(Keepers)
            BY DEF Records
        <3>2. /\ Append(taskWatchChan, k) \in Seq(Keepers)
              /\ Range(Append(taskWatchChan, k)) = Range(taskWatchChan) \cup {k}
            <4> HIDE DEF k
            <4> QED
                BY ONLY <2>3, <3>1, AppendRange
        <3> QED
            BY <2>4, <3>2 DEF Sent
    <2>6. Handlers'
        BY <1>0, <1>4, <2>1, <2>2, <2>4 DEF Handlers, GetRecord, HandOut, GetterIdle, ShifterIdle
    <2>7. Records'
        BY <1>4, <2>4, <2>5 DEF Records, GetRecord
    <2> QED
        BY <2>6, <2>7
<1>5. CASE GetUnShift(s)
    <2>1. Handlers'
        BY <1>0, <1>5 DEF Handlers, GetUnShift, UnShift, UnShiftSend, GetterIdle, ShifterIdle
    <2>2. Records'
        BY <1>5 DEF Records, Sent, GetUnShift
    <2> QED
        BY <2>1, <2>2
<1> QED
    BY <1>1, <1>2, <1>3, <1>4, <1>5 DEF GetStep

LEMMA ServedDoneStep ==
    ASSUME Served, IInv', NEW d \in DoneCalls,
           DoneRecord(d) \/ \E w \in Conns, t \in Tasks : DoneRequest(d, w, t)
    PROVE  Served'
<1> USE IntranetAssumption DEF Served
<1>1. ASSUME NEW w \in Conns, NEW t \in Tasks, DoneRequest(d, w, t) PROVE Served'
    <2>1. Handlers'
        <3>1. doneCall' = [doneCall EXCEPT ![d] = [conn |-> w, task |-> t]]
            BY <1>1 DEF DoneRequest
        <3>2. \A e \in DoneCalls : doneCall'[e].conn = None <=> doneCall'[e].task = None
            BY <3>1, TaskQAssumption DEF Handlers
        <3>3. doneCall' \in [DoneCalls -> [conn : Conns \cup {None}, task : Tasks \cup {None}]]
            BY <3>1 DEF Handlers
        <3> QED
            BY <1>1, <3>2, <3>3 DEF Handlers, DoneRequest, DoneCall
    <2>2. Records'
        BY <1>1 DEF Records, Sent, DoneRequest
    <2> QED
        BY <2>1, <2>2
<1>2. CASE DoneRecord(d)
    <2> DEFINE k == [conn |-> doneCall[d].conn, task |-> doneCall[d].task, done |-> TRUE]
    <2>1. k \in Keepers
        BY <1>2 DEF Handlers, DoneRecord, DoneIdle, Keepers
    <2>2. taskWatchChan' \in Seq(Keepers) /\ Sent' = Sent \cup {k}
        <3>1. taskWatchChan \in Seq(Keepers) /\ taskWatchChan' = Append(taskWatchChan, k)
            BY <1>2 DEF Records, DoneRecord
        <3>2. /\ Append(taskWatchChan, k) \in Seq(Keepers)
              /\ Range(Append(taskWatchChan, k)) = Range(taskWatchChan) \cup {k}
            <4> HIDE DEF k
            <4> QED
                BY ONLY <2>1, <3>1, AppendRange
        <3> QED
            BY <3>1, <3>2 DEF Sent
    <2>3. Handlers'
        BY <1>2 DEF Handlers, DoneRecord, DoneIdle, taskqVars
    <2>4. Records'
        BY <1>2, <2>2 DEF Records, DoneRecord
    <2> QED
        BY <2>3, <2>4
<1> QED
    BY <1>1, <1>2

LEMMA ServedWatchStep == ASSUME Served, IInv', WatchStep PROVE Served'
<1> USE IntranetAssumption DEF Served
<1>1. CASE WatchTask
    <2> DEFINE k == Head(taskWatchChan)
    <2>1. /\ k \in Keepers /\ k \in Sent /\ taskWatchChan' \in Seq(Keepers)
          /\ Sent = Sent' \cup {k}
        BY <1>1, ReceiveRange DEF Records, Sent, WatchTask
    <2>2. Handlers'
        BY <1>1 DEF Handlers, WatchTask, taskqVars
    <2>3. Records'
        <3>1. /\ watcher.pc = "select" /\ UNCHANGED <<entries, watcher, handed, conn>>
              /\ panicked' \in BOOLEAN
            BY <1>1 DEF Records, WatchTask
        <3>2. k.conn \in Conns /\ k.task \in Tasks /\ k.done \in BOOLEAN
            BY <2>1 DEF Keepers
        <3>3. \/ workerTasks' = [workerTasks EXCEPT ![k.conn] = @ \ {k.task}]
              \/ ~k.done /\ workerTasks' = [workerTasks EXCEPT ![k.conn] = @ \cup {k.task}]
              \/ workerTasks' = workerTasks
            BY <1>1 DEF WatchTask
        <3>4. ~k.done => <<k.conn, k.task>> \in handed
            BY <2>1 DEF Records
        <3> HIDE DEF k
        <3>5. /\ workerTasks' \in [Conns -> SUBSET Tasks]
              /\ \A w \in Conns : \A t \in workerTasks'[w] : <<w, t>> \in handed
            BY <3>2, <3>3, <3>4 DEF Records
        <3> QED
            BY <2>1, <3>1, <3>5 DEF Records
    <2> QED
        BY <2>2, <2>3
<1>2. ASSUME NEW t \in Tasks, WatchClose(t) PROVE Served'
    <2>1. Handlers'
        BY <1>2 DEF Handlers, WatchClose, DoneCall
    <2>2. Records'
        BY <1>2 DEF Records, Sent, WatchClose
    <2> QED
        BY <2>1, <2>2
<1>3. CASE WatchClosed
    <2>1. Handlers'
        BY <1>3 DEF Handlers, WatchClosed, taskqVars
    <2>2. Records'
        BY <1>3 DEF Records, Sent, WatchClosed, WatcherIdle
    <2> QED
        BY <2>1, <2>2
<1> QED
    BY <1>1, <1>2, <1>3 DEF WatchStep

LEMMA ServedStep == Served /\ [IntranetNext]_vars => Served'
<1> SUFFICES ASSUME Served, [IntranetNext]_vars PROVE Served'
    OBVIOUS
<1>0. IInv'
    BY StepOfQueue, NextIInv DEF Served
<1>1. ASSUME NEW t \in Tasks, Submitting(t) PROVE Served'
    BY <1>0, <1>1, ServedQueueStep
    DEF Submitting, Push, Enqueue, TimerFires, MarkRotten
<1>2. CASE Queuing
    BY <1>0, <1>2, ServedQueueStep DEF Queuing, FirstSelect, SecondSelect
<1>3. ASSUME NEW w \in Conns, ConnStep(w) PROVE Served'
    BY <1>0, <1>3, ServedConnStep
<1>4. ASSUME NEW s \in Shifters, GetStep(s) \/ \E w \in Conns : GetCall(s, w) PROVE Served'
    BY <1>0, <1>4, ServedGetStep
<1>5. ASSUME NEW d \in Closers, CloseTask(d) PROVE Served'
    BY <1>0, <1>5, ServedQueueStep DEF CloseTask, DoneTake, DoneSend
<1>6. ASSUME NEW d \in DoneCalls, \/ DoneRecord(d)
                                 \/ \E w \in Conns, t \in Tasks : DoneRequest(d, w, t)
      PROVE  Served'
    BY <1>0, <1>6, ServedDoneStep
<1>7. CASE WatchStep
    BY <1>0, <1>7, ServedWatchStep
<1>8. CASE UNCHANGED vars
    BY <1>0, <1>8, ServedQueueStep DEF vars, taskqVars
<1> QED
    BY <1>1, <1>2, <1>3, <1>4, <1>5, <1>6, <1>7, <1>8 DEF IntranetNext

LEMMA ServedAlways == IntranetSpec => []Served
BY ServedInit, ServedStep, PTL DEF IntranetSpec

(* The variables of the worker server keep their types. *)
THEOREM IntranetTypeCorrect == IntranetSpec => []IntranetTypeOK
<1>1. Served => IntranetTypeOK
    BY DEF Served, IInv, Handlers, Records, Met, IntranetTypeOK
<1> QED
    BY <1>1, ServedAlways, PTL

----
(* A task is blamed on the loss of a worker that had it. *)
Blamed(t) == \E w \in Conns : conn[w] = "closed" /\ <<w, t>> \in handed

Blames ==
    /\ \A d \in Closers : closer[d].result = "lost" => Blamed(closer[d].task)
    /\ \A t \in Tasks : answer[t] = "lost" => Blamed(t)

LEMMA BlamesStep == Served /\ Blames /\ [IntranetNext]_vars => Blames'
<1> SUFFICES ASSUME Served, Blames, [IntranetNext]_vars PROVE Blames'
    OBVIOUS
<1> USE TaskQAssumption, IntranetAssumption
<1>0. /\ closer \in [Closers -> [pc : {"idle", "take", "send"}, task : Tasks \cup {None},
                                 result : Results \cup {None}]]
      /\ answer \in [Tasks -> Results \cup {None}]
      /\ \A d \in Closers : closer[d].pc \in {"take", "send"} <=> closer[d].task # None
    BY DEF Served, IInv, TypeOK
(* Nobody is connected again, and nothing handed out is taken back. *)
<1>1. \A t : Blamed(t) => Blamed(t)'
    <2>1. handed \subseteq handed'
        BY DEF IntranetNext, Submitting, Queuing, ConnStep, GetStep, GetShift, CloseTask, WatchStep,
           Connect, OpenCallback, Disconnect, CloseCallback, GetConnected, GetRecord, GetUnShift,
           GetCall, DoneRecord, DoneRequest, WatchTask, WatchClose, WatchClosed, vars, intranetVars
    <2>2. \A w \in Conns : conn[w] = "closed" => conn'[w] = "closed"
        <3>1. ASSUME NEW v \in Conns, ConnStep(v)
              PROVE  \A w \in Conns : conn[w] = "closed" => conn'[w] = "closed"
            BY <3>1 DEF Served, Handlers, ConnStep, Connect, OpenCallback, Disconnect, CloseCallback
        <3>2. CASE ~\E v \in Conns : ConnStep(v)
            BY <3>2 DEF IntranetNext, Submitting, Queuing, GetStep, GetShift, CloseTask, WatchStep,
               GetConnected, GetRecord, GetUnShift,
               GetCall, DoneRecord, DoneRequest, WatchTask, WatchClose, WatchClosed, vars, intranetVars
        <3> QED
            BY <3>1, <3>2
    <2> QED
        BY <2>1, <2>2 DEF Blamed
<1>2. ASSUME UNCHANGED <<closer, answer>> PROVE Blames'
    BY <1>1, <1>2 DEF Blames
<1> HIDE DEF Blamed
<1>3. ASSUME NEW d \in Closers, CloseTask(d) PROVE Blames'
    <2>1. CASE DoneTake(d)
        BY <1>0, <1>1, <2>1 DEF Blames, DoneTake, CloserIdle
    <2>2. CASE DoneSend(d)
        BY <1>0, <1>1, <2>2 DEF Blames, DoneSend, CloserIdle
    <2> QED
        BY <1>3, <2>1, <2>2 DEF CloseTask
<1>4. ASSUME NEW d \in DoneCalls, NEW w \in Conns, NEW t \in Tasks, DoneRequest(d, w, t)
      PROVE  Blames'
    BY <1>0, <1>1, <1>4 DEF Blames, DoneRequest, DoneCall, DoneCalls
<1>5. ASSUME NEW t \in Tasks, WatchClose(t) PROVE Blames'
    <2>1. Blamed(t)
        BY <1>5 DEF WatchClose, Served, Records, Blamed
    <2> QED
        BY <1>0, <1>1, <1>5, <2>1 DEF Blames, WatchClose, DoneCall
<1>6. CASE \/ \E t \in Tasks : Submitting(t)
           \/ Queuing
           \/ \E w \in Conns : ConnStep(w)
           \/ \E s \in Shifters : GetStep(s) \/ \E w \in Conns : GetCall(s, w)
           \/ \E d \in DoneCalls : DoneRecord(d)
           \/ WatchTask \/ WatchClosed
           \/ UNCHANGED vars
    <2>1. UNCHANGED <<closer, answer>>
        BY <1>6 DEF Submitting, Push, Enqueue, TimerFires, MarkRotten, Queuing, FirstSelect,
           SecondSelect, ConnStep, Connect, OpenCallback, Disconnect, CloseCallback, GetStep,
           GetShift, ShiftReceive, ShiftCheck, GetConnected, GetRecord, HandOut, GetUnShift,
           UnShift, UnShiftSend, GetCall, ShiftCall, DoneRecord, WatchTask, WatchClosed, vars,
           taskqVars
    <2> QED
        BY <1>2, <2>1
<1> QED
    BY <1>3, <1>4, <1>5, <1>6 DEF IntranetNext, WatchStep

(* "Connection with worker lost" is only answered for a task of a worker that is gone. *)
THEOREM NoFalseLoss == IntranetSpec => []LostOnlyIfDisconnected
<1>1. IntranetInit => Blames
    BY TaskQAssumption, IntranetAssumption DEF IntranetInit, Init, Blames, CloserIdle
<1>2. Blames => LostOnlyIfDisconnected
    BY DEF Blames, Blamed, LostOnlyIfDisconnected
<1> QED
    BY <1>1, <1>2, BlamesStep, ServedAlways, PTL DEF IntranetSpec

----
(* A task that nobody waits for any more, or that some Done is about to answer. *)
Settled(t) ==
    /\ t \in out
    /\ \/ submitter[t] # "waiting"
       \/ \E d \in Closers : closer[d].pc = "send" /\ closer[d].task = t

AtWork(d, t) == closer[d].pc # "idle" /\ closer[d].task = t

(* Once settled, a task stays so; and a Done leaves its task settled. *)
LEMMA Settles ==
    ASSUME IInv, IInv', [Next]_taskqVars
    PROVE  /\ \A t \in Tasks : Settled(t) => Settled(t)'
           /\ \A d \in Closers, t \in Tasks : AtWork(d, t) => AtWork(d, t)' \/ Settled(t)'
<1> USE TaskQAssumption
<1>0. /\ closer \in [Closers -> [pc : {"idle", "take", "send"}, task : Tasks \cup {None},
                                 result : Results \cup {None}]]
      /\ submitter \in [Tasks -> SubmitterStates]
      /\ \A d \in Closers : closer[d].pc \in {"take", "send"} <=> closer[d].task # None
      /\ \A t \in out : submitter[t] \notin {"new", "pushing"}
      /\ \A d \in Closers : closer[d].task # None => closer[d].task \in out
      /\ out \subseteq Tasks
    BY DEF IInv, TypeOK, Journey, Somewhere
<1>1. ASSUME UNCHANGED <<submitter, closer>>, out \subseteq out'
      PROVE  /\ \A t \in Tasks : Settled(t) => Settled(t)'
             /\ \A d \in Closers, t \in Tasks : AtWork(d, t) => AtWork(d, t)' \/ Settled(t)'
    BY <1>1 DEF Settled, AtWork
<1>2. ASSUME NEW u \in Tasks, Push(u) \/ Enqueue(u) \/ TimerFires(u) \/ MarkRotten(u)
      PROVE  /\ \A t \in Tasks : Settled(t) => Settled(t)'
             /\ \A d \in Closers, t \in Tasks : AtWork(d, t) => AtWork(d, t)' \/ Settled(t)'
    BY <1>0, <1>2 DEF Settled, AtWork, Push, Enqueue, TimerFires, MarkRotten
<1>3. CASE \/ FirstSelect \/ SecondSelect
           \/ \E s \in Shifters : \/ ShiftCall(s) \/ ShiftReceive(s) \/ ShiftCheck(s)
                                  \/ HandOut(s) \/ UnShift(s) \/ UnShiftSend(s)
           \/ UNCHANGED taskqVars
    <2>1. UNCHANGED <<submitter, closer>> /\ out \subseteq out'
        BY <1>3 DEF FirstSelect, SecondSelect, ShiftCall, ShiftReceive, ShiftCheck, HandOut, UnShift,
           UnShiftSend, taskqVars
    <2> QED
        BY <1>1, <2>1
<1>4. ASSUME NEW e \in Closers, NEW u \in Tasks, NEW r \in Results, DoneCall(e, u, r)
      PROVE  /\ \A t \in Tasks : Settled(t) => Settled(t)'
             /\ \A d \in Closers, t \in Tasks : AtWork(d, t) => AtWork(d, t)' \/ Settled(t)'
    BY <1>0, <1>4 DEF Settled, AtWork, DoneCall
<1>5. ASSUME NEW e \in Closers, DoneTake(e)
      PROVE  /\ \A t \in Tasks : Settled(t) => Settled(t)'
             /\ \A d \in Closers, t \in Tasks : AtWork(d, t) => AtWork(d, t)' \/ Settled(t)'
    <2>0. PICK u \in Tasks : u = closer[e].task
        BY <1>0, <1>5 DEF DoneTake
    <2>1. u \in out /\ u \notin resultChans' /\ UNCHANGED <<submitter, out>>
        BY <1>0, <1>5, <2>0, TaskQAssumption DEF DoneTake
    <2>2. \A d \in Closers : d # e => closer'[d] = closer[d]
        BY <1>0, <1>5 DEF DoneTake
    <2>3. Settled(u)'
        BY <2>1 DEF Settled, IInv, OneResolver
    <2>4. closer[e].pc = "take"
        BY <1>5 DEF DoneTake
    <2> QED
        BY <2>0, <2>1, <2>2, <2>3, <2>4 DEF Settled, AtWork
<1>6. ASSUME NEW e \in Closers, DoneSend(e)
      PROVE  /\ \A t \in Tasks : Settled(t) => Settled(t)'
             /\ \A d \in Closers, t \in Tasks : AtWork(d, t) => AtWork(d, t)' \/ Settled(t)'
    <2> DEFINE u == closer[e].task
    <2>1. u \in Tasks /\ u \in out /\ out' = out
        BY <1>0, <1>6 DEF DoneSend
    <2>2. \A d \in Closers : d # e => closer'[d] = closer[d]
        BY <1>0, <1>6 DEF DoneSend
    <2>3. /\ submitter'[u] = "answered"
          /\ \A t \in Tasks : t # u => submitter'[t] = submitter[t]
        BY <1>0, <1>6, <2>1 DEF DoneSend
    <2> QED
        BY <2>1, <2>2, <2>3 DEF Settled, AtWork
<1> QED
    BY <1>2, <1>3, <1>4, <1>5, <1>6 DEF Next

Unforgotten ==
    /\ \A k \in Sent : k.done => Settled(k.task)
    /\ \A d \in DoneCalls : doneCall[d] # DoneIdle =>
           AtWork(d, doneCall[d].task) \/ Settled(doneCall[d].task)
    /\ watcher.pc = "closing" =>
           \A t \in workerTasks[watcher.conn] :
               t \in watcher.todo \/ AtWork(Watcher, t) \/ Settled(t)
    /\ panicked \/ \A t \in out : \/ Settled(t)
                                  \/ \E w \in Conns : <<w, t>> \in handed /\ Recorded(w, t)

LEMMA SentTasks == ASSUME Served PROVE \A k \in Sent : k.task \in Tasks
<1>1. /\ \A i \in 1..Len(taskWatchChan) : taskWatchChan[i] \in Keepers
      /\ DOMAIN taskWatchChan = 1..Len(taskWatchChan)
    BY DEF Served, Records
<1>2. Sent \subseteq Keepers
    BY <1>1 DEF Sent, Range
<1> QED
    BY <1>2 DEF Keepers

LEMMA SentIsRange ==
    ASSUME Served
    PROVE  \A w \in Conns, t \in Tasks :
               Recorded(w, t) <=> \/ t \in workerTasks[w]
                                  \/ [conn |-> w, task |-> t, done |-> FALSE] \in Sent
<1>1. DOMAIN taskWatchChan = 1..Len(taskWatchChan)
    BY DEF Served, Records
<1> QED
    BY <1>1 DEF Recorded, Sent, Range

LEMMA UnforgottenKept ==
    ASSUME Served, Served', Unforgotten, [Next]_taskqVars,
           UNCHANGED <<taskWatchChan, doneCall, workerTasks, watcher, handed, panicked, out>>
    PROVE  Unforgotten'
<1>1. /\ \A t \in Tasks : Settled(t) => Settled(t)'
      /\ \A d \in Closers, t \in Tasks : AtWork(d, t) => AtWork(d, t)' \/ Settled(t)'
    BY Settles DEF Served
<1>2. \A k \in Sent : k.task \in Tasks
    BY SentTasks
<1>3. Sent' = Sent /\ \A w, t : Recorded(w, t)' = Recorded(w, t)
    BY DEF Sent, Recorded
<1>4. \A d \in DoneCalls : doneCall[d] # DoneIdle => doneCall[d].task \in Tasks
    BY DEF Served, Handlers, DoneIdle
<1>5. \A t \in out : t \in Tasks
    BY DEF Served, IInv, TypeOK
<1>6. watcher.pc = "closing" => \A t \in workerTasks[watcher.conn] : t \in Tasks
    BY DEF Served, Records
<1>7. Watcher \in Closers /\ DoneCalls \subseteq Closers
    BY IntranetAssumption DEF DoneCalls
<1> QED
    BY <1>1, <1>2, <1>3, <1>4, <1>5, <1>6, <1>7 DEF Unforgotten

(* taskWatcher reads a keeper: one of task.done takes a settled task off the record. *)
LEMMA UnforgottenWatchTask ==
    ASSUME Served, Served', Unforgotten, WatchTask
    PROVE  Unforgotten'
<1> USE IntranetAssumption
<1> PICK k \in Keepers : k = Head(taskWatchChan)
    BY ReceiveRange DEF WatchTask, Served, Records
<1>1. k \in Sent /\ Sent = Sent' \cup {k}
    BY ReceiveRange DEF WatchTask, Served, Records, Sent
<1>2. /\ UNCHANGED <<submitter, closer, out, doneCall, watcher, handed>>
      /\ watcher.pc = "select"
    BY DEF WatchTask, taskqVars
<1>3. \A t : Settled(t)' = Settled(t) /\ \A d : AtWork(d, t)' = AtWork(d, t)
    BY <1>2 DEF Settled, AtWork
<1>4. k.conn \in Conns /\ k.task \in Tasks /\ k.done \in BOOLEAN
    BY DEF Keepers
<1>5. ASSUME NEW w \in Conns, NEW t \in Tasks, Recorded(w, t), ~Recorded(w, t)'
      PROVE  Settled(t) \/ panicked'
    <2>1. \/ t \in workerTasks[w]
          \/ [conn |-> w, task |-> t, done |-> FALSE] \in Sent
        BY <1>5, SentIsRange
    <2>2. t \notin workerTasks'[w] /\ [conn |-> w, task |-> t, done |-> FALSE] \notin Sent'
        <3>1. \A v \in Conns, u \in Tasks :
                  Recorded(v, u)' <=> \/ u \in workerTasks'[v]
                                      \/ [conn |-> v, task |-> u, done |-> FALSE] \in Sent'
            <4>1. DOMAIN taskWatchChan' = 1..Len(taskWatchChan')
                BY DEF Served, Records
            <4> QED
                BY <4>1 DEF Recorded, Sent, Range
        <3> QED
            BY <1>5, <3>1
    <2>3. workerTasks \in [Conns -> SUBSET Tasks]
        BY DEF Served, Records
    <2>4. CASE t \in workerTasks[w]
        <3>1. k.done /\ k.conn = w /\ k.task = t
            BY <1>4, <2>2, <2>3, <2>4 DEF WatchTask
        <3> QED
            BY <1>1, <3>1 DEF Unforgotten
    <2>5. CASE [conn |-> w, task |-> t, done |-> FALSE] \in Sent
        <3>1. k.conn = w /\ k.task = t /\ ~k.done
            BY <1>1, <2>2, <2>5
        <3>2. panicked' \/ workerTasks' = [workerTasks EXCEPT ![w] = @ \cup {t}]
            BY <3>1 DEF WatchTask
        <3> QED
            BY <2>2, <2>3, <3>2
    <2> QED
        BY <2>1, <2>4, <2>5
<1>6. \A t \in out : t \in Tasks
    BY DEF Served, IInv, TypeOK
<1>7. panicked => panicked'
    BY DEF WatchTask, Served, Records
<1> QED
    BY <1>1, <1>2, <1>3, <1>5, <1>6, <1>7 DEF Unforgotten

(* taskWatcher is through with a connection: what it forgets is settled. *)
LEMMA UnforgottenWatchClosed ==
    ASSUME Served, Unforgotten, WatchClosed
    PROVE  Unforgotten'
<1> USE IntranetAssumption
<1>1. /\ UNCHANGED <<submitter, closer, out, doneCall, handed, taskWatchChan, panicked>>
      /\ watcher.pc = "closing" /\ watcher.todo = {} /\ closer[Watcher].pc = "idle"
      /\ workerTasks' = [workerTasks EXCEPT ![watcher.conn] = {}]
      /\ watcher' = WatcherIdle
    BY DEF WatchClosed, taskqVars
<1>2. /\ \A t : Settled(t)' = Settled(t) /\ \A d : AtWork(d, t)' = AtWork(d, t)
      /\ Sent' = Sent /\ WatcherIdle.pc # "closing"
    BY <1>1 DEF Settled, AtWork, Sent, WatcherIdle
<1>3. \A t \in workerTasks[watcher.conn] : Settled(t)
    BY <1>1 DEF Unforgotten, AtWork
<1>4. ASSUME NEW w \in Conns, NEW t \in Tasks, Recorded(w, t)
      PROVE  Recorded(w, t)' \/ Settled(t)
    BY <1>1, <1>3, <1>4 DEF Recorded, Served, Records
<1>5. \A t \in out : t \in Tasks
    BY DEF Served, IInv, TypeOK
<1> QED
    BY <1>1, <1>2, <1>4, <1>5 DEF Unforgotten

(* A lost connection: every task on its record is to be closed. *)
LEMMA UnforgottenCloseCallback ==
    ASSUME Served, Unforgotten, NEW w \in Conns, CloseCallback(w)
    PROVE  Unforgotten'
<1>1. /\ UNCHANGED <<submitter, closer, out, doneCall, handed, taskWatchChan, workerTasks, panicked>>
      /\ watcher.pc = "select"
      /\ watcher' = watcher \/ watcher' = [pc |-> "closing", conn |-> w, todo |-> workerTasks[w]]
    BY DEF CloseCallback, taskqVars
<1>2. /\ \A t : Settled(t)' = Settled(t) /\ \A d : AtWork(d, t)' = AtWork(d, t)
      /\ Sent' = Sent /\ \A v, t : Recorded(v, t)' = Recorded(v, t)
    BY <1>1 DEF Settled, AtWork, Sent, Recorded
<1> QED
    BY <1>1, <1>2 DEF Unforgotten

LEMMA UnforgottenWatchClose ==
    ASSUME Served, Served', Unforgotten, [Next]_taskqVars, NEW t \in Tasks, WatchClose(t)
    PROVE  Unforgotten'
<1> USE IntranetAssumption
<1>1. /\ UNCHANGED <<out, doneCall, handed, taskWatchChan, workerTasks, panicked>>
      /\ watcher.pc = "closing"
      /\ watcher' = [watcher EXCEPT !.todo = @ \ {t}]
      /\ closer[Watcher].pc = "idle"
      /\ closer' = [closer EXCEPT ![Watcher] = [pc |-> "take", task |-> t, result |-> "lost"]]
    BY DEF WatchClose, DoneCall
<1>2. /\ \A u \in Tasks : Settled(u) => Settled(u)'
      /\ \A d \in Closers, u \in Tasks : AtWork(d, u) => AtWork(d, u)' \/ Settled(u)'
    BY Settles DEF Served
<1>3. AtWork(Watcher, t)' /\ \A u : ~AtWork(Watcher, u)
    BY <1>1 DEF AtWork, Served, IInv, TypeOK
<1>4. Sent' = Sent /\ \A v, u : Recorded(v, u)' = Recorded(v, u)
    BY <1>1 DEF Sent, Recorded
<1>5. /\ watcher'.pc = "closing" /\ watcher'.conn = watcher.conn
      /\ watcher'.todo = watcher.todo \ {t}
    BY <1>1 DEF Served, Records
<1>6. /\ \A k \in Sent : k.task \in Tasks
      /\ \A d \in DoneCalls : d \in Closers /\ (doneCall[d] # DoneIdle => doneCall[d].task \in Tasks)
      /\ out \subseteq Tasks /\ workerTasks[watcher.conn] \subseteq Tasks
    BY <1>1, SentTasks DEF Served, IInv, TypeOK, Handlers, Records, DoneIdle, DoneCalls
<1> QED
    BY <1>1, <1>2, <1>3, <1>4, <1>5, <1>6 DEF Unforgotten

(* A hand-out puts its keeper into the channel; task.done one of its own, when its task
   is settled. *)
LEMMA UnforgottenGetRecord ==
    ASSUME Served, Served', Unforgotten, NEW s \in Shifters, GetRecord(s)
    PROVE  Unforgotten'
<1> PICK w \in Conns, t \in Tasks : w = getter[s].conn /\ t = shifter[s].task
    BY DEF GetRecord, HandOut, Served, Handlers, IInv, TypeOK
<1> DEFINE k == [conn |-> w, task |-> t, done |-> FALSE]
<1>1. /\ UNCHANGED <<submitter, closer, doneCall, workerTasks, watcher, panicked>>
      /\ taskWatchChan' = Append(taskWatchChan, k)
      /\ handed' = handed \cup {<<w, t>>} /\ out' = out \cup {t}
    BY DEF GetRecord, HandOut
<1>2. Sent' = Sent \cup {k}
    <2>0. k \in Keepers
        BY DEF Keepers
    <2>1. taskWatchChan \in Seq(Keepers)
        BY DEF Served, Records
    <2> HIDE DEF k
    <2>2. /\ Append(taskWatchChan, k) \in Seq(Keepers)
          /\ Range(Append(taskWatchChan, k)) = Range(taskWatchChan) \cup {k}
        BY <2>0, <2>1, AppendRange
    <2> QED
        BY <1>1, <2>2 DEF Sent
<1>3. \A u : (Settled(u) => Settled(u)') /\ \A d : AtWork(d, u)' = AtWork(d, u)
    BY <1>1 DEF Settled, AtWork
<1>4. \A v \in Conns, u \in Tasks : Recorded(v, u)' <=>
             \/ u \in workerTasks'[v]
             \/ [conn |-> v, task |-> u, done |-> FALSE] \in Sent'
    <2>1. DOMAIN taskWatchChan' = 1..Len(taskWatchChan')
        BY DEF Served, Records
    <2> QED
        BY <2>1 DEF Recorded, Sent, Range
<1>5. Recorded(w, t)' /\ \A v \in Conns, u \in Tasks : Recorded(v, u) => Recorded(v, u)'
    BY <1>1, <1>2, <1>4, SentIsRange
<1>6. out \subseteq Tasks
    BY DEF Served, IInv, TypeOK
<1>7. ~k.done
    OBVIOUS
<1> HIDE DEF k
<1> QED
    BY <1>1, <1>2, <1>3, <1>5, <1>6, <1>7 DEF Unforgotten

LEMMA UnforgottenDoneRecord ==
    ASSUME Served, Served', Unforgotten, NEW d \in DoneCalls, DoneRecord(d)
    PROVE  Unforgotten'
<1> PICK w \in Conns, t \in Tasks : w = doneCall[d].conn /\ t = doneCall[d].task
    BY DEF DoneRecord, DoneIdle, Served, Handlers
<1> DEFINE k == [conn |-> w, task |-> t, done |-> TRUE]
<1>1. /\ UNCHANGED <<submitter, closer, out, workerTasks, watcher, handed, panicked>>
      /\ taskWatchChan' = Append(taskWatchChan, k)
      /\ doneCall' = [doneCall EXCEPT ![d] = DoneIdle]
      /\ doneCall[d] # DoneIdle /\ closer[d].pc = "idle"
    BY DEF DoneRecord, taskqVars
<1>2. Sent' = Sent \cup {k}
    <2>0. k \in Keepers
        BY DEF Keepers
    <2>1. taskWatchChan \in Seq(Keepers)
        BY DEF Served, Records
    <2> HIDE DEF k
    <2>2. /\ Append(taskWatchChan, k) \in Seq(Keepers)
          /\ Range(Append(taskWatchChan, k)) = Range(taskWatchChan) \cup {k}
        BY <2>0, <2>1, AppendRange
    <2> QED
        BY <1>1, <2>2 DEF Sent
<1>3. \A u : Settled(u)' = Settled(u) /\ \A e : AtWork(e, u)' = AtWork(e, u)
    BY <1>1 DEF Settled, AtWork
<1>4. \A v \in Conns, u \in Tasks : Recorded(v, u)' <=>
             \/ u \in workerTasks'[v]
             \/ [conn |-> v, task |-> u, done |-> FALSE] \in Sent'
    <2>1. DOMAIN taskWatchChan' = 1..Len(taskWatchChan')
        BY DEF Served, Records
    <2> QED
        BY <2>1 DEF Recorded, Sent, Range
<1>5. \A v \in Conns, u \in Tasks : Recorded(v, u) => Recorded(v, u)'
    BY <1>1, <1>2, <1>4, SentIsRange
<1>6. out \subseteq Tasks
    BY DEF Served, IInv, TypeOK
<1>7. Settled(t) /\ k.task = t
    BY <1>1 DEF Unforgotten, AtWork
<1>8. \A e \in DoneCalls : doneCall'[e] # DoneIdle => doneCall'[e] = doneCall[e]
    BY <1>1 DEF Served, Handlers
<1> HIDE DEF k
<1> QED
    BY <1>1, <1>2, <1>3, <1>5, <1>6, <1>7, <1>8 DEF Unforgotten

LEMMA UnforgottenDoneRequest ==
    ASSUME Served, Served', Unforgotten, [Next]_taskqVars,
           NEW d \in DoneCalls, NEW w \in Conns, NEW t \in Tasks, DoneRequest(d, w, t)
    PROVE  Unforgotten'
<1> USE IntranetAssumption
<1>1. /\ UNCHANGED <<out, handed, taskWatchChan, workerTasks, watcher, panicked>>
      /\ doneCall' = [doneCall EXCEPT ![d] = [conn |-> w, task |-> t]]
      /\ closer' = [closer EXCEPT ![d] = [pc |-> "take", task |-> t, result |-> "done"]]
    BY DEF DoneRequest, DoneCall
<1>2. /\ \A u \in Tasks : Settled(u) => Settled(u)'
      /\ \A e \in Closers, u \in Tasks : AtWork(e, u) => AtWork(e, u)' \/ Settled(u)'
    BY Settles DEF Served
<1>3. AtWork(d, t)' /\ doneCall'[d].task = t
    BY <1>1 DEF AtWork, Served, IInv, TypeOK, Handlers, DoneCalls
<1>4. \A e \in DoneCalls : e # d => doneCall'[e] = doneCall[e]
    BY <1>1 DEF Served, Handlers
<1>5. Sent' = Sent /\ \A v, u : Recorded(v, u)' = Recorded(v, u)
    BY <1>1 DEF Sent, Recorded
<1>6. /\ \A k \in Sent : k.task \in Tasks
      /\ \A e \in DoneCalls : e \in Closers /\ (doneCall[e] # DoneIdle => doneCall[e].task \in Tasks)
      /\ out \subseteq Tasks
      /\ watcher.pc = "closing" => workerTasks[watcher.conn] \subseteq Tasks
    BY SentTasks DEF Served, IInv, TypeOK, Handlers, Records, DoneIdle, DoneCalls
<1> QED
    BY <1>1, <1>2, <1>3, <1>4, <1>5, <1>6 DEF Unforgotten

LEMMA UnforgottenStep == Served /\ Unforgotten /\ [IntranetNext]_vars => Unforgotten'
<1> SUFFICES ASSUME Served, Unforgotten, [IntranetNext]_vars PROVE Unforgotten'
    OBVIOUS
<1>0. Served' /\ [Next]_taskqVars
    BY ServedStep, StepOfQueue
<1> DEFINE same == <<taskWatchChan, doneCall, workerTasks, watcher, handed, panicked, out>>
<1>1. CASE UNCHANGED same
    BY <1>0, <1>1, UnforgottenKept
<1>2. ASSUME NEW t \in Tasks, Submitting(t) PROVE UNCHANGED same
    BY <1>2 DEF Submitting, Push, Enqueue, TimerFires, MarkRotten, intranetVars
<1>3. CASE Queuing
    BY <1>1, <1>3 DEF Queuing, FirstSelect, SecondSelect, intranetVars
<1>4. ASSUME NEW w \in Conns, ConnStep(w) PROVE Unforgotten'
    <2>1. CASE Connect(w) \/ Disconnect(w)
        BY <1>1, <2>1 DEF Connect, Disconnect, taskqVars
    <2>2. CASE OpenCallback(w)
        <3>1. workerTasks[w] = {}
            BY <2>2 DEF OpenCallback, Served, Handlers, Records, Met
        <3>2. workerTasks' = workerTasks
            BY <2>2, <3>1 DEF OpenCallback, Served, Records
        <3> QED
            BY <1>1, <2>2, <3>2 DEF OpenCallback, taskqVars
    <2> QED
        BY <1>4, <2>1, <2>2, UnforgottenCloseCallback DEF ConnStep
<1>5. ASSUME NEW s \in Shifters, GetStep(s) \/ \E w \in Conns : GetCall(s, w)
      PROVE  Unforgotten'
    <2>1. CASE GetRecord(s)
        BY <1>0, <2>1, UnforgottenGetRecord
    <2>2. CASE ~GetRecord(s)
        BY <1>1, <1>5, <2>2 DEF GetStep, GetShift, ShiftReceive, ShiftCheck, GetConnected,
           GetUnShift, UnShift, UnShiftSend, GetCall, ShiftCall, taskqVars, intranetVars
    <2> QED
        BY <2>1, <2>2
<1>6. ASSUME NEW d \in Closers, CloseTask(d) PROVE UNCHANGED same
    BY <1>6 DEF CloseTask, DoneTake, DoneSend, intranetVars
<1>7. ASSUME NEW d \in DoneCalls, \/ DoneRecord(d)
                                 \/ \E w \in Conns, t \in Tasks : DoneRequest(d, w, t)
      PROVE  Unforgotten'
    BY <1>0, <1>7, UnforgottenDoneRecord, UnforgottenDoneRequest
<1>8. CASE WatchStep
    BY <1>0, <1>8, UnforgottenWatchTask, UnforgottenWatchClose, UnforgottenWatchClosed
    DEF WatchStep
<1>9. CASE UNCHANGED vars
    BY <1>1, <1>9 DEF vars, taskqVars, intranetVars
<1> QED
    BY <1>1, <1>2, <1>3, <1>4, <1>5, <1>6, <1>7, <1>8, <1>9 DEF IntranetNext

(* No task that somebody waits for is forgotten by taskWatcher. *)
THEOREM NothingForgotten == IntranetSpec => []AwaitedTaskRecorded
<1>1. IntranetInit => Unforgotten
    BY IntranetAssumption DEF IntranetInit, Init, Unforgotten, Sent, Range, WatcherIdle
<1>2. Served /\ Unforgotten => AwaitedTaskRecorded
    <2> SUFFICES ASSUME Served, Unforgotten, ~panicked, NEW t \in Tasks,
                        submitter[t] = "waiting", t \in out
                 PROVE  BeingClosed(t) \/ \E w \in Conns : <<w, t>> \in handed /\ Recorded(w, t)
        BY DEF AwaitedTaskRecorded
    <2> QED
        BY DEF Unforgotten, Settled, BeingClosed
<1> QED
    BY <1>1, <1>2, UnforgottenStep, ServedAlways, PTL DEF IntranetSpec

----
(* The hub only delays and orders what workers do. *)
LEMMA StepOfIntranet == [HubNext]_allVars => [IntranetNext]_vars
<1> SUFFICES ASSUME [HubNext]_allVars PROVE [IntranetNext]_vars
    OBVIOUS
<1>1. CASE UNCHANGED allVars
    BY <1>1 DEF allVars
<1>2. ASSUME HubNext, NEW t \in Tasks, Inside(Submitting(t)) PROVE IntranetNext
    BY <1>2 DEF HubNext, Inside, IntranetNext
<1>3. ASSUME HubNext, Inside(Queuing) \/ Inside(WatchStep) PROVE IntranetNext
    BY <1>3 DEF HubNext, Inside, IntranetNext
<1>4. ASSUME HubNext, NEW w \in Conns, Opens(w) \/ LoopEnds(w) \/ CloseCB(w) PROVE IntranetNext
    BY <1>4 DEF HubNext, Opens, Inside, LoopEnds, CloseCB, ConnStep, IntranetNext
<1>5. ASSUME HubNext, NEW w \in Conns, NEW t \in SubTasks, SubStores(w, t) PROVE IntranetNext
    <2>1. t \in Tasks /\ Submitting(t)
        BY <1>5, HubAssumption DEF SubStores, Submitting
    <2> QED
        BY <1>5, <2>1 DEF HubNext, IntranetNext
<1>6. ASSUME NEW w \in Conns,
             Subscribed(w) \/ SubStoresDone(w) \/ DeleteSubscriber(w) \/ HandleSubscribe(w)
      PROVE  UNCHANGED vars
    BY <1>6 DEF Subscribed, SubStoresDone, DeleteSubscriber, HandleSubscribe
<1>7. ASSUME HubNext, NEW s \in Shifters,
             Inside(GetStep(s)) \/ \E w \in Conns : HandleCall(s, w)
      PROVE  IntranetNext
    BY <1>7 DEF HubNext, Inside, HandleCall, IntranetNext
<1>8. ASSUME HubNext, NEW d \in Closers, Inside(CloseTask(d)) PROVE IntranetNext
    BY <1>8 DEF HubNext, Inside, IntranetNext
<1>9. ASSUME HubNext, NEW d \in DoneCalls,
             Inside(DoneRecord(d)) \/ \E w \in Conns, t \in Tasks : HandleDone(d, w, t)
      PROVE  IntranetNext
    BY <1>9 DEF HubNext, Inside, HandleDone, IntranetNext
<1> QED
    BY <1>1, <1>2, <1>3, <1>4, <1>5, <1>6, <1>7, <1>8, <1>9, HubAssumption DEF HubNext, Loop

(* Every behaviour of intranet over the hub is one of Intranet: what is proved of
   taskWatcher and of the queue holds whatever subscriptions do. *)
THEOREM HubInside == HubSpec => IntranetSpec
<1>1. HubInit => IntranetInit
    BY DEF HubInit
<1> QED
    BY <1>1, StepOfIntranet, PTL DEF HubSpec, IntranetSpec

LEMMA HubInitTyped == HubInit /\ IntranetTypeOK => HubTypeOK
BY IntranetAssumption, TaskQAssumption DEF HubInit, IntranetInit, HubTypeOK, LoopStates, Unlocked

(* The lock has one holder, whose message loop is in the handler of a subscription. *)
LEMMA HubTyped == HubTypeOK /\ IntranetTypeOK' /\ [HubNext]_allVars => HubTypeOK'
<1> SUFFICES ASSUME HubTypeOK, IntranetTypeOK', [HubNext]_allVars PROVE HubTypeOK'
    OBVIOUS
<1> USE DEF HubTypeOK, LoopStates, Unlocked
<1>0. /\ conn \in [Conns -> {"new", "opening", "open", "closing", "closed"}]
      /\ None \notin Conns
    BY IntranetAssumption DEF IntranetTypeOK
<1>1. CASE UNCHANGED <<conn, hubVars>>
    BY <1>1 DEF hubVars
<1>2. ASSUME NEW w \in Conns, Opens(w) PROVE HubTypeOK'
    BY <1>0, <1>2 DEF Opens, Inside, hubVars, Connect, OpenCallback
<1>3. ASSUME NEW w \in Conns, LoopEnds(w) PROVE HubTypeOK'
    BY <1>0, <1>3 DEF LoopEnds, Goto, Disconnect
<1>4. ASSUME NEW w \in Conns, HandleSubscribe(w) \/ Subscribed(w) \/ DeleteSubscriber(w)
      PROVE  HubTypeOK'
    BY <1>0, <1>4 DEF HandleSubscribe, Subscribed, DeleteSubscriber, Goto, vars, intranetVars
<1>5. ASSUME NEW w \in Conns, NEW t \in SubTasks, SubStores(w, t) PROVE HubTypeOK'
    BY <1>0, <1>5 DEF SubStores, Goto, intranetVars
<1>6. ASSUME NEW w \in Conns, SubStoresDone(w) PROVE HubTypeOK'
    BY <1>0, <1>6 DEF SubStoresDone, Goto, vars, intranetVars
<1>7. ASSUME NEW w \in Conns, CloseCB(w) PROVE HubTypeOK'
    BY <1>0, <1>7 DEF CloseCB, CloseCallback, hubVars
<1>8. ASSUME NEW s \in Shifters, Inside(GetStep(s)) \/ \E w \in Conns : HandleCall(s, w)
      PROVE  UNCHANGED <<conn, hubVars>>
    BY <1>8 DEF Inside, HandleCall, GetStep, GetCall, GetShift, GetConnected, GetRecord,
                GetUnShift, intranetVars
<1>9. ASSUME NEW d \in DoneCalls,
             Inside(DoneRecord(d)) \/ \E w \in Conns, t \in Tasks : HandleDone(d, w, t)
      PROVE  UNCHANGED <<conn, hubVars>>
    BY <1>9 DEF Inside, HandleDone, DoneRecord, DoneRequest
<1>10. CASE \/ \E t \in Tasks : Inside(Submitting(t))
            \/ Inside(Queuing) \/ Inside(WatchStep)
            \/ \E d \in Closers : Inside(CloseTask(d))
    <2>1. UNCHANGED <<conn, hubVars>>
        BY <1>10 DEF Inside, Submitting, Queuing, CloseTask, WatchStep, WatchTask, WatchClose,
                     WatchClosed, intranetVars
    <2> QED
        BY <1>1, <2>1
<1>11. CASE UNCHANGED allVars
    BY <1>1, <1>11 DEF allVars, vars, intranetVars
<1> QED
    BY <1>1, <1>2, <1>3, <1>4, <1>5, <1>6, <1>7, <1>8, <1>9, <1>10, <1>11, HubAssumption
    DEF HubNext, Loop

(* The variables of the hub keep their types, for any number of connections: the lock of
   the subscribers is with one subscription, and the callback of a lost connection comes
   after its subscriptions are gone. *)
THEOREM HubTypeCorrect == HubSpec => []HubTypeOK
<1>1. HubSpec => []IntranetTypeOK
    BY HubInside, IntranetTypeCorrect, PTL
<1> QED
    BY <1>1, HubInitTyped, HubTyped, PTL DEF HubSpec

----
(* What is left of LostTasksAnswered without time: taskWatcher has read its channel, every
   disconnect that was noticed has been handled and no Done is at work. *)
Quiet ==
    /\ taskWatchChan = <<>> /\ watcher.pc = "select"
    /\ \A d \in Closers : closer[d].pc = "idle"
    /\ \A w \in Conns : conn[w] # "closing"

(* A task that somebody waits for and a worker was given is then recorded for a worker
   whose connection is alive, or stranded. *)
QuietMeansServed ==
    Quiet /\ ~panicked =>
        \A t \in Tasks : submitter[t] = "waiting" /\ t \in out =>
            \E w \in Conns : /\ <<w, t>> \in handed /\ t \in workerTasks[w]
                             /\ conn[w] = "open" \/ Stranded(t)

(* The loss of a worker leaves nobody waiting in vain: when all is quiet, who waits for a
   task that was handed out waits for a worker that is there, but for the one race that
   Stranded describes. *)
THEOREM NobodyWaitsInVain == IntranetSpec => []QuietMeansServed
<1>1. Served /\ AwaitedTaskRecorded => QuietMeansServed
    <2> SUFFICES ASSUME Served, AwaitedTaskRecorded, Quiet, ~panicked, NEW t \in Tasks,
                        submitter[t] = "waiting", t \in out
                 PROVE  \E w \in Conns : /\ <<w, t>> \in handed /\ t \in workerTasks[w]
                                         /\ conn[w] = "open" \/ Stranded(t)
        BY DEF QuietMeansServed
    <2>1. ~BeingClosed(t)
        <3> SUFFICES ASSUME NEW d \in Closers, closer[d].task = t PROVE FALSE
            BY DEF BeingClosed
        <3>1. closer[d].pc = "idle" /\ closer[d] \in
                  [pc : {"idle", "take", "send"}, task : Tasks \cup {None},
                   result : Results \cup {None}]
            BY DEF Quiet, Served, IInv, TypeOK
        <3>2. closer[d].task = None
            BY <3>1 DEF Served, IInv, TypeOK
        <3> QED
            BY <3>2, TaskQAssumption
    <2>2. PICK w \in Conns : <<w, t>> \in handed /\ Recorded(w, t)
        BY <2>1 DEF AwaitedTaskRecorded
    <2>3. t \in workerTasks[w]
        BY <2>2 DEF Recorded, Quiet
    <2>4. conn[w] \in {"open", "closed"}
        BY <2>2 DEF Served, Handlers, Records, Met, Quiet
    <2>5. watcher.conn # w
        BY IntranetAssumption DEF Served, Records, Quiet
    <2> QED
        BY <2>2, <2>3, <2>4, <2>5 DEF Stranded
<1> QED
    BY <1>1, ServedAlways, NothingForgotten, PTL

(* The worker server behind the hub, with its queue, keeps the promise that the other
   parts of blank-one rely on: every behaviour of it is one of TaskService. *)
THEOREM HubServes == HubSpec => ImplementsService
BY HubInside, QueueInside, Implements, PTL
====
