---- MODULE TaskQProofs ----
(***************************************************************************)
(* Proofs about TaskQ, for any number of tasks, goroutines and any queue   *)
(* lengths: its types, that a task is in one place, that an awaited task   *)
(* is in some place, that one party answers it, and that the queue         *)
(* implements TaskService.                                                 *)
(***************************************************************************)
EXTENDS TaskQ, SequenceTheorems, TLAPS

(* The places of SingleCustody, as sets: the two queues repeat no task and share none
   with each other, the queuing() goroutine, the shifters or the workers. *)
Custody ==
    /\ IsInjective(mainQueue) /\ IsInjective(extraQueue)
    /\ \A r, s \in Shifters : shifter[r].task = shifter[s].task => r = s \/ shifter[r].task = None
    /\ \A t \in Tasks :
           /\ t \in Range(mainQueue) =>
                  t \notin Range(extraQueue) /\ queuing.task # t /\ t \notin out
           /\ t \in Range(extraQueue) => queuing.task # t /\ t \notin out
           /\ queuing.task = t => t \notin out
           /\ \A s \in Shifters : shifter[s].task = t =>
                  /\ t \notin Range(mainQueue) /\ t \notin Range(extraQueue)
                  /\ queuing.task # t /\ t \notin out

Somewhere(t) ==
    \/ t \in Range(mainQueue) \/ t \in Range(extraQueue)
    \/ queuing.task = t \/ t \in out \/ \E s \in Shifters : shifter[s].task = t

(* What is known of a submitter from where its task is, and of the task from where
   the submitter is. *)
Journey ==
    /\ \A t \in Tasks : Somewhere(t) => submitter[t] \notin {"new", "pushing"}
    /\ \A t \in Tasks : submitter[t] = "waiting" => Somewhere(t)
    /\ \A t \in rotten : submitter[t] = "timedOut"
    /\ \A t \in Tasks : submitter[t] = "answered" => t \in out
    /\ \A t \in Tasks : submitter[t] \in {"expired", "timedOut"} => t \in TimedTasks
    /\ \A t \in Tasks : submitter[t] = "pushing" => t \in resultChans
    /\ \A d \in Closers : closer[d].task # None => closer[d].task \in out

IInv == TypeOK /\ Custody /\ Journey /\ OneResolver

----
(* Adding to a queue and taking from it. *)
LEMMA AppendRange ==
    ASSUME NEW S, NEW q \in Seq(S), NEW x \in S
    PROVE  /\ Append(q, x) \in Seq(S)
           /\ Range(Append(q, x)) = Range(q) \cup {x}
           /\ IsInjective(q) /\ x \notin Range(q) => IsInjective(Append(q, x))
<1> DEFINE a == Append(q, x)
<1>1. /\ a \in Seq(S) /\ Len(a) = Len(q) + 1 /\ Len(q) \in Nat
      /\ \A i \in 1..Len(q) : a[i] = q[i]
      /\ a[Len(q) + 1] = x
    BY AppendProperties
<1>2. DOMAIN a = 1..(Len(q) + 1) /\ DOMAIN q = 1..Len(q)
    BY <1>1
<1> HIDE DEF a
<1>3. 1..(Len(q) + 1) = 1..Len(q) \cup {Len(q) + 1}
    BY <1>1
<1>4. Range(a) = Range(q) \cup {x}
    BY <1>1, <1>2, <1>3 DEF Range
<1>5. ASSUME IsInjective(q), x \notin Range(q) PROVE IsInjective(a)
    BY <1>1, <1>2, <1>3, <1>5 DEF IsInjective, Range
<1> QED
    BY <1>1, <1>4, <1>5 DEF a

LEMMA TailRange ==
    ASSUME NEW S, NEW q \in Seq(S), q # <<>>, IsInjective(q)
    PROVE  /\ Head(q) \in S /\ Head(q) \in Range(q)
           /\ Tail(q) \in Seq(S) /\ IsInjective(Tail(q))
           /\ Range(Tail(q)) = Range(q) \ {Head(q)}
<1> DEFINE u == Tail(q)
<1>1. /\ Head(q) \in S /\ u \in Seq(S) /\ Len(u) = Len(q) - 1
      /\ \A i \in 1..Len(u) : u[i] = q[i + 1]
    BY HeadTailProperties
<1>2. Len(q) \in Nat \ {0} /\ Head(q) = q[1] /\ DOMAIN q = 1..Len(q)
    OBVIOUS
<1>3. DOMAIN u = 1..Len(u)
    BY <1>1
<1> HIDE DEF u
<1>4. Head(q) \in Range(q)
    BY <1>2 DEF Range
<1>5. IsInjective(u)
    <2> SUFFICES ASSUME NEW i \in 1..Len(u), NEW j \in 1..Len(u), u[i] = u[j] PROVE i = j
        BY <1>3 DEF IsInjective
    <2>1. i + 1 \in DOMAIN q /\ j + 1 \in DOMAIN q /\ q[i + 1] = q[j + 1]
        BY <1>1, <1>2
    <2> QED
        BY <2>1 DEF IsInjective
<1>6. ASSUME NEW y \in Range(u) PROVE y \in Range(q) /\ y # Head(q)
    <2>1. PICK i \in 1..Len(u) : y = u[i]
        BY <1>3 DEF Range
    <2>2. i + 1 \in DOMAIN q /\ 1 \in DOMAIN q /\ i + 1 # 1 /\ y = q[i + 1]
        BY <1>1, <1>2, <2>1
    <2> QED
        BY <1>2, <2>2 DEF IsInjective, Range
<1>7. ASSUME NEW y \in Range(q), y # Head(q) PROVE y \in Range(u)
    <2>1. PICK i \in 1..Len(q) : y = q[i]
        BY <1>2 DEF Range
    <2>2. i - 1 \in 1..Len(u)
        BY <1>1, <1>2, <1>7, <2>1
    <2>3. u[i - 1] = y
        BY <1>1, <2>1, <2>2
    <2> QED
        BY <1>3, <2>2, <2>3 DEF Range
<1> QED
    BY <1>1, <1>4, <1>5, <1>6, <1>7 DEF u

(* The initial states: nothing submitted, every goroutine idle. *)
LEMMA InitIInv == Init => IInv
<1> SUFFICES ASSUME Init PROVE IInv
    OBVIOUS
<1> USE TaskQAssumption DEF Init, ShifterIdle, CloserIdle
<1>1. TypeOK
    BY DEF TypeOK, SubmitterStates
<1>2. Range(mainQueue) = {} /\ Range(extraQueue) = {}
      /\ IsInjective(mainQueue) /\ IsInjective(extraQueue)
    BY DEF Range, IsInjective
<1>3. Custody
    BY <1>2 DEF Custody
<1>4. Journey
    BY <1>2 DEF Journey, Somewhere
<1>5. OneResolver
    BY DEF OneResolver
<1> QED
    BY <1>1, <1>3, <1>4, <1>5 DEF IInv

(* Steps of submitters and of Done leave every task where it is. *)
LEMMA CustodyUnchanged ==
    ASSUME Custody, UNCHANGED <<mainQueue, extraQueue, queuing, shifter, out>>
    PROVE  Custody'
<1> QED
    BY DEF Custody

(* Steps of the queues leave the result channels alone. *)
LEMMA ResolverUnchanged ==
    ASSUME OneResolver, UNCHANGED <<submitter, resultChans, closer>>
    PROVE  OneResolver'
<1> QED
    BY DEF OneResolver

LEMMA PushIInv == ASSUME IInv, NEW t \in Tasks, Push(t) PROVE IInv'
<1> USE TaskQAssumption DEF Push
<1>1. TypeOK'
    BY DEF IInv, TypeOK, SubmitterStates
<1>2. Custody'
    BY CustodyUnchanged DEF IInv
<1>3. Journey'
    BY DEF IInv, TypeOK, Journey, Somewhere
<1>4. OneResolver'
    BY DEF IInv, TypeOK, Journey, OneResolver
<1> QED
    BY <1>1, <1>2, <1>3, <1>4 DEF IInv

LEMMA EnqueueIInv == ASSUME IInv, NEW t \in Tasks, Enqueue(t) PROVE IInv'
<1> USE TaskQAssumption DEF Enqueue
<1>0. /\ mainQueue' \in Seq(Tasks) /\ IsInjective(mainQueue')
      /\ Range(mainQueue') = Range(mainQueue) \cup {t}
      /\ ~Somewhere(t)
    BY AppendRange DEF IInv, TypeOK, Custody, Journey, Somewhere
<1>1. TypeOK'
    BY <1>0 DEF IInv, TypeOK, SubmitterStates
<1>2. Custody'
    BY <1>0 DEF IInv, Custody, Somewhere
<1>3. Journey'
    BY <1>0 DEF IInv, TypeOK, Journey, Somewhere
<1>4. OneResolver'
    BY DEF IInv, TypeOK, Journey, OneResolver
<1> QED
    BY <1>1, <1>2, <1>3, <1>4 DEF IInv

LEMMA TimerFiresIInv == ASSUME IInv, NEW t \in Tasks, TimerFires(t) PROVE IInv'
<1> USE TaskQAssumption DEF TimerFires
<1>1. TypeOK'
    BY DEF IInv, TypeOK, SubmitterStates
<1>2. Custody'
    BY CustodyUnchanged DEF IInv
<1>3. Journey'
    BY DEF IInv, TypeOK, Journey, Somewhere
<1>4. OneResolver'
    BY DEF IInv, TypeOK, OneResolver
<1> QED
    BY <1>1, <1>2, <1>3, <1>4 DEF IInv

LEMMA MarkRottenIInv == ASSUME IInv, NEW t \in Tasks, MarkRotten(t) PROVE IInv'
<1> USE TaskQAssumption DEF MarkRotten
<1>1. TypeOK'
    BY DEF IInv, TypeOK, SubmitterStates
<1>2. Custody'
    BY CustodyUnchanged DEF IInv
<1>3. Journey'
    BY DEF IInv, TypeOK, Journey, Somewhere
<1>4. OneResolver'
    BY DEF IInv, TypeOK, OneResolver
<1> QED
    BY <1>1, <1>2, <1>3, <1>4 DEF IInv

(* queuing() takes the head of extraQueue, in either of its selects. *)
LEMMA TakeExtraIInv ==
    ASSUME IInv, NEW pc \in {"offerFirst", "offerSecond"}, TakeExtra(pc), queuing.task = None,
           UNCHANGED <<submitter, answer, resultChans, rotten, shifter, closer, out>>
    PROVE  IInv'
<1> USE TaskQAssumption DEF TakeExtra
<1>0. /\ extraQueue' \in Seq(Tasks) /\ IsInjective(extraQueue')
      /\ queuing' \in [pc : {"offerFirst", "offerSecond"}, task : Tasks]
      /\ queuing'.task \in Range(extraQueue)
      /\ Range(extraQueue') = Range(extraQueue) \ {queuing'.task}
    BY TailRange DEF IInv, TypeOK, Custody
<1>1. TypeOK'
    BY <1>0 DEF IInv, TypeOK
<1>2. Custody'
    BY <1>0 DEF IInv, Custody
<1>3. Journey'
    BY <1>0 DEF IInv, Journey, Somewhere
<1>4. OneResolver'
    BY ResolverUnchanged DEF IInv
<1> QED
    BY <1>1, <1>2, <1>3, <1>4 DEF IInv

LEMMA FirstSelectIInv == ASSUME IInv, FirstSelect PROVE IInv'
<1> USE TaskQAssumption
<1>1. CASE TakeExtra("offerFirst")
    <2>1. queuing.task = None
        BY DEF IInv, TypeOK, FirstSelect
    <2> QED
        BY <1>1, <2>1, TakeExtraIInv DEF FirstSelect
<1>2. CASE queuing' = [queuing EXCEPT !.pc = "second"] /\ UNCHANGED <<mainQueue, extraQueue>>
    <2> USE <1>2 DEF FirstSelect
    <2>1. TypeOK' /\ queuing'.task = queuing.task
        BY DEF IInv, TypeOK
    <2>2. Custody'
        BY <2>1 DEF IInv, Custody
    <2>3. Journey'
        BY <2>1 DEF IInv, Journey, Somewhere
    <2>4. OneResolver'
        BY ResolverUnchanged DEF IInv
    <2> QED
        BY <2>1, <2>2, <2>3, <2>4 DEF IInv
<1> QED
    BY <1>1, <1>2 DEF FirstSelect

LEMMA SecondSelectIInv == ASSUME IInv, SecondSelect PROVE IInv'
<1> USE TaskQAssumption
<1>0. queuing.task = None
    BY DEF IInv, TypeOK, SecondSelect
<1>1. CASE TakeExtra("offerSecond")
    BY <1>0, <1>1, TakeExtraIInv DEF SecondSelect
<1>2. CASE /\ mainQueue # <<>>
           /\ queuing' = [pc |-> "offerSecond", task |-> Head(mainQueue)]
           /\ mainQueue' = Tail(mainQueue)
           /\ UNCHANGED extraQueue
    <2> USE <1>2 DEF SecondSelect
    <2>0. /\ mainQueue' \in Seq(Tasks) /\ IsInjective(mainQueue')
          /\ queuing' \in [pc : {"offerFirst", "offerSecond"}, task : Tasks]
          /\ queuing'.task \in Range(mainQueue)
          /\ Range(mainQueue') = Range(mainQueue) \ {queuing'.task}
        BY TailRange DEF IInv, TypeOK, Custody
    <2>1. TypeOK'
        BY <2>0 DEF IInv, TypeOK
    <2>2. Custody'
        BY <2>0, <1>0 DEF IInv, Custody
    <2>3. Journey'
        BY <2>0, <1>0 DEF IInv, Journey, Somewhere
    <2>4. OneResolver'
        BY ResolverUnchanged DEF IInv
    <2> QED
        BY <2>1, <2>2, <2>3, <2>4 DEF IInv
<1> QED
    BY <1>1, <1>2 DEF SecondSelect

(* A shifter that keeps the task it has, or still has none. *)
LEMMA ShifterStaysIInv ==
    ASSUME IInv, NEW s \in Shifters, NEW pc, shifter' = [shifter EXCEPT ![s].pc = pc],
           pc \in (IF shifter[s].task = None THEN {"idle", "receive"} ELSE {"check", "got", "return"}),
           UNCHANGED <<submitter, answer, resultChans, rotten, mainQueue, extraQueue,
                       queuing, closer, out>>
    PROVE  IInv'
<1> USE TaskQAssumption
<1>0. /\ shifter' \in [Shifters -> [pc : {"idle", "receive", "check", "got", "return"},
                                     task : Tasks \cup {None}]]
      /\ \A r \in Shifters : shifter'[r].task = shifter[r].task
      /\ \A r \in Shifters \ {s} : shifter'[r] = shifter[r]
      /\ shifter'[s].pc = pc
    BY DEF IInv, TypeOK
<1>1. TypeOK'
    BY <1>0 DEF IInv, TypeOK
<1>2. Custody'
    BY <1>0 DEF IInv, Custody
<1>3. Journey'
    BY <1>0 DEF IInv, Journey, Somewhere
<1>4. OneResolver'
    BY ResolverUnchanged DEF IInv
<1> QED
    BY <1>1, <1>2, <1>3, <1>4 DEF IInv

(* A shifter that loses its task, to a worker, to extraQueue or because it is rotten. *)
LEMMA ShifterLeavesIInv ==
    ASSUME IInv, NEW s \in Shifters, NEW t \in Tasks, shifter[s].task = t,
           NEW pc \in {"idle", "receive"},
           shifter' = [shifter EXCEPT ![s] = [pc |-> pc, task |-> None]],
           \/ out' = out \cup {t} /\ UNCHANGED extraQueue
           \/ extraQueue' = Append(extraQueue, t) /\ UNCHANGED out
           \/ t \in rotten /\ UNCHANGED <<extraQueue, out>>,
           UNCHANGED <<submitter, answer, resultChans, rotten, mainQueue, queuing, closer>>
    PROVE  IInv'
<1> USE TaskQAssumption
<1>0. /\ shifter' \in [Shifters -> [pc : {"idle", "receive", "check", "got", "return"},
                                     task : Tasks \cup {None}]]
      /\ shifter'[s] = [pc |-> pc, task |-> None]
      /\ \A r \in Shifters \ {s} : shifter'[r] = shifter[r] /\ shifter[r].task # t
    BY DEF IInv, TypeOK, Custody
<1>1. CASE out' = out \cup {t} /\ UNCHANGED extraQueue
    <2>1. TypeOK'
        BY <1>0, <1>1 DEF IInv, TypeOK
    <2>2. Custody'
        BY <1>0, <1>1 DEF IInv, Custody
    <2>3. Journey'
        BY <1>0, <1>1 DEF IInv, Journey, Somewhere
    <2> QED
        BY <2>1, <2>2, <2>3, ResolverUnchanged DEF IInv
<1>2. CASE extraQueue' = Append(extraQueue, t) /\ UNCHANGED out
    <2>0. /\ extraQueue' \in Seq(Tasks) /\ IsInjective(extraQueue')
          /\ Range(extraQueue') = Range(extraQueue) \cup {t}
        BY <1>2, AppendRange DEF IInv, TypeOK, Custody
    <2>1. TypeOK'
        BY <1>0, <1>2, <2>0 DEF IInv, TypeOK
    <2>2. Custody'
        BY <1>0, <1>2, <2>0 DEF IInv, Custody
    <2>3. Journey'
        BY <1>0, <1>2, <2>0 DEF IInv, Journey, Somewhere
    <2> QED
        BY <2>1, <2>2, <2>3, ResolverUnchanged DEF IInv
<1>3. CASE t \in rotten /\ UNCHANGED <<extraQueue, out>>
    <2>1. TypeOK'
        BY <1>0, <1>3 DEF IInv, TypeOK
    <2>2. Custody'
        BY <1>0, <1>3 DEF IInv, Custody
    <2>3. Journey'
        BY <1>0, <1>3 DEF IInv, Journey, Somewhere
    <2> QED
        BY <2>1, <2>2, <2>3, ResolverUnchanged DEF IInv
<1> QED
    BY <1>1, <1>2, <1>3

LEMMA ShiftReceiveIInv == ASSUME IInv, NEW s \in Shifters, ShiftReceive(s) PROVE IInv'
<1> USE TaskQAssumption DEF ShiftReceive
<1> PICK t \in Tasks : t = queuing.task
    BY DEF IInv, TypeOK
<1>0. /\ shifter' \in [Shifters -> [pc : {"idle", "receive", "check", "got", "return"},
                                     task : Tasks \cup {None}]]
      /\ shifter'[s] = [pc |-> "check", task |-> t] /\ shifter[s].task = None
      /\ \A r \in Shifters \ {s} : shifter'[r] = shifter[r] /\ shifter[r].task # t
      /\ queuing' \in [pc : {"first", "second"}, task : {None}]
    BY DEF IInv, TypeOK, Custody
<1>1. TypeOK'
    BY <1>0 DEF IInv, TypeOK
<1>2. Custody'
    BY <1>0 DEF IInv, Custody
<1>3. Journey'
    BY <1>0 DEF IInv, Journey, Somewhere
<1>4. OneResolver'
    BY ResolverUnchanged DEF IInv
<1> QED
    BY <1>1, <1>2, <1>3, <1>4 DEF IInv

(* The steps of Shift and UnShift, each of one of the kinds above. *)
LEMMA ShifterIInv ==
    ASSUME IInv, NEW s \in Shifters,
           \/ ShiftCall(s) \/ ShiftReceive(s) \/ ShiftCheck(s)
           \/ HandOut(s) \/ UnShift(s) \/ UnShiftSend(s)
    PROVE  IInv'
<1> USE TaskQAssumption
<1>0. shifter \in [Shifters -> [pc : {"idle", "receive", "check", "got", "return"},
                                task : Tasks \cup {None}]]
    BY DEF IInv, TypeOK
<1>1. CASE ShiftCall(s)
    <2>1. shifter[s].task = None
        BY <1>1 DEF IInv, TypeOK, ShiftCall
    <2> QED
        BY <1>1, <2>1, ShifterStaysIInv DEF ShiftCall
<1>2. CASE ShiftReceive(s)
    BY <1>2, ShiftReceiveIInv
<1>3. CASE shifter[s].task \in Tasks /\ shifter[s].task \notin rotten
           /\ (ShiftCheck(s) \/ UnShift(s))
    <2>1. PICK pc \in {"got", "return"} :
              shifter' = [shifter EXCEPT ![s] = [pc |-> pc, task |-> shifter[s].task]]
        BY <1>3 DEF ShiftCheck, UnShift
    <2>2. shifter' = [shifter EXCEPT ![s].pc = pc]
        BY <1>0, <2>1
    <2>3. shifter[s].task # None
        BY <1>3
    <2> QED
        BY <1>3, <2>2, <2>3, ShifterStaysIInv DEF ShiftCheck, UnShift
<1>4. CASE shifter[s].task \in Tasks /\ shifter[s].task \in rotten
           /\ (ShiftCheck(s) \/ UnShift(s))
    <2>1. PICK pc \in {"idle", "receive"} :
              shifter' = [shifter EXCEPT ![s] = [pc |-> pc, task |-> None]]
        BY <1>4 DEF ShiftCheck, UnShift, ShifterIdle
    <2> QED
        BY <1>4, <2>1, ShifterLeavesIInv DEF ShiftCheck, UnShift
<1>5. CASE HandOut(s) \/ UnShiftSend(s)
    <2>1. shifter[s].task \in Tasks
        BY <1>0, <1>5 DEF IInv, TypeOK, HandOut, UnShiftSend
    <2> QED
        BY <1>5, <2>1, ShifterLeavesIInv DEF HandOut, UnShiftSend, ShifterIdle
<1>6. ShiftCheck(s) \/ UnShift(s) => shifter[s].task \in Tasks
    BY <1>0 DEF IInv, TypeOK, ShiftCheck, UnShift
<1> QED
    BY <1>1, <1>2, <1>3, <1>4, <1>5, <1>6

LEMMA DoneCallIInv ==
    ASSUME IInv, NEW d \in Closers, NEW t \in Tasks, NEW r \in Results, DoneCall(d, t, r)
    PROVE  IInv'
<1> USE TaskQAssumption DEF DoneCall
<1>1. TypeOK'
    BY DEF IInv, TypeOK
<1>2. Custody'
    BY CustodyUnchanged DEF IInv
<1>3. Journey'
    BY DEF IInv, TypeOK, Journey, Somewhere
<1>4. OneResolver'
    BY DEF IInv, TypeOK, OneResolver
<1> QED
    BY <1>1, <1>2, <1>3, <1>4 DEF IInv

LEMMA DoneTakeIInv == ASSUME IInv, NEW d \in Closers, DoneTake(d) PROVE IInv'
<1> USE TaskQAssumption DEF CloserIdle
<1> PICK t \in Tasks : t = closer[d].task
    BY DEF IInv, TypeOK, DoneTake
<1>0. /\ closer[d].pc = "take" /\ submitter[t] \notin {"new", "pushing"}
      /\ resultChans' = resultChans \ {t}
      /\ t \in resultChans => /\ closer'[d].pc = "send" /\ closer'[d].task = t
                               /\ closer'[d].result = closer[d].result
      /\ t \notin resultChans => closer'[d] = CloserIdle
      /\ \A e \in Closers \ {d} : closer'[e] = closer[e]
      /\ closer' \in [Closers -> [pc : {"idle", "take", "send"}, task : Tasks \cup {None},
                                  result : Results \cup {None}]]
      /\ UNCHANGED <<submitter, answer, rotten, mainQueue, extraQueue, queuing, shifter, out>>
    BY DEF IInv, TypeOK, DoneTake, Journey, Somewhere
<1>1. TypeOK'
    BY <1>0 DEF IInv, TypeOK
<1>2. Custody'
    BY <1>0, CustodyUnchanged DEF IInv
<1>3. Journey'
    BY <1>0 DEF IInv, Journey, Somewhere
<1>4. OneResolver'
    <2> DEFINE Sends(e, u) == closer[e].pc = "send" /\ closer[e].task = u
    <2>0. \A e \in Closers, u \in Tasks :
              Sends(e, u)' => Sends(e, u) \/ (e = d /\ u = t /\ t \in resultChans)
        BY <1>0
    <2>1. ASSUME NEW u \in Tasks, NEW e \in Closers, Sends(e, u)'
          PROVE  /\ u \notin resultChans'
                 /\ submitter'[u] \in {"waiting", "expired", "timedOut"}
                 /\ \A f \in Closers : Sends(f, u)' => f = e
        <3>1. CASE u = t /\ t \in resultChans
            <4>1. \A f \in Closers : ~Sends(f, t)
                BY <3>1 DEF IInv, OneResolver
            <4>2. submitter[t] \in {"waiting", "expired", "timedOut"}
                BY <1>0, <3>1 DEF IInv, OneResolver, TypeOK, SubmitterStates
            <4> QED
                BY <1>0, <2>0, <2>1, <3>1, <4>1, <4>2
        <3>2. CASE ~(u = t /\ t \in resultChans)
            <4>1. Sends(e, u)
                BY <2>0, <2>1, <3>2
            <4>2. /\ u \notin resultChans /\ submitter[u] \in {"waiting", "expired", "timedOut"}
                  /\ \A f \in Closers : Sends(f, u) => f = e
                BY <4>1 DEF IInv, OneResolver
            <4> QED
                BY <1>0, <2>0, <3>2, <4>2
        <3> QED
            BY <3>1, <3>2
    <2>2. ASSUME NEW u \in Tasks, u \in resultChans'
          PROVE  submitter'[u] \notin {"new", "answered"}
        BY <1>0, <2>2 DEF IInv, OneResolver
    <2>3. ASSUME NEW u \in Tasks, submitter'[u] = "waiting"
          PROVE  u \in resultChans' \/ \E e \in Closers : Sends(e, u)'
        <3>1. u \in resultChans \/ \E e \in Closers : Sends(e, u)
            BY <1>0, <2>3 DEF IInv, OneResolver
        <3> QED
            BY <1>0, <3>1
    <2> QED
        BY <2>1, <2>2, <2>3 DEF OneResolver
<1> QED
    BY <1>1, <1>2, <1>3, <1>4 DEF IInv

LEMMA DoneSendIInv == ASSUME IInv, NEW d \in Closers, DoneSend(d) PROVE IInv'
<1> USE TaskQAssumption DEF CloserIdle
<1> PICK t \in Tasks : t = closer[d].task
    BY DEF IInv, TypeOK, DoneSend
<1>0. /\ closer[d].pc = "send" /\ submitter[t] = "waiting" /\ t \in out
      /\ submitter'[t] = "answered" /\ submitter' \in [Tasks -> SubmitterStates]
      /\ \A u \in Tasks \ {t} : submitter'[u] = submitter[u]
      /\ answer' \in [Tasks -> Results \cup {None}]
      /\ closer'[d] = CloserIdle
      /\ \A e \in Closers \ {d} : closer'[e] = closer[e]
      /\ closer' \in [Closers -> [pc : {"idle", "take", "send"}, task : Tasks \cup {None},
                                  result : Results \cup {None}]]
      /\ UNCHANGED <<resultChans, rotten, mainQueue, extraQueue, queuing, shifter, out>>
    BY DEF IInv, TypeOK, DoneSend, Journey, SubmitterStates
<1>1. TypeOK'
    BY <1>0 DEF IInv, TypeOK
<1>2. Custody'
    BY <1>0, CustodyUnchanged DEF IInv
<1>3. Journey'
    <2>1. \A u \in Tasks : Somewhere(u)' = Somewhere(u)
        BY <1>0 DEF Somewhere
    <2>2. /\ \A u \in Tasks : Somewhere(u) => submitter'[u] \notin {"new", "pushing"}
          /\ \A u \in Tasks : submitter'[u] = "waiting" => Somewhere(u)
          /\ \A u \in Tasks : submitter'[u] = "answered" => u \in out
          /\ \A u \in Tasks : submitter'[u] \in {"expired", "timedOut"} => u \in TimedTasks
          /\ \A u \in Tasks : submitter'[u] = "pushing" => u \in resultChans
        BY <1>0 DEF IInv, Journey
    <2>3. \A u \in rotten : submitter'[u] = "timedOut"
        BY <1>0 DEF IInv, TypeOK, Journey
    <2>4. \A e \in Closers : closer'[e].task # None => closer'[e].task \in out
        BY <1>0 DEF IInv, Journey
    <2> QED
        BY <1>0, <2>1, <2>2, <2>3, <2>4 DEF Journey
<1>4. OneResolver'
    BY <1>0 DEF IInv, OneResolver
<1> QED
    BY <1>1, <1>2, <1>3, <1>4 DEF IInv

(* Every step keeps the invariant. *)
LEMMA NextIInv == IInv /\ [Next]_taskqVars => IInv'
<1> SUFFICES ASSUME IInv, [Next]_taskqVars PROVE IInv'
    OBVIOUS
<1>1. ASSUME NEW t \in Tasks, Push(t) \/ Enqueue(t) \/ TimerFires(t) \/ MarkRotten(t)
      PROVE  IInv'
    BY <1>1, PushIInv, EnqueueIInv, TimerFiresIInv, MarkRottenIInv
<1>2. CASE FirstSelect \/ SecondSelect
    BY <1>2, FirstSelectIInv, SecondSelectIInv
<1>3. ASSUME NEW s \in Shifters, \/ ShiftCall(s) \/ ShiftReceive(s) \/ ShiftCheck(s)
                                 \/ HandOut(s) \/ UnShift(s) \/ UnShiftSend(s)
      PROVE  IInv'
    BY <1>3, ShifterIInv
<1>4. ASSUME NEW d \in Closers, \/ \E t \in Tasks, r \in Results : DoneCall(d, t, r)
                                \/ DoneTake(d) \/ DoneSend(d)
      PROVE  IInv'
    BY <1>4, DoneCallIInv, DoneTakeIInv, DoneSendIInv
<1>5. CASE UNCHANGED taskqVars
    <2>1. TypeOK' /\ Journey'
        BY <1>5 DEF IInv, TypeOK, Journey, Somewhere, taskqVars
    <2> QED
        BY <1>5, <2>1, CustodyUnchanged, ResolverUnchanged DEF IInv, taskqVars
<1> QED
    BY <1>1, <1>2, <1>3, <1>4, <1>5 DEF Next

THEOREM Invariance == Spec => []IInv
<1> QED
    BY InitIInv, NextIInv, PTL DEF Spec

----
(* The variables keep their types: a goroutine has a task exactly where the code has
   one in a local variable. *)
THEOREM TypeCorrect == Spec => []TypeOK
<1>1. IInv => TypeOK
    BY DEF IInv
<1> QED
    BY <1>1, Invariance, PTL

(* No task is in two places, so no two workers are given one. *)
THEOREM OneCustodian == Spec => []SingleCustody
<1>1. IInv => SingleCustody
    <2> SUFFICES ASSUME IInv, NEW t \in Tasks, NEW p \in Places(t), NEW q \in Places(t)
                 PROVE  p = q
        BY DEF SingleCustody
    <2>0. DOMAIN mainQueue = 1..Len(mainQueue) /\ DOMAIN extraQueue = 1..Len(extraQueue)
        BY DEF IInv, TypeOK
    <2>1. ASSUME NEW x \in Places(t)
          PROVE  \/ \E i \in DOMAIN mainQueue : x = <<"main", i>> /\ mainQueue[i] = t
                 \/ \E i \in DOMAIN extraQueue : x = <<"extra", i>> /\ extraQueue[i] = t
                 \/ \E s \in Shifters : x = <<"shifter", s>> /\ shifter[s].task = t
                 \/ x = <<"queuing">> /\ queuing.task = t
                 \/ x = <<"out">> /\ t \in out
        BY <2>0 DEF Places
    <2>2. \A i, j \in DOMAIN mainQueue : mainQueue[i] = t /\ mainQueue[j] = t => i = j
        BY DEF IInv, Custody, IsInjective
    <2>3. \A i, j \in DOMAIN extraQueue : extraQueue[i] = t /\ extraQueue[j] = t => i = j
        BY DEF IInv, Custody, IsInjective
    <2>4. \A r, s \in Shifters : shifter[r].task = t /\ shifter[s].task = t => r = s
        BY TaskQAssumption DEF IInv, Custody
    <2>5. /\ \A i \in DOMAIN mainQueue : mainQueue[i] = t => t \in Range(mainQueue)
          /\ \A i \in DOMAIN extraQueue : extraQueue[i] = t => t \in Range(extraQueue)
        BY DEF Range
    <2>6. /\ t \in Range(mainQueue) =>
                  t \notin Range(extraQueue) /\ queuing.task # t /\ t \notin out
          /\ t \in Range(extraQueue) => queuing.task # t /\ t \notin out
          /\ queuing.task = t => t \notin out
          /\ \A s \in Shifters : shifter[s].task = t =>
                  /\ t \notin Range(mainQueue) /\ t \notin Range(extraQueue)
                  /\ queuing.task # t /\ t \notin out
        BY DEF IInv, Custody
    <2>7. CASE t \in Range(mainQueue)
        BY <2>1, <2>2, <2>5, <2>6, <2>7
    <2>8. CASE t \in Range(extraQueue)
        BY <2>1, <2>3, <2>5, <2>6, <2>8
    <2>9. CASE t \notin Range(mainQueue) /\ t \notin Range(extraQueue)
        BY <2>1, <2>4, <2>5, <2>6, <2>9
    <2> QED
        BY <2>7, <2>8, <2>9
<1> QED
    BY <1>1, Invariance, PTL

(* The task of a submitter that waits is in a queue, in a Shift or with a worker. *)
THEOREM Delivered == Spec => []NothingDropped
<1>1. IInv => NothingDropped
    <2> SUFFICES ASSUME IInv, NEW t \in Tasks, Somewhere(t) PROVE Places(t) # {}
        BY DEF IInv, Journey, NothingDropped
    <2>0. DOMAIN mainQueue = 1..Len(mainQueue) /\ DOMAIN extraQueue = 1..Len(extraQueue)
        BY DEF IInv, TypeOK
    <2>1. CASE t \in Range(mainQueue)
        <3>1. PICK i \in 1..Len(mainQueue) : mainQueue[i] = t
            BY <2>0, <2>1 DEF Range
        <3>2. <<"main", i>> \in Places(t)
            BY <3>1 DEF Places
        <3> QED
            BY <3>2
    <2>2. CASE t \in Range(extraQueue)
        <3>1. PICK i \in 1..Len(extraQueue) : extraQueue[i] = t
            BY <2>0, <2>2 DEF Range
        <3>2. <<"extra", i>> \in Places(t)
            BY <3>1 DEF Places
        <3> QED
            BY <3>2
    <2>3. CASE queuing.task = t
        <3>1. <<"queuing">> \in Places(t)
            BY <2>3 DEF Places
        <3> QED
            BY <3>1
    <2>4. CASE t \in out
        <3>1. <<"out">> \in Places(t)
            BY <2>4 DEF Places
        <3> QED
            BY <3>1
    <2>5. ASSUME NEW s \in Shifters, shifter[s].task = t PROVE Places(t) # {}
        <3>1. <<"shifter", s>> \in Places(t)
            BY <2>5 DEF Places
        <3> QED
            BY <3>1
    <2> QED
        BY <2>1, <2>2, <2>3, <2>4, <2>5 DEF Somewhere
<1> QED
    BY <1>1, Invariance, PTL

(* However many Done calls race for a task, its submitter gets one result. *)
THEOREM ResolvedOnce == Spec => []OneResolver
<1>1. IInv => OneResolver
    BY DEF IInv
<1> QED
    BY <1>1, Invariance, PTL

(* A Done that nobody receives from closes a task that was submitted with a timeout. *)
THEOREM BlockedByTimeout == Spec => []DoneBlocksOnlyOnTimeout
<1>1. IInv => DoneBlocksOnlyOnTimeout
    <2> SUFFICES ASSUME IInv, NEW d \in Closers, closer[d].pc = "send",
                        submitter[closer[d].task] # "waiting"
                 PROVE  closer[d].task \in TimedTasks
        BY DEF DoneBlocksOnlyOnTimeout
    <2>1. closer[d].task \in Tasks
        BY DEF IInv, TypeOK
    <2>2. submitter[closer[d].task] \in {"expired", "timedOut"}
        BY <2>1 DEF IInv, OneResolver
    <2> QED
        BY <2>1, <2>2 DEF IInv, Journey
<1> QED
    BY <1>1, Invariance, PTL

(* A task that is rotten before Shift has looked at it never reaches a worker. *)
THEOREM RottenStopped == Spec => RottenNeverHandedOut
<1> SUFFICES ASSUME NEW t \in Tasks PROVE Spec => [](RottenInQueue(t) => [](t \notin out))
    BY DEF RottenNeverHandedOut
<1>1. IInv /\ RottenInQueue(t) /\ [Next]_taskqVars => RottenInQueue(t)'
    <2> SUFFICES ASSUME IInv, RottenInQueue(t), [Next]_taskqVars PROVE RottenInQueue(t)'
        OBVIOUS
    <2> USE TaskQAssumption DEF RottenInQueue
    <2>0. shifter \in [Shifters -> [pc : {"idle", "receive", "check", "got", "return"},
                                    task : Tasks \cup {None}]]
        BY DEF IInv, TypeOK
    <2>1. ASSUME NEW u \in Tasks, Push(u) \/ Enqueue(u) \/ TimerFires(u) \/ MarkRotten(u)
          PROVE  RottenInQueue(t)'
        BY <2>1 DEF Push, Enqueue, TimerFires, MarkRotten
    <2>2. CASE FirstSelect \/ SecondSelect
        BY <2>2 DEF FirstSelect, SecondSelect
    <2>3. ASSUME NEW s \in Shifters, ShiftCall(s) \/ ShiftReceive(s) \/ ShiftCheck(s)
          PROVE  RottenInQueue(t)'
        <3>1. /\ UNCHANGED <<rotten, out>>
              /\ \A r \in Shifters \ {s} : shifter'[r] = shifter[r]
            BY <2>0, <2>3 DEF ShiftCall, ShiftReceive, ShiftCheck
        <3>2. ShiftCall(s) => shifter'[s].task # t
            BY <2>0 DEF ShiftCall
        <3>3. ShiftReceive(s) => shifter'[s].pc = "check"
            BY <2>0 DEF ShiftReceive
        <3>4. ShiftCheck(s) => shifter'[s].task # t
            BY <2>0 DEF ShiftCheck
        <3> QED
            BY <2>3, <3>1, <3>2, <3>3, <3>4
    <2>4. ASSUME NEW s \in Shifters, HandOut(s) \/ UnShift(s) \/ UnShiftSend(s)
          PROVE  RottenInQueue(t)'
        BY <2>0, <2>4 DEF HandOut, UnShift, UnShiftSend, ShifterIdle
    <2>5. ASSUME NEW d \in Closers, \/ \E u \in Tasks, r \in Results : DoneCall(d, u, r)
                                    \/ DoneTake(d) \/ DoneSend(d)
          PROVE  RottenInQueue(t)'
        BY <2>5 DEF DoneCall, DoneTake, DoneSend
    <2>6. CASE UNCHANGED taskqVars
        BY <2>6 DEF taskqVars
    <2> QED
        BY <2>1, <2>2, <2>3, <2>4, <2>5, <2>6 DEF Next
<1>2. RottenInQueue(t) => t \notin out
    BY DEF RottenInQueue
<1> QED
    BY <1>1, <1>2, Invariance, PTL DEF Spec

----
(* Refinement: how the steps of the queue look to the service. *)

(* Every step of the queue is one of TaskService or changes nothing it speaks of. *)
LEMMA StepImplements ==
    ASSUME IInv, [Next]_taskqVars
    PROVE  [Service!Next]_(Service!vars)
<1> DEFINE o == [t \in Tasks |-> Outcome(t)]
           stutters == o' = o /\ out' = out
<1> USE TaskQAssumption
<1>0. TypeOK /\ TypeOK'
    BY NextIInv DEF IInv
<1>s. ASSUME UNCHANGED <<submitter, out>> PROVE stutters
    BY <1>s DEF Outcome
<1>1. ASSUME NEW t \in Tasks, Push(t) PROVE Service!Submit(t)
    <2>1. submitter' = [submitter EXCEPT ![t] = "pushing"] /\ submitter[t] = "new" /\ out' = out
        BY <1>1 DEF Push
    <2>2. \A u \in Tasks \ {t} : Outcome(u)' = Outcome(u)
        BY <1>0, <2>1 DEF TypeOK, Outcome
    <2>3. Outcome(t) = "none" /\ Outcome(t)' = "pending"
        BY <1>0, <2>1 DEF TypeOK, Outcome
    <2> QED
        BY <2>1, <2>2, <2>3 DEF Service!Submit
<1>2. ASSUME NEW t \in Tasks, Enqueue(t) \/ MarkRotten(t) PROVE stutters
    <2>1. \A u \in Tasks \ {t} : Outcome(u)' = Outcome(u)
        <3>1. \A u \in Tasks \ {t} : submitter'[u] = submitter[u]
            BY <1>0, <1>2 DEF TypeOK, Enqueue, MarkRotten
        <3> QED
            BY <3>1 DEF Outcome
    <2>2. Enqueue(t) => Outcome(t) = "pending" /\ Outcome(t)' = "pending"
        BY <1>0 DEF TypeOK, Outcome, Enqueue
    <2>3. MarkRotten(t) => Outcome(t) = "timeout" /\ Outcome(t)' = "timeout"
        BY <1>0 DEF TypeOK, Outcome, MarkRotten
    <2>4. out' = out
        BY <1>2 DEF Enqueue, MarkRotten
    <2> QED
        BY <1>2, <2>1, <2>2, <2>3, <2>4
<1>3. ASSUME NEW t \in Tasks, TimerFires(t) PROVE Service!Expire(t)
    <2>1. submitter' = [submitter EXCEPT ![t] = "expired"] /\ submitter[t] = "waiting" /\ out' = out
        BY <1>3 DEF TimerFires
    <2>2. \A u \in Tasks \ {t} : Outcome(u)' = Outcome(u)
        BY <1>0, <2>1 DEF TypeOK, Outcome
    <2>3. Outcome(t) = "pending" /\ Outcome(t)' = "timeout"
        BY <1>0, <2>1 DEF TypeOK, Outcome
    <2> QED
        BY <1>3, <2>1, <2>2, <2>3 DEF Service!Expire, TimerFires
<1>4. CASE FirstSelect \/ SecondSelect
    <2>1. UNCHANGED <<submitter, out>>
        BY <1>4 DEF FirstSelect, SecondSelect
    <2> QED
        BY <1>s, <2>1 DEF Service!vars
<1>5. ASSUME NEW s \in Shifters, \/ ShiftCall(s) \/ ShiftReceive(s) \/ ShiftCheck(s)
                                 \/ UnShift(s) \/ UnShiftSend(s)
      PROVE  stutters
    BY <1>5, <1>s DEF ShiftCall, ShiftReceive, ShiftCheck, UnShift, UnShiftSend
<1>6. ASSUME NEW s \in Shifters, HandOut(s) PROVE \E t \in Tasks : Service!Start(t)
    <2> PICK t \in Tasks : t = shifter[s].task
        BY <1>6 DEF IInv, TypeOK, HandOut
    <2>1. out' = out \cup {t} /\ UNCHANGED submitter
        BY <1>6 DEF HandOut
    <2>2. t \notin out
        BY DEF IInv, Custody
    <2>3. submitter[t] \notin {"new", "pushing", "answered"}
        BY <2>2 DEF IInv, Journey, Somewhere
    <2>4. Outcome(t) \in {"pending", "timeout"}
        BY <1>0, <2>3 DEF Outcome, TypeOK, SubmitterStates
    <2>5. o' = o
        BY <2>1 DEF Outcome
    <2> QED
        BY <2>1, <2>2, <2>4, <2>5 DEF Service!Start
<1>7. ASSUME NEW d \in Closers, \/ \E t \in Tasks, r \in Results : DoneCall(d, t, r)
                                \/ DoneTake(d)
      PROVE  stutters
    BY <1>7, <1>s DEF DoneCall, DoneTake
<1>8. ASSUME NEW d \in Closers, DoneSend(d) PROVE \E t \in Tasks : Service!Answer(t)
    <2> PICK t \in Tasks : t = closer[d].task
        BY <1>8 DEF IInv, TypeOK, DoneSend
    <2>1. /\ submitter' = [submitter EXCEPT ![t] = "answered"] /\ submitter[t] = "waiting"
          /\ out' = out /\ t \in out
        BY <1>8 DEF IInv, Journey, DoneSend
    <2>2. \A u \in Tasks \ {t} : Outcome(u)' = Outcome(u)
        BY <1>0, <2>1 DEF TypeOK, Outcome
    <2>3. Outcome(t) = "pending" /\ Outcome(t)' = "answered"
        BY <1>0, <2>1 DEF TypeOK, Outcome
    <2> QED
        BY <2>1, <2>2, <2>3 DEF Service!Answer
<1>9. CASE UNCHANGED taskqVars
    <2>1. UNCHANGED <<submitter, out>>
        BY <1>9 DEF taskqVars
    <2> QED
        BY <1>s, <2>1 DEF Service!vars
<1> QED
    BY <1>1, <1>2, <1>3, <1>4, <1>5, <1>6, <1>7, <1>8, <1>9
    DEF Next, Service!Next, Service!vars

(* The goroutines, channels and locks of taskq implement TaskService. *)
THEOREM Implements == Spec => ImplementsService
<1>1. Init => Service!Init
    BY DEF Init, Service!Init, Outcome
<1>2. IInv /\ [Next]_taskqVars => [Service!Next]_(Service!vars)
    BY StepImplements
<1> QED
    BY <1>1, <1>2, Invariance, PTL DEF Spec, ImplementsService, Service!Spec
====
