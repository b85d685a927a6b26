---- MODULE SyncMutex ----
(***************************************************************************)
(* The named locks that blank-one gives to its workers: sync.lock and      *)
(* sync.unlock of sr/srserver.go over blank-sr/sync/mutex.go.              *)
(*                                                                         *)
(* A lock is a Go channel of capacity 1, made by the first request for an  *)
(* id and dropped by the last unlock.  The requests for an id are counted, *)
(* and mutexLocker guards the maps.  Unlock receives from the channel with *)
(* mutexLocker locked, so an Unlock that waits stops every other request.  *)
(*                                                                         *)
(* A channel is modelled as the sequence of the calls whose token is in    *)
(* it: the first in the buffer, the others blocked in their send.  Go      *)
(* serves blocked senders in the order they arrived.                       *)
(***************************************************************************)
EXTENDS Integers, Sequences, FiniteSets

CONSTANTS Owners,       \* connections: sync.lock passes c.ID()
          Ids,          \* names of locks
          Calls,        \* what clients do with a lock: a request, then the unlock
          OwnerOf,      \* the connection of each call
          Misused,      \* ids that some client also unlocks without holding them
          MaxRequests,  \* bound: how many sync.lock requests arrive
          None

ASSUME SyncMutexAssumption ==
    /\ IsFiniteSet(Calls)
    /\ OwnerOf \in [Calls -> Owners]
    /\ Misused \subseteq Ids
    /\ None \notin Calls \cup Ids
    /\ MaxRequests \in Nat

(* A channel is named after the request that would make it. *)
Lockers == 1..MaxRequests

VARIABLES
    lockers,          \* the map: which channel an id has, 0 if none
    chan,             \* the channels
    lockersCounters,  \* the counts (0: no entry)
    owners2Lockers,   \* the ids each owner is listed with
    mutexLocker,      \* the call that has mutexLocker across a receive, or None
    call,             \* the calls
    alive,            \* connections that still send requests
    requests          \* sync.lock requests so far

vars == <<lockers, chan, lockersCounters, owners2Lockers, mutexLocker, call,
          alive, requests>>

----
CallStates == {"idle", "lock", "registered", "sending", "held", "unlock", "receiving"}

Idle == [pc |-> "idle", id |-> None, locker |-> 0]

TypeOK ==
    /\ lockers \in [Ids -> 0..MaxRequests]
    /\ chan \in [Lockers -> Seq(Calls)]
    /\ lockersCounters \in [Ids -> Int]
    /\ owners2Lockers \in [Owners -> SUBSET Ids]
    /\ mutexLocker \in Calls \cup {None}
    /\ call \in [Calls -> [pc : CallStates, id : Ids \cup {None},
                           locker : 0..MaxRequests]]
    /\ \A c \in Calls : /\ call[c].pc = "idle" <=> call[c].id = None
                        /\ call[c].pc = "receiving" <=> mutexLocker = c
    /\ alive \subseteq Owners
    /\ requests \in 0..MaxRequests

Init ==
    /\ lockers = [i \in Ids |-> 0]
    /\ chan = [m \in Lockers |-> <<>>]
    /\ lockersCounters = [i \in Ids |-> 0]
    /\ owners2Lockers = [o \in Owners |-> {}]
    /\ mutexLocker = None
    /\ call = [c \in Calls |-> Idle]
    /\ alive = Owners
    /\ requests = 0

Goto(c, pc) == call' = [call EXCEPT ![c].pc = pc]

----
(* sync.lock *)

LockCall(c, i) ==
    /\ call[c].pc = "idle"
    /\ OwnerOf[c] \in alive
    /\ requests < MaxRequests
    /\ requests' = requests + 1
    /\ call' = [call EXCEPT ![c] = [pc |-> "lock", id |-> i, locker |-> requests + 1]]
    /\ UNCHANGED <<lockers, chan, lockersCounters, owners2Lockers, mutexLocker,
                   alive>>

(* Mutant: the count is set by the first request only. *)
RegisterCountsOnce(c) ==
    LET i == call[c].id
        m == IF lockers[i] = 0 THEN call[c].locker ELSE lockers[i]
    IN  /\ call[c].pc = "lock"
        /\ mutexLocker = None
        /\ lockers' = [lockers EXCEPT ![i] = m]
        /\ owners2Lockers' = [owners2Lockers EXCEPT ![OwnerOf[c]] = @ \cup {i}]
        /\ lockersCounters' = [lockersCounters EXCEPT ![i] = 1]
        /\ call' = [call EXCEPT ![c].pc = "registered", ![c].locker = m]
        /\ UNCHANGED <<chan, mutexLocker, alive, requests>>

(* Under mutexLocker: find or make the channel, list the owner, count the request. *)
Register(c) ==
    LET i == call[c].id
        m == IF lockers[i] = 0 THEN call[c].locker ELSE lockers[i]
    IN  /\ call[c].pc = "lock"
        /\ mutexLocker = None
        /\ lockers' = [lockers EXCEPT ![i] = m]
        /\ owners2Lockers' = [owners2Lockers EXCEPT ![OwnerOf[c]] = @ \cup {i}]
        /\ lockersCounters' = [lockersCounters EXCEPT ![i] = @ + 1]
        /\ call' = [call EXCEPT ![c].pc = "registered", ![c].locker = m]
        /\ UNCHANGED <<chan, mutexLocker, alive, requests>>

(* l.ch <- struct{}{} *)
Send(c) ==
    /\ call[c].pc = "registered"
    /\ chan' = [chan EXCEPT ![call[c].locker] = Append(@, c)]
    /\ Goto(c, "sending")
    /\ UNCHANGED <<lockers, lockersCounters, owners2Lockers, mutexLocker, alive,
                   requests>>

(* The send is over once the token is in the buffer, and stays so if an Unlock
   received it in the meantime. *)
Sent(c) == \A k \in 2..Len(chan[call[c].locker]) : chan[call[c].locker][k] # c

Locked(c) ==
    /\ call[c].pc = "sending"
    /\ Sent(c)
    /\ Goto(c, "held")
    /\ UNCHANGED <<lockers, chan, lockersCounters, owners2Lockers, mutexLocker,
                   alive, requests>>

----
(* sync.unlock *)

UnlockCall(c) ==
    /\ call[c].pc = "held"
    /\ OwnerOf[c] \in alive
    /\ Goto(c, "unlock")
    /\ UNCHANGED <<lockers, chan, lockersCounters, owners2Lockers, mutexLocker,
                   alive, requests>>

(* No check that the owner holds the lock: a client may unlock any id. *)
UnlockUnheld(c, i) ==
    /\ call[c].pc = "idle"
    /\ OwnerOf[c] \in alive
    /\ i \in Misused
    /\ call' = [call EXCEPT ![c] = [pc |-> "unlock", id |-> i, locker |-> 0]]
    /\ UNCHANGED <<lockers, chan, lockersCounters, owners2Lockers, mutexLocker,
                   alive, requests>>

(* Mutant: the early return does not unlock mutexLocker. *)
UnlockKeepsMutex(c) ==
    /\ call[c].pc = "unlock"
    /\ mutexLocker = None
    /\ mutexLocker' = c
    /\ \/ /\ lockers[call[c].id] = 0
          /\ call' = [call EXCEPT ![c] = Idle]
       \/ /\ lockers[call[c].id] # 0
          /\ Goto(c, "receiving")
    /\ UNCHANGED <<lockers, chan, lockersCounters, owners2Lockers, alive, requests>>

(* Under mutexLocker: an id without a channel is logged and ignored. *)
UnlockEnter(c) ==
    /\ call[c].pc = "unlock"
    /\ mutexLocker = None
    /\ \/ /\ lockers[call[c].id] = 0
          /\ call' = [call EXCEPT ![c] = Idle]
          /\ UNCHANGED mutexLocker
       \/ /\ lockers[call[c].id] # 0
          /\ Goto(c, "receiving")
          /\ mutexLocker' = c
    /\ UNCHANGED <<lockers, chan, lockersCounters, owners2Lockers, alive,
                   requests>>

(* Mutants: the channel is dropped whatever the count; the count is not lowered. *)
UnlockDropsChannel(c) ==
    LET i == call[c].id IN
    /\ call[c].pc = "receiving"
    /\ chan[lockers[i]] # <<>>
    /\ chan' = [chan EXCEPT ![lockers[i]] = Tail(@)]
    /\ lockersCounters' = [lockersCounters EXCEPT ![i] = 0]
    /\ lockers' = [lockers EXCEPT ![i] = 0]
    /\ owners2Lockers' = [owners2Lockers EXCEPT ![OwnerOf[c]] = @ \ {i}]
    /\ mutexLocker' = None
    /\ call' = [call EXCEPT ![c] = Idle]
    /\ UNCHANGED <<alive, requests>>

UnlockKeepsCount(c) ==
    LET i == call[c].id IN
    /\ call[c].pc = "receiving"
    /\ chan[lockers[i]] # <<>>
    /\ chan' = [chan EXCEPT ![lockers[i]] = Tail(@)]
    /\ owners2Lockers' = [owners2Lockers EXCEPT ![OwnerOf[c]] = @ \ {i}]
    /\ mutexLocker' = None
    /\ call' = [call EXCEPT ![c] = Idle]
    /\ UNCHANGED <<lockers, lockersCounters, alive, requests>>

(* <-l.ch and, still under mutexLocker, the count, the maps and the list. *)
UnlockReceive(c) ==
    LET i == call[c].id
        m == lockers[i]
        n == lockersCounters[i] - 1
    IN  /\ call[c].pc = "receiving"
        /\ chan[m] # <<>>
        /\ chan' = [chan EXCEPT ![m] = Tail(@)]
        /\ lockersCounters' = [lockersCounters EXCEPT ![i] = n]
        /\ lockers' = IF n = 0 THEN [lockers EXCEPT ![i] = 0] ELSE lockers
        /\ owners2Lockers' = [owners2Lockers EXCEPT ![OwnerOf[c]] = @ \ {i}]
        /\ mutexLocker' = None
        /\ call' = [call EXCEPT ![c] = Idle]
        /\ UNCHANGED <<alive, requests>>

(* A connection is lost: nothing is unlocked for it (internalCloseCallback), and
   the goroutines of its requests go on. *)
Disconnect(o) ==
    /\ o \in alive
    /\ alive' = alive \ {o}
    /\ UNCHANGED <<lockers, chan, lockersCounters, owners2Lockers, mutexLocker,
                   call, requests>>

----
Next ==
    \/ \E c \in Calls : \/ Register(c) \/ Send(c) \/ Locked(c)
                        \/ UnlockCall(c) \/ UnlockEnter(c) \/ UnlockReceive(c)
    \/ \E c \in Calls, i \in Ids : LockCall(c, i) \/ UnlockUnheld(c, i)
    \/ \E o \in Owners : Disconnect(o)

Spec == Init /\ [][Next]_vars

(* The goroutines are scheduled, mutexLocker is a fair sync.Mutex (it hands itself
   to a waiter that starves), and a client that is there unlocks what it holds. *)
Fairness ==
    \A c \in Calls :
        /\ SF_vars(Register(c) \/ UnlockEnter(c))
        /\ WF_vars(Send(c) \/ Locked(c) \/ UnlockReceive(c) \/ UnlockCall(c))

FairSpec == Spec /\ Fairness

----
Holds(c, i) == call[c].pc \in {"held", "unlock"} /\ call[c].id = i /\ call[c].locker # 0

(* At most one client holds a lock that clients unlock only when they hold it. *)
MutualExclusion ==
    \A i \in Ids \ Misused : \A c, d \in Calls : Holds(c, i) /\ Holds(d, i) => c = d

(* lockersCounters counts the requests that have a token in the channel or are about
   to put it there, and an id has a channel exactly while its count is positive:
   with or without misuse no request is left on a channel that was dropped. *)
Waiting(i) == {c \in Calls : call[c].pc = "registered" /\ call[c].id = i}
Tokens(i)  == IF lockers[i] = 0 THEN 0 ELSE Len(chan[lockers[i]])

CounterAccounts ==
    \A i \in Ids : /\ lockersCounters[i] = Cardinality(Waiting(i)) + Tokens(i)
                   /\ lockers[i] # 0 <=> lockersCounters[i] > 0

NoLockerLost ==
    \A c \in Calls : call[c].pc \in {"registered", "sending"} =>
        \/ call[c].locker = lockers[call[c].id]
        \/ call[c].pc = "sending" /\ Sent(c)

(* An Unlock that waits in its receive is always let go by a request that is on its
   way to the channel: mutexLocker comes back, whatever the clients unlock. *)
MutexLockerReturns == mutexLocker # None ~> mutexLocker = None

(* Every lock request is granted, unless a client that holds the lock is gone. *)
HolderGone(i) == \E c \in Calls : call[c].pc = "held" /\ call[c].id = i
                                  /\ OwnerOf[c] \notin alive

LockGranted ==
    \A c \in Calls : call[c].pc = "lock" ~> call[c].pc = "held" \/ HolderGone(call[c].id)
====
