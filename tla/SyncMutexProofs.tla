---- MODULE SyncMutexProofs ----
(***************************************************************************)
(* Proofs about SyncMutex, for any number of connections, calls, ids and   *)
(* requests: its types, the count of requests, that nobody is left on a    *)
(* dropped channel, and mutual exclusion.                                  *)
(***************************************************************************)
EXTENDS SyncMutex, FiniteSetTheorems, TLAPS

(* A request that has not been registered names a channel nobody else knows. *)
Fresh ==
    \A c \in Calls : call[c].pc = "lock" =>
        /\ call[c].locker \in 1..requests
        /\ chan[call[c].locker] = <<>>
        /\ \A i \in Ids : lockers[i] # call[c].locker
        /\ \A d \in Calls : d # c => call[d].locker # call[c].locker

(* Channels are named after requests that have arrived. *)
Bounded ==
    /\ \A i \in Ids : lockers[i] <= requests
    /\ \A c \in Calls : call[c].locker <= requests
    /\ \A m \in Lockers : m > requests => chan[m] = <<>>

(* Two ids never share a channel. *)
OwnChannel == \A i, j \in Ids : lockers[i] = lockers[j] /\ lockers[i] # 0 => i = j

(* What a call may rely on where it is. *)
Pointers ==
    \A c \in Calls :
        /\ call[c].pc = "registered" => call[c].locker = lockers[call[c].id]
        /\ call[c].pc \in {"lock", "registered", "sending", "held"} => call[c].locker # 0
        /\ call[c].pc = "receiving" => lockers[call[c].id] # 0
        /\ call[c].pc \in {"unlock", "receiving"} /\ call[c].locker = 0
               => call[c].id \in Misused

(* A token belongs to a call that uses this channel, which is the channel of its id;
   only the first one may be past its send, and a call has one token. *)
TokensOwned ==
    \A m \in Lockers : \A k \in 1..Len(chan[m]) :
        /\ call[chan[m][k]].locker = m
        /\ call[chan[m][k]].pc \in {"sending", "held", "unlock", "receiving"}
        /\ k > 1 => call[chan[m][k]].pc = "sending"
        /\ lockers[call[chan[m][k]].id] = m
        /\ \A l \in 1..Len(chan[m]) : chan[m][l] = chan[m][k] => l = k

(* On an id that is not misused, a sender has its token in the channel and a holder
   has the first one. *)
Disciplined ==
    \A c \in Calls : call[c].id \notin Misused =>
        /\ call[c].pc = "sending" =>
               \E k \in 1..Len(chan[call[c].locker]) : chan[call[c].locker][k] = c
        /\ call[c].pc \in {"held", "unlock", "receiving"} =>
               /\ chan[call[c].locker] # <<>>
               /\ chan[call[c].locker][1] = c

IInv == /\ TypeOK /\ Fresh /\ Bounded /\ OwnChannel /\ Pointers /\ TokensOwned
        /\ Disciplined /\ CounterAccounts

----
(* The invariant holds initially: no channel, no count, every call idle. *)
LEMMA InitIInv == Init => IInv
<1> SUFFICES ASSUME Init PROVE IInv
    OBVIOUS
<1> USE SyncMutexAssumption DEF Init, Idle, Lockers
<1>1. TypeOK
    BY DEF TypeOK, CallStates
<1>2. Fresh /\ Bounded /\ OwnChannel /\ Pointers /\ TokensOwned
    BY DEF Fresh, Bounded, OwnChannel, Pointers, TokensOwned
<1>3. Disciplined
    BY DEF Disciplined
<1>4. CounterAccounts
    <2>1. \A i \in Ids : Waiting(i) = {}
        BY DEF Waiting
    <2>2. Cardinality({}) = 0
        BY FS_EmptySet
    <2>3. \A i \in Ids : Cardinality(Waiting(i)) = 0 /\ Tokens(i) = 0
        BY <2>1, <2>2 DEF Tokens
    <2> QED
        BY <2>3 DEF CounterAccounts
<1> QED
    BY <1>1, <1>2, <1>3, <1>4 DEF IInv

(* Waiting(i) is finite, and only a step into or out of "registered" changes it. *)
LEMMA WaitingFinite ==
    ASSUME NEW i \in Ids
    PROVE  /\ IsFiniteSet(Waiting(i))
           /\ Cardinality(Waiting(i)) \in Nat
<1>1. Waiting(i) \subseteq Calls
    BY DEF Waiting
<1> QED
    BY <1>1, SyncMutexAssumption, FS_Subset, FS_CardinalityType

(* What the invariant says of one token. *)
LEMMA Token ==
    ASSUME IInv, NEW n \in Lockers, NEW k \in 1..Len(chan[n])
    PROVE  /\ chan[n] \in Seq(Calls) /\ Len(chan[n]) \in Nat /\ chan[n][k] \in Calls
           /\ call[chan[n][k]].locker = n
           /\ call[chan[n][k]].pc \in {"sending", "held", "unlock", "receiving"}
           /\ k > 1 => call[chan[n][k]].pc = "sending"
           /\ call[chan[n][k]].id \in Ids
           /\ lockers[call[chan[n][k]].id] = n
           /\ \A l \in 1..Len(chan[n]) : chan[n][l] = chan[n][k] => l = k
<1>1. chan[n] \in Seq(Calls)
    BY DEF IInv, TypeOK
<1>2. Len(chan[n]) \in Nat /\ chan[n][k] \in Calls
    BY <1>1
<1>3. /\ call[chan[n][k]].pc \in {"sending", "held", "unlock", "receiving"}
      /\ k > 1 => call[chan[n][k]].pc = "sending"
      /\ call[chan[n][k]].locker = n
      /\ lockers[call[chan[n][k]].id] = n
      /\ \A l \in 1..Len(chan[n]) : chan[n][l] = chan[n][k] => l = k
    BY DEF IInv, TokensOwned
<1> QED
    BY <1>1, <1>2, <1>3 DEF IInv, TypeOK

LEMMA LockCallIInv ==
    ASSUME IInv, NEW c \in Calls, NEW j \in Ids, LockCall(c, j)
    PROVE  IInv'
<1> USE SyncMutexAssumption DEF LockCall, Lockers
<1>1. TypeOK'
    BY DEF IInv, TypeOK, CallStates
<1>2. Fresh'
    BY DEF IInv, TypeOK, Fresh, Bounded
<1>3. Bounded' /\ OwnChannel' /\ Pointers'
    BY DEF IInv, TypeOK, Bounded, OwnChannel, Pointers
<1>4. TokensOwned'
    <2>1. call[c].pc = "idle" /\ chan' = chan /\ lockers' = lockers
        OBVIOUS
    <2>2. \A d \in Calls \ {c} : call'[d] = call[d]
        BY DEF IInv, TypeOK
    <2>3. \A m \in Lockers : \A k \in 1..Len(chan[m]) : chan[m][k] \in Calls \ {c}
        BY <2>1, Token
    <2> QED
        BY <2>1, <2>2, <2>3 DEF IInv, TokensOwned
<1>5. Disciplined'
    BY DEF IInv, TypeOK, Disciplined
<1>6. CounterAccounts'
    <2>1. \A i \in Ids : Waiting(i)' = Waiting(i)
        BY DEF IInv, TypeOK, Waiting
    <2> QED
        BY <2>1 DEF IInv, CounterAccounts, Tokens
<1> QED
    BY <1>1, <1>2, <1>3, <1>4, <1>5, <1>6 DEF IInv

LEMMA RegisterIInv ==
    ASSUME IInv, NEW c \in Calls, Register(c)
    PROVE  IInv'
<1> DEFINE j == call[c].id
           m == IF lockers[j] = 0 THEN call[c].locker ELSE lockers[j]
<1> USE SyncMutexAssumption DEF Lockers
<1>t. /\ j \in Ids /\ m \in Lockers /\ m <= requests /\ requests \in 0..MaxRequests
      /\ call[c].pc = "lock" /\ mutexLocker = None
      /\ call[c] \in [pc : CallStates, id : Ids \cup {None}, locker : 0..MaxRequests]
      /\ lockers[j] = 0 => m = call[c].locker /\ chan[m] = <<>>
                           /\ \A i \in Ids : lockers[i] # m
                           /\ \A d \in Calls : d # c => call[d].locker # m
      /\ lockers[j] # 0 => m = lockers[j]
    BY DEF IInv, TypeOK, Fresh, Bounded, Register
<1>0. /\ lockers' = [lockers EXCEPT ![j] = m]
      /\ lockersCounters' = [lockersCounters EXCEPT ![j] = @ + 1]
      /\ owners2Lockers' = [owners2Lockers EXCEPT ![OwnerOf[c]] = @ \cup {j}]
      /\ call' = [call EXCEPT ![c] = [call[c] EXCEPT !.pc = "registered", !.locker = m]]
      /\ UNCHANGED <<chan, mutexLocker, alive, requests>>
    BY DEF Register
<1> HIDE DEF m
<1>a. /\ lockers'[j] = m
      /\ \A i \in Ids \ {j} : lockers'[i] = lockers[i]
      /\ lockers' \in [Ids -> 0..MaxRequests]
    BY <1>t, <1>0 DEF IInv, TypeOK
<1>b. /\ call' \in [Calls -> [pc : CallStates, id : Ids \cup {None}, locker : 0..MaxRequests]]
      /\ call'[c].pc = "registered" /\ call'[c].id = j /\ call'[c].locker = m
      /\ \A d \in Calls \ {c} : call'[d] = call[d]
    <2> DEFINE CallT == [pc : CallStates, id : Ids \cup {None}, locker : 0..MaxRequests]
               registered == [call[c] EXCEPT !.pc = "registered", !.locker = m]
    <2>1. m \in 0..MaxRequests /\ call[c] \in CallT /\ call \in [Calls -> CallT]
        BY <1>t DEF IInv, TypeOK
    <2>2. registered \in CallT
        BY <2>1 DEF CallStates
    <2>3. registered.pc = "registered" /\ registered.id = j /\ registered.locker = m
        BY <2>1
    <2> HIDE DEF CallT, registered
    <2>4. /\ call' \in [Calls -> CallT] /\ call'[c] = registered
          /\ \A d \in Calls \ {c} : call'[d] = call[d]
        BY <1>0, <2>1, <2>2 DEF registered
    <2> QED
        BY <2>3, <2>4 DEF CallT
<1>1. TypeOK'
    <2>1. lockers' \in [Ids -> 0..MaxRequests] /\ lockersCounters' \in [Ids -> Int]
        BY <1>t, <1>0 DEF IInv, TypeOK
    <2>2. owners2Lockers' \in [Owners -> SUBSET Ids]
        BY <1>t, <1>0 DEF IInv, TypeOK
    <2>3. \A d \in Calls : /\ call'[d].pc = "idle" <=> call'[d].id = None
                           /\ call'[d].pc = "receiving" <=> mutexLocker' = d
        BY <1>t, <1>0, <1>b DEF IInv, TypeOK
    <2> QED
        BY <1>0, <1>b, <2>1, <2>2, <2>3 DEF IInv, TypeOK
<1>2. Fresh'
    BY <1>t, <1>0, <1>b DEF IInv, TypeOK, Fresh, Bounded
<1>3. Bounded' /\ OwnChannel'
    <2>1. OwnChannel'
        BY <1>t, <1>a DEF IInv, OwnChannel
    <2>2. (\A i \in Ids : lockers'[i] <= requests) /\ \A d \in Calls : call'[d].locker <= requests
        BY <1>t, <1>a, <1>b DEF IInv, Bounded
    <2> QED
        BY <1>0, <2>1, <2>2 DEF IInv, Bounded
<1>4. Pointers'
    BY <1>t, <1>0, <1>b DEF IInv, TypeOK, Pointers
<1>5. TokensOwned'
    <2> SUFFICES ASSUME NEW n \in Lockers, NEW k \in 1..Len(chan'[n])
                 PROVE  /\ call'[chan'[n][k]].locker = n
                        /\ call'[chan'[n][k]].pc \in {"sending", "held", "unlock", "receiving"}
                        /\ k > 1 => call'[chan'[n][k]].pc = "sending"
                        /\ lockers'[call'[chan'[n][k]].id] = n
                        /\ \A l \in 1..Len(chan'[n]) : chan'[n][l] = chan'[n][k] => l = k
        BY DEF TokensOwned
    <2>0. chan' = chan /\ k \in 1..Len(chan[n])
        BY <1>0
    <2> DEFINE x == chan[n][k]
    <2>1. x \in Calls /\ call'[x] = call[x]
        <3>1. x \in Calls /\ call[x].pc # "lock"
            BY <2>0, Token
        <3> QED
            BY <1>t, <1>b, <3>1
    <2>2. lockers'[call[x].id] = n
        <3>1. call[x].id \in Ids /\ lockers[call[x].id] = n
            BY <2>0, Token
        <3>2. call[x].id = j => m = n
            BY <1>t, <3>1
        <3> QED
            BY <1>a, <3>1, <3>2
    <2> QED
        BY <2>0, <2>1, <2>2, Token
<1>6. Disciplined'
    BY <1>t, <1>0, <1>b DEF IInv, Disciplined
<1>7. CounterAccounts'
    <2> SUFFICES ASSUME NEW i \in Ids
                 PROVE  /\ lockersCounters'[i] = Cardinality(Waiting(i)') + Tokens(i)'
                        /\ lockers'[i] # 0 <=> lockersCounters'[i] > 0
        BY DEF CounterAccounts
    <2>1. Tokens(i)' = Tokens(i) /\ Tokens(i) \in Nat
        BY <1>t, <1>0, <1>b DEF IInv, TypeOK, Fresh, Tokens
    <2>2. CASE i = j
        <3>1. Waiting(i)' = Waiting(i) \cup {c} /\ c \notin Waiting(i)
            BY <1>t, <1>0, <1>b, <2>2 DEF IInv, TypeOK, Waiting
        <3>2. Cardinality(Waiting(i)') = Cardinality(Waiting(i)) + 1
            BY <3>1, WaitingFinite, FS_AddElement
        <3>3. /\ lockersCounters'[i] = lockersCounters[i] + 1 /\ lockers'[i] = m /\ m # 0
              /\ lockersCounters[i] = Cardinality(Waiting(i)) + Tokens(i)
            BY <1>t, <1>0, <1>a, <2>2 DEF IInv, TypeOK, CounterAccounts
        <3>4. Cardinality(Waiting(i)) \in Nat
            BY WaitingFinite
        <3> QED
            BY <2>1, <3>2, <3>3, <3>4
    <2>3. CASE i # j
        <3>1. Waiting(i)' = Waiting(i)
            BY <1>t, <1>0, <1>b, <2>3 DEF IInv, TypeOK, Waiting
        <3> QED
            BY <1>t, <1>0, <1>b, <2>1, <2>3, <3>1 DEF IInv, TypeOK, CounterAccounts
    <2> QED
        BY <2>2, <2>3
<1> QED
    BY <1>1, <1>2, <1>3, <1>4, <1>5, <1>6, <1>7 DEF IInv

LEMMA SendIInv ==
    ASSUME IInv, NEW c \in Calls, Send(c)
    PROVE  IInv'
<1> DEFINE j == call[c].id
           m == call[c].locker
<1> USE SyncMutexAssumption DEF Lockers
<1>0. /\ j \in Ids /\ m \in Lockers /\ lockers[j] = m /\ call[c].pc = "registered"
      /\ chan' = [chan EXCEPT ![m] = Append(chan[m], c)]
      /\ call' = [call EXCEPT ![c] = [pc |-> "sending", id |-> j, locker |-> m]]
      /\ chan[m] \in Seq(Calls)
      /\ UNCHANGED <<lockers, lockersCounters, owners2Lockers, mutexLocker, alive, requests>>
    <2>1. j \in Ids /\ m \in Lockers /\ lockers[j] = m /\ chan[m] \in Seq(Calls)
        BY DEF IInv, TypeOK, Pointers, Send
    <2>2. call[c] \in [pc : CallStates, id : Ids \cup {None}, locker : 0..MaxRequests]
        BY DEF IInv, TypeOK
    <2>3. [call[c] EXCEPT !.pc = "sending"] = [pc |-> "sending", id |-> j, locker |-> m]
        BY <2>2
    <2> QED
        BY <2>1, <2>3 DEF Send, Goto
<1>a. /\ Len(chan'[m]) = Len(chan[m]) + 1
      /\ \A k \in 1..Len(chan[m]) : chan'[m][k] = chan[m][k]
      /\ chan'[m][Len(chan[m]) + 1] = c
      /\ \A n \in Lockers \ {m} : chan'[n] = chan[n]
      /\ chan' \in [Lockers -> Seq(Calls)]
    BY <1>0 DEF IInv, TypeOK
<1>b. /\ call' \in [Calls -> [pc : CallStates, id : Ids \cup {None}, locker : 0..MaxRequests]]
      /\ call'[c].pc = "sending" /\ call'[c].id = j /\ call'[c].locker = m
      /\ \A d \in Calls \ {c} : call'[d] = call[d]
      /\ \A d \in Calls : call'[d].id = call[d].id /\ call'[d].locker = call[d].locker
    <2>1. [pc |-> "sending", id |-> j, locker |-> m]
              \in [pc : CallStates, id : Ids \cup {None}, locker : 0..MaxRequests]
        BY <1>0 DEF CallStates
    <2> QED
        BY <1>0, <2>1 DEF IInv, TypeOK
<1>1. TypeOK'
    <2>1. \A d \in Calls : /\ call'[d].pc = "idle" <=> call'[d].id = None
                           /\ call'[d].pc = "receiving" <=> mutexLocker' = d
        BY <1>0, <1>b DEF IInv, TypeOK
    <2> QED
        BY <1>0, <1>a, <1>b, <2>1 DEF IInv, TypeOK
<1>2. Fresh'
    <2> SUFFICES ASSUME NEW d \in Calls, call'[d].pc = "lock"
                 PROVE  /\ call'[d].locker \in 1..requests' /\ chan'[call'[d].locker] = <<>>
                        /\ \A i \in Ids : lockers'[i] # call'[d].locker
                        /\ \A e \in Calls : e # d => call'[e].locker # call'[d].locker
        BY DEF Fresh
    <2>1. call[d].pc = "lock" /\ call'[d] = call[d]
        BY <1>b
    <2>2. /\ call[d].locker \in 1..requests /\ chan[call[d].locker] = <<>>
          /\ \A i \in Ids : lockers[i] # call[d].locker
          /\ \A e \in Calls : e # d => call[e].locker # call[d].locker
        BY <2>1 DEF IInv, Fresh
    <2>3. requests \in 0..MaxRequests
        BY DEF IInv, TypeOK
    <2>4. call[d].locker \in Lockers \ {m}
        BY <1>0, <2>2, <2>3 DEF Lockers
    <2> QED
        BY <1>0, <1>a, <1>b, <2>1, <2>2, <2>4
<1>3. Bounded' /\ OwnChannel' /\ Pointers'
    BY <1>0, <1>a, <1>b DEF IInv, TypeOK, Bounded, OwnChannel, Pointers
<1>c. \A n \in Lockers : \A k \in 1..Len(chan[n]) :
          chan[n][k] \in Calls /\ chan[n][k] # c
    BY <1>0, Token
<1>4. TokensOwned'
    <2> SUFFICES ASSUME NEW n \in Lockers, NEW k \in 1..Len(chan'[n])
                 PROVE  /\ call'[chan'[n][k]].locker = n
                        /\ call'[chan'[n][k]].pc \in {"sending", "held", "unlock", "receiving"}
                        /\ k > 1 => call'[chan'[n][k]].pc = "sending"
                        /\ lockers'[call'[chan'[n][k]].id] = n
                        /\ \A l \in 1..Len(chan'[n]) : chan'[n][l] = chan'[n][k] => l = k
        BY DEF TokensOwned
    <2>4. Len(chan[m]) \in Nat /\ (n = m => k \in 1..(Len(chan[m]) + 1))
        BY <1>0, <1>a
    <2>1. CASE n # m
        <3>1. chan'[n] = chan[n]
            BY <1>a, <2>1
        <3>2. chan[n][k] \in Calls \ {c} /\ k \in 1..Len(chan[n])
            BY <1>c, <3>1
        <3>3. call'[chan[n][k]] = call[chan[n][k]]
            BY <1>b, <3>2
        <3>4. /\ call[chan[n][k]].locker = n
              /\ call[chan[n][k]].pc \in {"sending", "held", "unlock", "receiving"}
              /\ k > 1 => call[chan[n][k]].pc = "sending"
              /\ lockers[call[chan[n][k]].id] = n
              /\ \A l \in 1..Len(chan[n]) : chan[n][l] = chan[n][k] => l = k
            BY <3>2, Token
        <3> QED
            BY <1>0, <3>1, <3>3, <3>4
    <2>2. CASE n = m /\ k <= Len(chan[m])
        <3>1. k \in 1..Len(chan[n]) /\ chan'[n][k] = chan[n][k]
            BY <1>0, <1>a, <2>2
        <3>2. /\ call[chan[n][k]].locker = n
              /\ call[chan[n][k]].pc \in {"sending", "held", "unlock", "receiving"}
              /\ k > 1 => call[chan[n][k]].pc = "sending"
              /\ lockers[call[chan[n][k]].id] = n
              /\ \A l \in 1..Len(chan[n]) : chan[n][l] = chan[n][k] => l = k
            BY <3>1, Token
        <3>3. chan[n][k] \in Calls \ {c}
            BY <1>c, <3>1
        <3>4. call'[chan[n][k]] = call[chan[n][k]]
            BY <1>b, <3>3
        <3>5. ASSUME NEW l \in 1..Len(chan'[n]), chan'[n][l] = chan[n][k] PROVE l = k
            <4>1. l # Len(chan[n]) + 1
                BY <1>a, <2>2, <3>3, <3>5
            <4>2. l \in 1..Len(chan[n]) /\ chan'[n][l] = chan[n][l]
                BY <1>a, <2>2, <2>4, <4>1
            <4> QED
                BY <3>2, <3>5, <4>2
        <3> QED
            BY <1>0, <3>1, <3>2, <3>4, <3>5
    <2>3. CASE n = m /\ k = Len(chan[m]) + 1
        <3>1. chan'[n][k] = c
            BY <1>a, <2>3
        <3>2. \A l \in 1..Len(chan'[m]) : chan'[m][l] = c => l = k
            BY <1>0, <1>a, <1>c, <2>3
        <3> QED
            BY <1>0, <1>b, <2>3, <3>1, <3>2
    <2> QED
        BY <2>1, <2>2, <2>3, <2>4
<1>5. Disciplined'
    <2> SUFFICES ASSUME NEW d \in Calls, call'[d].id \notin Misused
                 PROVE  /\ call'[d].pc = "sending" =>
                               \E k \in 1..Len(chan'[call'[d].locker]) :
                                   chan'[call'[d].locker][k] = d
                        /\ call'[d].pc \in {"held", "unlock", "receiving"} =>
                               /\ chan'[call'[d].locker] # <<>>
                               /\ chan'[call'[d].locker][1] = d
        BY DEF Disciplined
    <2>1. CASE d = c
        BY <1>0, <1>a, <1>b, <2>1
    <2>2. CASE d # c
        <3> DEFINE n == call[d].locker
        <3>1. n \in 0..MaxRequests /\ call'[d] = call[d]
            BY <1>b, <2>2 DEF IInv, TypeOK
        <3>2. CASE call[d].pc = "sending"
            <4>1. PICK k \in 1..Len(chan[n]) : chan[n][k] = d
                BY <3>1, <3>2 DEF IInv, Disciplined
            <4>2. n \in Lockers
                BY <3>1, <3>2 DEF IInv, Pointers
            <4>3. k \in 1..Len(chan'[n]) /\ chan'[n][k] = d
                BY <1>0, <1>a, <4>1, <4>2
            <4> QED
                BY <3>1, <3>2, <4>3
        <3>3. CASE call[d].pc \in {"held", "unlock", "receiving"}
            <4>1. chan[n] # <<>> /\ chan[n][1] = d
                BY <3>1, <3>3 DEF IInv, Disciplined
            <4>2. n \in Lockers
                BY <3>1, <3>3 DEF IInv, Pointers
            <4>3. Len(chan[n]) \in Nat \ {0}
                BY <4>1, <4>2 DEF IInv, TypeOK
            <4>4. Len(chan'[n]) >= 1 /\ chan'[n][1] = d /\ chan'[n] \in Seq(Calls)
                BY <1>0, <1>a, <4>1, <4>2, <4>3
            <4> QED
                BY <3>1, <3>3, <4>4
        <3> QED
            BY <3>1, <3>2, <3>3
    <2> QED
        BY <2>1, <2>2
<1>6. CounterAccounts'
    <2> SUFFICES ASSUME NEW i \in Ids
                 PROVE  /\ lockersCounters[i] = Cardinality(Waiting(i)') + Tokens(i)'
                        /\ lockers[i] # 0 <=> lockersCounters[i] > 0
        BY <1>0 DEF CounterAccounts
    <2>1. CASE i = j
        <3>1. Waiting(i)' = Waiting(i) \ {c} /\ c \in Waiting(i)
            BY <1>0, <2>1 DEF IInv, TypeOK, Waiting
        <3>2. Cardinality(Waiting(i)') = Cardinality(Waiting(i)) - 1
            BY <3>1, WaitingFinite, FS_RemoveElement
        <3>3. Tokens(i)' = Tokens(i) + 1 /\ Tokens(i) \in Nat
            BY <1>0, <1>a, <2>1 DEF IInv, TypeOK, Tokens
        <3> QED
            BY <3>2, <3>3, WaitingFinite DEF IInv, TypeOK, CounterAccounts
    <2>2. CASE i # j
        <3>1. Waiting(i)' = Waiting(i)
            BY <1>0, <2>2 DEF IInv, TypeOK, Waiting
        <3>2. Tokens(i)' = Tokens(i)
            BY <1>0, <1>a, <2>2 DEF IInv, TypeOK, Tokens, OwnChannel
        <3> QED
            BY <3>1, <3>2 DEF IInv, CounterAccounts
    <2> QED
        BY <2>1, <2>2
<1> QED
    BY <1>1, <1>2, <1>3, <1>4, <1>5, <1>6 DEF IInv

(* A call that goes on after its send: it keeps its place in the channel. *)
LEMMA GotoIInv ==
    ASSUME IInv, NEW c \in Calls, NEW p \in {"held", "unlock", "receiving"}, Goto(c, p),
           p = "held" => call[c].pc = "sending" /\ Sent(c),
           p = "unlock" => call[c].pc = "held",
           p = "receiving" => /\ call[c].pc = "unlock" /\ lockers[call[c].id] # 0
                              /\ mutexLocker = None /\ mutexLocker' = c,
           p # "receiving" => mutexLocker' = mutexLocker,
           UNCHANGED <<lockers, chan, lockersCounters, owners2Lockers, alive, requests>>
    PROVE  IInv'
<1> USE SyncMutexAssumption DEF Lockers
<1>b. /\ call' \in [Calls -> [pc : CallStates, id : Ids \cup {None}, locker : 0..MaxRequests]]
      /\ call'[c].pc = p /\ call'[c].id = call[c].id /\ call'[c].locker = call[c].locker
      /\ \A d \in Calls \ {c} : call'[d] = call[d]
    BY DEF IInv, TypeOK, CallStates, Goto
<1>1. TypeOK'
    <2>1. \A d \in Calls : /\ call'[d].pc = "idle" <=> call'[d].id = None
                           /\ call'[d].pc = "receiving" <=> mutexLocker' = d
        BY <1>b DEF IInv, TypeOK
    <2> QED
        BY <1>b, <2>1 DEF IInv, TypeOK
<1>2. Fresh'
    <2> SUFFICES ASSUME NEW d \in Calls, call'[d].pc = "lock"
                 PROVE  /\ call'[d].locker \in 1..requests'
                        /\ chan'[call'[d].locker] = <<>>
                        /\ \A i \in Ids : lockers'[i] # call'[d].locker
                        /\ \A e \in Calls : e # d => call'[e].locker # call'[d].locker
        BY DEF Fresh
    <2>1. d # c /\ call[d].pc = "lock" /\ \A e \in Calls : call'[e].locker = call[e].locker
        BY <1>b
    <2> QED
        BY <2>1 DEF IInv, Fresh
<1>3. Bounded' /\ OwnChannel'
    BY <1>b DEF IInv, Bounded, OwnChannel
<1>4. Pointers'
    BY <1>b DEF IInv, Pointers
<1>5. TokensOwned'
    <2> SUFFICES ASSUME NEW n \in Lockers, NEW k \in 1..Len(chan'[n])
                 PROVE  /\ call'[chan'[n][k]].locker = n
                        /\ call'[chan'[n][k]].pc \in {"sending", "held", "unlock", "receiving"}
                        /\ k > 1 => call'[chan'[n][k]].pc = "sending"
                        /\ lockers'[call'[chan'[n][k]].id] = n
                        /\ \A l \in 1..Len(chan'[n]) : chan'[n][l] = chan'[n][k] => l = k
        BY DEF TokensOwned
    <2> DEFINE x == chan[n][k]
    <2>0. chan' = chan /\ k \in 1..Len(chan[n]) /\ lockers' = lockers
        OBVIOUS
    <2>1. /\ x \in Calls /\ call[x].locker = n /\ lockers[call[x].id] = n
          /\ call[x].pc \in {"sending", "held", "unlock", "receiving"}
          /\ k > 1 => call[x].pc = "sending"
          /\ \A l \in 1..Len(chan[n]) : chan[n][l] = chan[n][k] => l = k
        BY <2>0, Token
    <2>2. k > 1 => x # c
        <3> SUFFICES ASSUME k > 1, x = c PROVE FALSE
            OBVIOUS
        <3>1. Sent(c) /\ call[c].locker = n
            BY <2>1
        <3>2. k \in 2..Len(chan[n])
            BY <2>0, Token
        <3> QED
            BY <3>1, <3>2 DEF Sent
    <2> QED
        BY <1>b, <2>0, <2>1, <2>2
<1>6. Disciplined'
    <2> SUFFICES ASSUME NEW d \in Calls, call'[d].id \notin Misused
                 PROVE  /\ call'[d].pc = "sending" =>
                               \E k \in 1..Len(chan'[call'[d].locker]) :
                                   chan'[call'[d].locker][k] = d
                        /\ call'[d].pc \in {"held", "unlock", "receiving"} =>
                               /\ chan'[call'[d].locker] # <<>>
                               /\ chan'[call'[d].locker][1] = d
        BY DEF Disciplined
    <2>1. CASE d # c
        BY <1>b, <2>1 DEF IInv, Disciplined
    <2>2. CASE d = c /\ call[c].pc # "sending"
        BY <1>b, <2>2 DEF IInv, Disciplined
    <2>3. CASE d = c /\ call[c].pc = "sending"
        <3> DEFINE n == call[c].locker
        <3>1. n \in Lockers
            BY <2>3 DEF IInv, TypeOK, Pointers
        <3>2. PICK k \in 1..Len(chan[n]) : chan[n][k] = c
            BY <1>b, <2>3 DEF IInv, Disciplined
        <3>3. k = 1 /\ chan[n] # <<>>
            <4>1. k \notin 2..Len(chan[n])
                BY <2>3, <3>2 DEF Sent
            <4> QED
                BY <3>1, <4>1, Token
        <3> QED
            BY <1>b, <2>3, <3>2, <3>3
    <2> QED
        BY <2>1, <2>2, <2>3
<1>7. CounterAccounts'
    <2>1. \A i \in Ids : Waiting(i)' = Waiting(i)
        BY <1>b DEF Waiting
    <2> QED
        BY <2>1 DEF IInv, CounterAccounts, Tokens
<1> QED
    BY <1>1, <1>2, <1>3, <1>4, <1>5, <1>6, <1>7 DEF IInv

LEMMA LockedIInv ==
    ASSUME IInv, NEW c \in Calls, Locked(c)
    PROVE  IInv'
<1> QED
    BY GotoIInv DEF Locked

LEMMA UnlockCallIInv ==
    ASSUME IInv, NEW c \in Calls, UnlockCall(c)
    PROVE  IInv'
<1> QED
    BY GotoIInv DEF UnlockCall

LEMMA UnlockUnheldIInv ==
    ASSUME IInv, NEW c \in Calls, NEW j \in Ids, UnlockUnheld(c, j)
    PROVE  IInv'
<1> USE SyncMutexAssumption DEF UnlockUnheld, Lockers
<1>b. /\ call' \in [Calls -> [pc : CallStates, id : Ids \cup {None}, locker : 0..MaxRequests]]
      /\ call[c].pc = "idle" /\ call'[c] = [pc |-> "unlock", id |-> j, locker |-> 0]
      /\ \A d \in Calls \ {c} : call'[d] = call[d]
    BY DEF IInv, TypeOK, CallStates
<1>1. TypeOK'
    <2>1. \A d \in Calls : /\ call'[d].pc = "idle" <=> call'[d].id = None
                           /\ call'[d].pc = "receiving" <=> mutexLocker' = d
        BY <1>b DEF IInv, TypeOK
    <2> QED
        BY <1>b, <2>1 DEF IInv, TypeOK
<1>2. Fresh'
    BY <1>b DEF IInv, TypeOK, Fresh
<1>3. Bounded' /\ OwnChannel' /\ Pointers'
    BY <1>b DEF IInv, TypeOK, Bounded, OwnChannel, Pointers
<1>4. TokensOwned'
    BY DEF IInv, TypeOK, TokensOwned
<1>5. Disciplined'
    BY <1>b DEF IInv, Disciplined
<1>6. CounterAccounts'
    <2>1. \A i \in Ids : Waiting(i)' = Waiting(i)
        BY <1>b DEF Waiting
    <2> QED
        BY <2>1 DEF IInv, CounterAccounts, Tokens
<1> QED
    BY <1>1, <1>2, <1>3, <1>4, <1>5, <1>6 DEF IInv

LEMMA UnlockEnterIInv ==
    ASSUME IInv, NEW c \in Calls, UnlockEnter(c)
    PROVE  IInv'
<1> USE SyncMutexAssumption DEF Lockers
<1>1. CASE lockers[call[c].id] # 0
    BY <1>1, GotoIInv DEF UnlockEnter
<1>2. CASE lockers[call[c].id] = 0
    <2>0. /\ call[c].pc = "unlock" /\ call' = [call EXCEPT ![c] = Idle]
          /\ UNCHANGED <<lockers, chan, lockersCounters, owners2Lockers, mutexLocker, alive,
                         requests>>
        BY <1>2 DEF UnlockEnter
    <2>b. /\ call' \in [Calls -> [pc : CallStates, id : Ids \cup {None}, locker : 0..MaxRequests]]
          /\ call'[c] = [pc |-> "idle", id |-> None, locker |-> 0]
          /\ \A d \in Calls \ {c} : call'[d] = call[d]
        BY <2>0 DEF IInv, TypeOK, CallStates, Idle
    <2>1. TypeOK'
        <3>1. \A d \in Calls : /\ call'[d].pc = "idle" <=> call'[d].id = None
                               /\ call'[d].pc = "receiving" <=> mutexLocker' = d
            BY <2>0, <2>b DEF IInv, TypeOK
        <3> QED
            BY <2>0, <2>b, <3>1 DEF IInv, TypeOK
    <2>2. Fresh'
        BY <2>0, <2>b DEF IInv, TypeOK, Fresh
    <2>3. Bounded' /\ OwnChannel' /\ Pointers'
        BY <2>0, <2>b DEF IInv, TypeOK, Bounded, OwnChannel, Pointers
    <2>4. TokensOwned'
        <3>1. ASSUME NEW n \in Lockers, NEW k \in 1..Len(chan[n])
              PROVE  call'[chan[n][k]] = call[chan[n][k]]
            <4>1. chan[n][k] \in Calls /\ chan[n][k] # c
                BY <1>2, Token
            <4> QED
                BY <2>b, <4>1
        <3> QED
            BY <2>0, <3>1 DEF IInv, TokensOwned
    <2>5. Disciplined'
        BY <2>0, <2>b DEF IInv, Disciplined
    <2>6. CounterAccounts'
        <3>1. \A i \in Ids : Waiting(i)' = Waiting(i)
            BY <2>0, <2>b DEF Waiting
        <3> QED
            BY <2>0, <3>1 DEF IInv, CounterAccounts, Tokens
    <2> QED
        BY <2>1, <2>2, <2>3, <2>4, <2>5, <2>6 DEF IInv
<1> QED
    BY <1>1, <1>2

LEMMA UnlockReceiveIInv ==
    ASSUME IInv, NEW c \in Calls, UnlockReceive(c)
    PROVE  IInv'
<1> USE SyncMutexAssumption DEF Lockers
<1>i. PICK i \in Ids : i = call[c].id
    BY DEF IInv, TypeOK, UnlockReceive
<1>m. PICK m \in Lockers : m = lockers[i]
    BY <1>i DEF IInv, TypeOK, Pointers, UnlockReceive
<1>n. PICK n \in Int : n = lockersCounters[i] - 1
    BY DEF IInv, TypeOK
<1>0. /\ call[c].pc = "receiving" /\ mutexLocker = c /\ mutexLocker' = None
      /\ chan[m] # <<>> /\ chan[m] \in Seq(Calls)
      /\ chan' = [chan EXCEPT ![m] = Tail(chan[m])]
      /\ lockersCounters' = [lockersCounters EXCEPT ![i] = n]
      /\ lockers' = IF n = 0 THEN [lockers EXCEPT ![i] = 0] ELSE lockers
      /\ owners2Lockers' = [owners2Lockers EXCEPT ![OwnerOf[c]] = @ \ {i}]
      /\ call' = [call EXCEPT ![c] = Idle]
      /\ UNCHANGED <<alive, requests>>
    BY <1>i, <1>m, <1>n DEF IInv, TypeOK, UnlockReceive
<1>a. /\ Len(chan[m]) \in Nat \ {0} /\ Len(chan'[m]) = Len(chan[m]) - 1
      /\ \A k \in 1..Len(chan'[m]) : chan'[m][k] = chan[m][k + 1]
      /\ \A l \in Lockers \ {m} : chan'[l] = chan[l]
      /\ chan' \in [Lockers -> Seq(Calls)]
    <2>1. Tail(chan[m]) \in Seq(Calls) /\ Len(Tail(chan[m])) = Len(chan[m]) - 1
        BY <1>0
    <2>2. \A k \in 1..Len(Tail(chan[m])) : Tail(chan[m])[k] = chan[m][k + 1]
        BY <1>0
    <2>3. Len(chan[m]) \in Nat \ {0}
        BY <1>0
    <2> QED
        BY <1>0, <2>1, <2>2, <2>3 DEF IInv, TypeOK
<1>b. /\ call' \in [Calls -> [pc : CallStates, id : Ids \cup {None}, locker : 0..MaxRequests]]
      /\ call'[c] = [pc |-> "idle", id |-> None, locker |-> 0]
      /\ \A d \in Calls \ {c} : call'[d] = call[d]
    BY <1>0 DEF IInv, TypeOK, CallStates, Idle
<1>c. /\ lockersCounters[i] = Cardinality(Waiting(i)) + Len(chan[m])
      /\ Cardinality(Waiting(i)) \in Nat /\ n \in Nat
      /\ n = Cardinality(Waiting(i)) + Len(chan[m]) - 1
    <2>1. Tokens(i) = Len(chan[m])
        BY <1>m, SMT DEF Tokens
    <2>2. lockersCounters[i] = Cardinality(Waiting(i)) + Len(chan[m])
        BY <2>1 DEF IInv, CounterAccounts
    <2>3. Cardinality(Waiting(i)) \in Nat /\ Len(chan[m]) \in Nat \ {0}
        BY <1>a, WaitingFinite
    <2> QED
        BY <1>n, <2>2, <2>3
<1>d. /\ n = 0 => lockers'[i] = 0 /\ Waiting(i) = {} /\ Len(chan[m]) = 1
      /\ n # 0 => lockers'[i] = m
      /\ \A j \in Ids \ {i} : lockers'[j] = lockers[j] /\ lockers[j] # m
      /\ lockers' \in [Ids -> 0..MaxRequests]
    <2>0. \A x, y \in Nat : x + y - 1 = 0 /\ y # 0 => x = 0 /\ y = 1
        OBVIOUS
    <2>1. n = 0 => Cardinality(Waiting(i)) = 0 /\ Len(chan[m]) = 1
        BY <1>a, <1>c, <2>0
    <2>2. n = 0 => Waiting(i) = {}
        BY <1>0, <2>1, WaitingFinite, FS_EmptySet
    <2>3. \A j \in Ids \ {i} : lockers[j] # m
        BY <1>m DEF IInv, OwnChannel
    <2> QED
        BY <1>0, <1>m, <2>1, <2>2, <2>3 DEF IInv, TypeOK
<1>1. TypeOK'
    <2>1. \A d \in Calls : /\ call'[d].pc = "idle" <=> call'[d].id = None
                           /\ call'[d].pc = "receiving" <=> mutexLocker' = d
        BY <1>0, <1>b DEF IInv, TypeOK
    <2>2. lockersCounters' \in [Ids -> Int] /\ owners2Lockers' \in [Owners -> SUBSET Ids]
        BY <1>0 DEF IInv, TypeOK
    <2> QED
        BY <1>0, <1>a, <1>b, <1>d, <2>1, <2>2 DEF IInv, TypeOK
<1>2. Fresh'
    <2> SUFFICES ASSUME NEW d \in Calls, call'[d].pc = "lock"
                 PROVE  /\ call'[d].locker \in 1..requests'
                        /\ chan'[call'[d].locker] = <<>>
                        /\ \A j \in Ids : lockers'[j] # call'[d].locker
                        /\ \A e \in Calls : e # d => call'[e].locker # call'[d].locker
        BY DEF Fresh
    <2>1. /\ d # c /\ call'[d] = call[d] /\ call[d].locker \in 1..requests
          /\ requests <= MaxRequests /\ requests \in Nat
          /\ chan[call[d].locker] = <<>>
          /\ \A j \in Ids : lockers[j] # call[d].locker
          /\ \A e \in Calls : e # d => call[e].locker # call[d].locker
        BY <1>b DEF IInv, TypeOK, Fresh
    <2> QED
        BY <1>0, <1>a, <1>b, <1>d, <2>1
<1>3. Bounded' /\ OwnChannel'
    <2>1. \A j \in Ids : lockers'[j] = 0 \/ lockers'[j] = lockers[j]
        BY <1>0, <1>d
    <2>2. \A l \in Lockers : l > requests => chan'[l] = <<>>
        BY <1>0, <1>a DEF IInv, TypeOK, Bounded
    <2>3. \A d \in Calls : call'[d].locker <= requests
        <3>1. requests \in Nat /\ \A d \in Calls : call[d].locker <= requests
            BY DEF IInv, TypeOK, Bounded
        <3> QED
            BY <1>b, <3>1
    <2>4. Bounded'
        <3>1. \A j \in Ids : lockers'[j] <= requests
            <4>1. requests \in Nat /\ \A j \in Ids : lockers[j] <= requests
                BY DEF IInv, TypeOK, Bounded
            <4>2. 0 <= requests
                BY <4>1
            <4> QED
                BY <2>1, <4>1, <4>2
        <3> QED
            BY <1>0, <2>2, <2>3, <3>1 DEF Bounded
    <2> QED
        BY <2>1, <2>4 DEF IInv, OwnChannel
<1>4. Pointers'
    <2>1. ASSUME NEW d \in Calls \ {c}, call[d].pc = "registered"
          PROVE  call[d].locker = lockers'[call[d].id]
        <3>1. call[d].locker = lockers[call[d].id] /\ call[d].id \in Ids
            BY <2>1 DEF IInv, TypeOK, Pointers
        <3>2. call[d].id = i => n # 0
            BY <1>d, <2>1 DEF Waiting
        <3> QED
            BY <1>m, <1>d, <3>1, <3>2
    <2>2. \A d \in Calls \ {c} : call[d].pc # "receiving"
        BY <1>0 DEF IInv, TypeOK
    <2> QED
        BY <1>b, <2>1, <2>2 DEF IInv, Pointers
<1>e. \A l \in Lockers : \A k \in 1..Len(chan[l]) : chan[l][k] = c => l = m /\ k = 1
    <2> SUFFICES ASSUME NEW l \in Lockers, NEW k \in 1..Len(chan[l]), chan[l][k] = c
                 PROVE  l = m /\ k = 1
        OBVIOUS
    <2>1. lockers[call[c].id] = l /\ (k > 1 => call[c].pc = "sending") /\ Len(chan[l]) \in Nat
        BY Token
    <2> QED
        BY <1>0, <1>i, <1>m, <2>1
<1>f. ASSUME NEW l \in Lockers, NEW k \in 1..Len(chan[l]), l = m => k # 1
      PROVE  /\ call'[chan[l][k]] = call[chan[l][k]]
             /\ lockers'[call[chan[l][k]].id] = l
    <2> DEFINE x == chan[l][k]
    <2>1. /\ x \in Calls /\ call[x].id \in Ids /\ lockers[call[x].id] = l
          /\ Len(chan[l]) \in Nat
        BY Token
    <2>2. x # c
        BY <1>e, <1>f
    <2>3. call[x].id = i => n # 0
        BY <1>m, <1>a, <1>d, <1>f, <2>1
    <2> QED
        BY <1>b, <1>m, <1>d, <2>1, <2>2, <2>3
<1>5. TokensOwned'
    <2> SUFFICES ASSUME NEW l \in Lockers, NEW k \in 1..Len(chan'[l])
                 PROVE  /\ call'[chan'[l][k]].locker = l
                        /\ call'[chan'[l][k]].pc \in {"sending", "held", "unlock", "receiving"}
                        /\ k > 1 => call'[chan'[l][k]].pc = "sending"
                        /\ lockers'[call'[chan'[l][k]].id] = l
                        /\ \A h \in 1..Len(chan'[l]) : chan'[l][h] = chan'[l][k] => h = k
        BY DEF TokensOwned
    <2>1. CASE l # m
        <3>1. chan'[l] = chan[l] /\ k \in 1..Len(chan[l])
            BY <1>a, <2>1
        <3>2. /\ call'[chan[l][k]] = call[chan[l][k]]
              /\ lockers'[call[chan[l][k]].id] = l
            BY <1>f, <2>1, <3>1
        <3> QED
            BY <3>1, <3>2, Token
    <2>2. CASE l = m
        <3>1. k + 1 \in 2..Len(chan[m]) /\ chan'[m][k] = chan[m][k + 1]
            BY <1>a, <2>2
        <3>2. /\ call'[chan[m][k + 1]] = call[chan[m][k + 1]]
              /\ lockers'[call[chan[m][k + 1]].id] = m
            <4>1. k + 1 \in 1..Len(chan[m]) /\ k + 1 # 1
                BY <1>a, <3>1
            <4> QED
                BY <1>f, <4>1
        <3>3. /\ call[chan[m][k + 1]].locker = m
              /\ call[chan[m][k + 1]].pc = "sending"
              /\ \A h \in 1..Len(chan[m]) : chan[m][h] = chan[m][k + 1] => h = k + 1
            BY <1>0, <1>a, <3>1, Token
        <3>4. ASSUME NEW h \in 1..Len(chan'[m]), chan'[m][h] = chan'[m][k] PROVE h = k
            <4>1. h + 1 \in 1..Len(chan[m]) /\ chan[m][h + 1] = chan[m][k + 1]
                <5>1. h + 1 \in 1..Len(chan[m])
                    BY <1>a, <3>4
                <5> QED
                    BY <1>a, <3>1, <3>4, <5>1
            <4>2. h + 1 = k + 1
                BY <3>1, <3>3, <4>1
            <4> QED
                BY <2>2, <4>2
        <3> QED
            BY <2>2, <3>1, <3>2, <3>3, <3>4
    <2> QED
        BY <2>1, <2>2
<1>6. Disciplined'
    <2> SUFFICES ASSUME NEW d \in Calls, call'[d].id \notin Misused
                 PROVE  /\ call'[d].pc = "sending" =>
                               \E k \in 1..Len(chan'[call'[d].locker]) :
                                   chan'[call'[d].locker][k] = d
                        /\ call'[d].pc \in {"held", "unlock", "receiving"} =>
                               /\ chan'[call'[d].locker] # <<>>
                               /\ chan'[call'[d].locker][1] = d
        BY DEF Disciplined
    <2>1. CASE d = c
        BY <1>b, <2>1
    <2> DEFINE l == call[d].locker
    <2>2. CASE d # c /\ call[d].pc \in {"sending", "held", "unlock", "receiving"}
        <3>0. call'[d] = call[d] /\ call[d].id \notin Misused /\ l \in Lockers
            BY <1>b, <2>2 DEF IInv, TypeOK, Pointers
        <3>1. PICK k \in 1..Len(chan[l]) : /\ chan[l][k] = d
                                           /\ call[d].pc # "sending" => k = 1
            <4>1. CASE call[d].pc = "sending"
                BY <3>0, <4>1 DEF IInv, Disciplined
            <4>2. CASE call[d].pc # "sending"
                <5>1. chan[l] # <<>> /\ chan[l][1] = d
                    BY <2>2, <3>0, <4>2 DEF IInv, Disciplined
                <5>2. 1 \in 1..Len(chan[l])
                    BY <3>0, <5>1 DEF IInv, TypeOK
                <5> QED
                    BY <5>1, <5>2
            <4> QED
                BY <4>1, <4>2
        <3>2. Len(chan[l]) \in Nat /\ lockers[call[d].id] = l /\ call[d].id \in Ids
            BY <3>0, <3>1, Token
        <3>3. l = m => k # 1
            <4> SUFFICES ASSUME l = m PROVE k # 1
                OBVIOUS
            <4>1. call[d].id = i
                BY <1>d, <3>2
            <4>2. chan[call[c].locker] # <<>> /\ chan[call[c].locker][1] = c
                BY <1>0, <1>i, <3>0, <4>1 DEF IInv, Disciplined
            <4>3. call[c].locker \in Lockers
                BY <1>0, <1>i, <3>0, <4>1 DEF IInv, TypeOK, Pointers
            <4>4. 1 \in 1..Len(chan[call[c].locker])
                BY <4>2, <4>3 DEF IInv, TypeOK
            <4>5. call[c].locker = m
                BY <1>e, <4>2, <4>3, <4>4
            <4> QED
                BY <2>2, <3>1, <4>2, <4>5
        <3>4. CASE l # m
            <4>1. chan'[l] = chan[l]
                BY <1>a, <3>0, <3>4
            <4>2. chan[l] # <<>>
                BY <3>0, <3>1, <3>2
            <4> QED
                BY <3>0, <3>1, <4>1, <4>2
        <3>5. CASE l = m
            <4>1. k - 1 \in 1..Len(chan'[m]) /\ chan'[m][k - 1] = d
                BY <1>a, <3>1, <3>2, <3>3, <3>5
            <4>2. call[d].pc = "sending"
                BY <3>1, <3>3, <3>5
            <4> QED
                BY <3>0, <3>5, <4>1, <4>2
        <3> QED
            BY <3>4, <3>5
    <2>3. CASE d # c /\ call[d].pc \notin {"sending", "held", "unlock", "receiving"}
        BY <1>b, <2>3
    <2> QED
        BY <2>1, <2>2, <2>3
<1>7. CounterAccounts'
    <2> SUFFICES ASSUME NEW j \in Ids
                 PROVE  /\ lockersCounters'[j] = Cardinality(Waiting(j)') + Tokens(j)'
                        /\ lockers'[j] # 0 <=> lockersCounters'[j] > 0
        BY DEF CounterAccounts
    <2>1. Waiting(j)' = Waiting(j)
        BY <1>0, <1>b DEF Waiting
    <2>2. CASE j = i
        <3>1. lockersCounters'[i] = n
            BY <1>0 DEF IInv, TypeOK
        <3>2. Tokens(i)' = IF n = 0 THEN 0 ELSE Len(chan[m]) - 1
            BY <1>0, <1>m, <1>a, <1>d DEF Tokens
        <3>3. lockers'[i] # 0 <=> n # 0
            BY <1>m, <1>d
        <3> QED
            BY <1>c, <1>d, <1>a, <2>1, <2>2, <3>1, <3>2, <3>3
    <2>3. CASE j # i
        <3>1. lockersCounters'[j] = lockersCounters[j] /\ lockers'[j] = lockers[j]
            BY <1>0, <1>d, <2>3 DEF IInv, TypeOK
        <3>2. Tokens(j)' = Tokens(j)
            BY <1>a, <1>d, <2>3, <3>1 DEF IInv, TypeOK, Tokens
        <3> QED
            BY <2>1, <3>1, <3>2 DEF IInv, CounterAccounts
    <2> QED
        BY <2>2, <2>3
<1> QED
    BY <1>1, <1>2, <1>3, <1>4, <1>5, <1>6, <1>7 DEF IInv

(* Losing a connection, and stuttering, change nothing the invariant speaks of. *)
LEMMA UnchangedIInv ==
    ASSUME IInv, alive' \subseteq Owners,
           UNCHANGED <<lockers, chan, lockersCounters, owners2Lockers, mutexLocker, call,
                       requests>>
    PROVE  IInv'
<1>1. TypeOK' /\ Fresh' /\ Bounded' /\ OwnChannel' /\ Pointers' /\ TokensOwned'
    BY DEF IInv, TypeOK, Fresh, Bounded, OwnChannel, Pointers, TokensOwned
<1>2. Disciplined' /\ CounterAccounts'
    BY DEF IInv, Disciplined, CounterAccounts, Waiting, Tokens
<1> QED
    BY <1>1, <1>2 DEF IInv

(* Every step keeps the invariant. *)
LEMMA NextIInv == IInv /\ [Next]_vars => IInv'
<1> SUFFICES ASSUME IInv, [Next]_vars PROVE IInv'
    OBVIOUS
<1>1. ASSUME NEW c \in Calls, Register(c) PROVE IInv'
    BY <1>1, RegisterIInv
<1>2. ASSUME NEW c \in Calls, Send(c) PROVE IInv'
    BY <1>2, SendIInv
<1>3. ASSUME NEW c \in Calls, Locked(c) PROVE IInv'
    BY <1>3, LockedIInv
<1>4. ASSUME NEW c \in Calls, UnlockCall(c) PROVE IInv'
    BY <1>4, UnlockCallIInv
<1>5. ASSUME NEW c \in Calls, UnlockEnter(c) PROVE IInv'
    BY <1>5, UnlockEnterIInv
<1>6. ASSUME NEW c \in Calls, UnlockReceive(c) PROVE IInv'
    BY <1>6, UnlockReceiveIInv
<1>7. ASSUME NEW c \in Calls, NEW i \in Ids, LockCall(c, i) PROVE IInv'
    BY <1>7, LockCallIInv
<1>8. ASSUME NEW c \in Calls, NEW i \in Ids, UnlockUnheld(c, i) PROVE IInv'
    BY <1>8, UnlockUnheldIInv
<1>9. ASSUME NEW o \in Owners, Disconnect(o) PROVE IInv'
    <2>1. alive' \subseteq Owners
        BY <1>9 DEF IInv, TypeOK, Disconnect
    <2> QED
        BY <1>9, <2>1, UnchangedIInv DEF Disconnect
<1>10. CASE UNCHANGED vars
    <2>1. alive' \subseteq Owners
        BY <1>10 DEF IInv, TypeOK, vars
    <2> QED
        BY <1>10, <2>1, UnchangedIInv DEF vars
<1> QED
    BY <1>1, <1>2, <1>3, <1>4, <1>5, <1>6, <1>7, <1>8, <1>9, <1>10 DEF Next

(* The invariant holds in every reachable state. *)
THEOREM Invariance == Spec => []IInv
<1> QED
    BY InitIInv, NextIInv, PTL DEF Spec

----
(* The variables keep their types; in particular only a call in the receive of
   Unlock has mutexLocker. *)
THEOREM TypeCorrect == Spec => []TypeOK
<1>1. IInv => TypeOK
    BY DEF IInv
<1> QED
    BY <1>1, Invariance, PTL

(* The count of an id is the number of requests for its channel, so that the channel
   is dropped by the last of them and never under another. *)
THEOREM CountersAccount == Spec => []CounterAccounts
<1>1. IInv => CounterAccounts
    BY DEF IInv
<1> QED
    BY <1>1, Invariance, PTL

(* A lock that clients unlock only when they hold it is held by one client at most,
   whatever happens to other locks and to connections. *)
THEOREM Exclusion == Spec => []MutualExclusion
<1>1. IInv => MutualExclusion
    <2> SUFFICES ASSUME IInv, NEW i \in Ids \ Misused, NEW c \in Calls, NEW d \in Calls,
                        Holds(c, i), Holds(d, i)
                 PROVE  c = d
        BY DEF MutualExclusion
    <2>1. ASSUME NEW e \in Calls, Holds(e, i)
          PROVE  lockers[i] = call[e].locker /\ chan[call[e].locker][1] = e
        <3>1. chan[call[e].locker] # <<>> /\ chan[call[e].locker][1] = e
            BY <2>1 DEF Holds, IInv, Disciplined
        <3>2. call[e].locker \in Lockers
            BY <2>1, SyncMutexAssumption DEF Holds, IInv, TypeOK, Lockers
        <3>3. 1 \in 1..Len(chan[call[e].locker])
            BY <3>1, <3>2 DEF IInv, TypeOK
        <3> QED
            BY <2>1, <3>1, <3>2, <3>3, Token DEF Holds
    <2> QED
        BY <2>1
<1> QED
    BY <1>1, Invariance, PTL

(* No request waits on a channel that the map has forgotten: the channel of a blocked
   sender is the one that the next Unlock of its id receives from. *)
THEOREM NobodyLost == Spec => []NoLockerLost
<1>1. IInv => NoLockerLost
    <2> SUFFICES ASSUME IInv, NEW c \in Calls, call[c].pc \in {"registered", "sending"}
                 PROVE  \/ call[c].locker = lockers[call[c].id]
                        \/ call[c].pc = "sending" /\ Sent(c)
        BY DEF NoLockerLost
    <2>1. CASE call[c].pc = "registered"
        BY <2>1 DEF IInv, Pointers
    <2>2. CASE call[c].pc = "sending" /\ ~Sent(c)
        <3>1. call[c].locker \in Lockers
            BY <2>2, SyncMutexAssumption DEF IInv, TypeOK, Pointers, Lockers
        <3>2. PICK k \in 2..Len(chan[call[c].locker]) : chan[call[c].locker][k] = c
            BY <2>2 DEF Sent
        <3>3. k \in 1..Len(chan[call[c].locker])
            BY <3>1, <3>2 DEF IInv, TypeOK
        <3> QED
            BY <3>1, <3>2, <3>3, Token
    <2> QED
        BY <2>1, <2>2
<1> QED
    BY <1>1, Invariance, PTL

(* What is left of MutexLockerReturns without time: an Unlock that is at its receive, with
   mutexLocker locked, has a token to receive, or a request that no lock keeps from
   sending one. *)
ReceiveIsFed ==
    \A c \in Calls : call[c].pc = "receiving" =>
        chan[lockers[call[c].id]] # <<>> \/ Waiting(call[c].id) # {}

(* An Unlock never waits with mutexLocker for a request that waits for mutexLocker: the
   request it receives from is past its registration, misuse or not. *)
THEOREM ReceiveFed == Spec => []ReceiveIsFed
<1>1. IInv => ReceiveIsFed
    <2> SUFFICES ASSUME IInv, NEW c \in Calls, call[c].pc = "receiving",
                        chan[lockers[call[c].id]] = <<>>, Waiting(call[c].id) = {}
                 PROVE  FALSE
        BY DEF ReceiveIsFed
    <2>1. call[c].id \in Ids /\ lockers[call[c].id] # 0
        BY SyncMutexAssumption DEF IInv, TypeOK, Pointers
    <2>2. Cardinality(Waiting(call[c].id)) = 0 /\ Tokens(call[c].id) = 0
        BY FS_EmptySet DEF Tokens
    <2>3. lockersCounters[call[c].id] = 0 + 0 /\ lockersCounters[call[c].id] > 0
        BY <2>1, <2>2 DEF IInv, CounterAccounts
    <2> QED
        BY <2>3
<1> QED
    BY <1>1, Invariance, PTL
====
