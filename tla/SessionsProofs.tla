---- MODULE SessionsProofs ----
(***************************************************************************)
(* Proofs about Sessions, for any number of sessions, connections, logouts *)
(* and restarts: its types, that a session in use is saved, that a logout  *)
(* ends its session, that no dead connection stays recorded, and that the  *)
(* store is a SessionService.                                              *)
(***************************************************************************)
EXTENDS Sessions, TLAPS

(* A connection is recorded only in its own session. *)
Recorded == \A k \in Keys : \A c \in connections[k] : conn[c].key = k

IInv == TypeOK /\ Recorded /\ LiveSessionSaved /\ LogoutEndsSession /\ NoDeadConnection

----
LEMMA InitIInv == Init => IInv
BY SessionsAssumption DEF Init, IInv, TypeOK, Recorded, LiveSessionSaved,
   LogoutEndsSession, NoDeadConnection, ConnStates, LogoutStates

(* What Save and Erase do to the bucket. *)
LEMMA SaveDomain ==
    ASSUME NEW k, NEW cs, Save(k, cs)
    PROVE  DOMAIN saved' = DOMAIN saved \cup {k} /\ saved' = [j \in DOMAIN saved' |-> saved'[j]]
BY DEF Save

LEMMA EraseDomain ==
    ASSUME NEW K, Erase(K)
    PROVE  DOMAIN saved' = DOMAIN saved \ K /\ saved' = [j \in DOMAIN saved' |-> saved'[j]]
BY DEF Erase

(* Steps of the clock and of the store. *)
LEMMA NewIInv ==
    ASSUME IInv, NEW k \in Keys, New(k)
    PROVE  IInv'
<1> USE DEF New
<1>1. DOMAIN saved' = DOMAIN saved \cup {k} /\ saved' = [j \in DOMAIN saved' |-> saved'[j]]
    BY SaveDomain
<1>2. TypeOK'
    BY <1>1, SessionsAssumption DEF IInv, TypeOK
<1>3. Recorded' /\ NoDeadConnection'
    BY DEF IInv, TypeOK, Recorded, NoDeadConnection
<1>4. LiveSessionSaved'
    BY <1>1 DEF IInv, LiveSessionSaved
<1>5. LogoutEndsSession'
    BY SessionsAssumption DEF IInv, TypeOK, LogoutEndsSession, Valid
<1> QED
    BY <1>2, <1>3, <1>4, <1>5 DEF IInv

LEMMA ExpiryIInv ==
    ASSUME IInv, ClearRottenSessions \/ \E k \in Keys : Expire(k)
    PROVE  IInv'
<1>1. CASE ClearRottenSessions
    <2> USE <1>1 DEF ClearRottenSessions
    <2>1. /\ DOMAIN saved' = DOMAIN saved \ (sessions \cap expired)
          /\ saved' = [j \in DOMAIN saved' |-> saved'[j]]
        BY EraseDomain
    <2>2. TypeOK'
        BY <2>1 DEF IInv, TypeOK
    <2>3. LiveSessionSaved'
        BY <2>1 DEF IInv, LiveSessionSaved
    <2>4. Recorded' /\ NoDeadConnection' /\ LogoutEndsSession'
        BY DEF IInv, Recorded, NoDeadConnection, LogoutEndsSession, Valid
    <2> QED
        BY <2>2, <2>3, <2>4 DEF IInv
<1>2. ASSUME NEW k \in Keys, Expire(k) PROVE IInv'
    BY <1>2 DEF Expire, IInv, TypeOK, Recorded, LiveSessionSaved, LogoutEndsSession,
       NoDeadConnection, Valid
<1> QED
    BY <1>1, <1>2

(* A connection that does not end changes nothing but what its session records. *)
LEMMA UpgradeIInv ==
    ASSUME IInv, NEW c \in Conns, NEW k \in Keys, Upgrade(c, k)
    PROVE  IInv'
<1> USE SessionsAssumption DEF Upgrade, Valid
<1>1. TypeOK'
    BY DEF IInv, TypeOK, ConnStates
<1>2. Recorded' /\ NoDeadConnection'
    BY DEF IInv, TypeOK, Recorded, NoDeadConnection
<1>3. LiveSessionSaved' /\ LogoutEndsSession'
    BY DEF IInv, LiveSessionSaved, LogoutEndsSession
<1> QED
    BY <1>1, <1>2, <1>3 DEF IInv

(* What the steps of a connection have in common: they may save its session, and that
   neither takes anything from the bucket nor touches the map. *)
LEMMA ConnStepCommon ==
    ASSUME IInv, NEW c \in Conns, NEW from \in ConnStates \ {"new"},
           NEW to \in ConnStates \ {"new"}, ConnAt(c, from, to),
           UNCHANGED sessions, connections' \in [Keys -> SUBSET Conns],
           \/ UNCHANGED saved
           \/ \E cs : Save(conn[c].key, cs)
    PROVE  /\ conn[c].key \in Keys /\ conn[c].pc = from
           /\ \A d \in Conns : conn'[d].key = conn[d].key
           /\ conn'[c].pc = to /\ \A d \in Conns \ {c} : conn'[d] = conn[d]
           /\ TypeOK' /\ LiveSessionSaved' /\ LogoutEndsSession'
<1>1. /\ conn[c].key \in issued /\ conn[c].key \in Keys /\ conn[c].pc = from
      /\ conn' = [conn EXCEPT ![c].pc = to]
      /\ UNCHANGED <<issued, expired, logout, ended, restarts>>
    BY DEF ConnAt, IInv, TypeOK
<1>2. /\ conn' \in [Conns -> [pc : ConnStates, key : issued \cup {None}]]
      /\ \A d \in Conns : conn'[d].pc = "new" <=> conn'[d].key = None
      /\ \A d \in Conns : conn'[d].key = conn[d].key
      /\ conn'[c].pc = to /\ \A d \in Conns \ {c} : conn'[d] = conn[d]
    BY <1>1 DEF IInv, TypeOK
<1>3. /\ DOMAIN saved \subseteq DOMAIN saved' /\ DOMAIN saved' \subseteq issued
      /\ saved' = [j \in DOMAIN saved' |-> saved'[j]]
    <2>1. CASE UNCHANGED saved
        BY <2>1 DEF IInv, TypeOK
    <2>2. ASSUME NEW cs, Save(conn[c].key, cs)
          PROVE  /\ DOMAIN saved' = DOMAIN saved \cup {conn[c].key}
                 /\ saved' = [j \in DOMAIN saved' |-> saved'[j]]
        BY <2>2, SaveDomain
    <2> QED
        BY <1>1, <2>1, <2>2 DEF IInv, TypeOK
<1>4. TypeOK'
    BY <1>1, <1>2, <1>3 DEF IInv, TypeOK
<1>5. LiveSessionSaved' /\ LogoutEndsSession'
    BY <1>1, <1>3 DEF IInv, LiveSessionSaved, LogoutEndsSession, Valid
<1> QED
    BY <1>1, <1>2, <1>4, <1>5

LEMMA ConnStepIInv ==
    ASSUME IInv, NEW c \in Conns, ConnStep(c)
    PROVE  IInv'
<1>1. connections \in [Keys -> SUBSET Conns]
    BY DEF IInv, TypeOK
<1>2. CASE Subscribe(c) \/ Close(c) \/ DeleteSubscription(c)
    <2>1. PICK from \in ConnStates \ {"new"}, to \in {"adding", "removing", "open", "closing"} :
              ConnAt(c, from, to)
        BY <1>2 DEF Subscribe, Close, DeleteSubscription, ConnStates
    <2>2. /\ UNCHANGED <<sessions, connections>>
          /\ UNCHANGED saved \/ \E cs : Save(conn[c].key, cs)
        BY <1>2 DEF Subscribe, Close, DeleteSubscription
    <2>3. to \in ConnStates \ {"new"} /\ connections' \in [Keys -> SUBSET Conns]
        BY <1>1, <2>2 DEF ConnStates
    <2>4. /\ \A d \in Conns : conn'[d].key = conn[d].key
          /\ conn'[c].pc = to /\ \A d \in Conns \ {c} : conn'[d] = conn[d]
          /\ TypeOK' /\ LiveSessionSaved' /\ LogoutEndsSession'
        BY <2>1, <2>2, <2>3, ConnStepCommon
    <2>5. Recorded' /\ NoDeadConnection'
        BY <1>1, <2>1, <2>2, <2>4 DEF IInv, TypeOK, Recorded, NoDeadConnection
    <2> QED
        BY <2>4, <2>5 DEF IInv
<1>3. CASE AddSubscription(c)
    <2>1. /\ ConnAt(c, "adding", "open") /\ UNCHANGED sessions
          /\ connections' = [connections EXCEPT ![conn[c].key] = @ \cup {c}]
          /\ \E cs : Save(conn[c].key, cs)
        BY <1>3 DEF AddSubscription
    <2>2. connections' \in [Keys -> SUBSET Conns]
        BY <1>1, <2>1
    <2>3. /\ conn[c].key \in Keys
          /\ \A d \in Conns : conn'[d].key = conn[d].key
          /\ conn'[c].pc = "open" /\ \A d \in Conns \ {c} : conn'[d] = conn[d]
          /\ TypeOK' /\ LiveSessionSaved' /\ LogoutEndsSession'
        BY <2>1, <2>2, ConnStepCommon DEF ConnStates
    <2>4. Recorded' /\ NoDeadConnection'
        BY <1>1, <2>1, <2>3 DEF IInv, TypeOK, Recorded, NoDeadConnection
    <2> QED
        BY <2>3, <2>4 DEF IInv
<1>4. CASE SessionCloseCallback(c)
    <2>1. PICK to \in {"deleting", "closed"} :
              /\ ConnAt(c, "closing", to)
              /\ to = "closed" => conn[c].key \notin sessions
        BY <1>4 DEF SessionCloseCallback
    <2>2. UNCHANGED <<sessions, connections, saved>>
        BY <1>4 DEF SessionCloseCallback
    <2>3. connections' \in [Keys -> SUBSET Conns]
        BY <1>1, <2>2
    <2>4. /\ \A d \in Conns : conn'[d].key = conn[d].key
          /\ conn'[c].pc = to /\ \A d \in Conns \ {c} : conn'[d] = conn[d]
          /\ TypeOK' /\ LiveSessionSaved' /\ LogoutEndsSession'
        BY <2>1, <2>2, <2>3, ConnStepCommon DEF ConnStates
    <2>5. Recorded' /\ NoDeadConnection'
        BY <1>1, <2>1, <2>2, <2>4 DEF IInv, TypeOK, Recorded, NoDeadConnection
    <2> QED
        BY <2>4, <2>5 DEF IInv
<1>5. CASE DeleteConnection(c)
    <2>1. /\ ConnAt(c, "deleting", "closed") /\ UNCHANGED sessions
          /\ connections' = [connections EXCEPT ![conn[c].key] = @ \ {c}]
          /\ \E cs : Save(conn[c].key, cs)
        BY <1>5 DEF DeleteConnection
    <2>2. connections' \in [Keys -> SUBSET Conns]
        BY <1>1, <2>1
    <2>3. /\ conn[c].key \in Keys
          /\ \A d \in Conns : conn'[d].key = conn[d].key
          /\ conn'[c].pc = "closed" /\ \A d \in Conns \ {c} : conn'[d] = conn[d]
          /\ TypeOK' /\ LiveSessionSaved' /\ LogoutEndsSession'
        BY <2>1, <2>2, ConnStepCommon DEF ConnStates
    <2>4. Recorded' /\ NoDeadConnection'
        BY <1>1, <2>1, <2>3 DEF IInv, TypeOK, Recorded, NoDeadConnection
    <2> QED
        BY <2>3, <2>4 DEF IInv
<1> QED
    BY <1>2, <1>3, <1>4, <1>5 DEF ConnStep

LEMMA LogoutIInv ==
    ASSUME IInv, NEW l \in Logouts, NEW k \in Keys, Logout(l, k)
    PROVE  IInv'
<1> USE SessionsAssumption DEF Logout
<1>1. TypeOK'
    BY DEF IInv, TypeOK, LogoutStates
<1>2. Recorded' /\ NoDeadConnection'
    BY DEF IInv, Recorded, NoDeadConnection
<1>3. LiveSessionSaved' /\ LogoutEndsSession'
    BY DEF IInv, TypeOK, LiveSessionSaved, LogoutEndsSession, Valid
<1> QED
    BY <1>1, <1>2, <1>3 DEF IInv

(* A logout takes its session from the bucket and then from the map. *)
LEMMA LogoutStepIInv ==
    ASSUME IInv, NEW l \in Logouts, LogoutStep(l)
    PROVE  IInv'
<1>1. ASSUME NEW from \in LogoutStates \ {"new"}, NEW to \in LogoutStates \ {"new"},
             LogoutAt(l, from, to)
      PROVE  /\ logout[l].key \in issued /\ logout[l].pc = from
             /\ logout' = [logout EXCEPT ![l].pc = to]
             /\ logout' \in [Logouts -> [pc : LogoutStates, key : issued \cup {None}]]
             /\ \A m \in Logouts : logout'[m].pc = "new" <=> logout'[m].key = None
             /\ ended' \subseteq issued
             /\ UNCHANGED <<issued, expired, connections, conn, restarts>>
    BY <1>1 DEF LogoutAt, IInv, TypeOK
<1>2. CASE SignOut(l) \/ CheckSession(l) \/ GetByAPIKey(l)
    <2>1. PICK from \in {"signOut", "check", "lookup"},
               to \in {"check", "error", "lookup", "ok", "deleteSaved"} :
              LogoutAt(l, from, to) /\ (to = "ok" => logout[l].key \notin sessions)
        BY <1>2 DEF SignOut, CheckSession, GetByAPIKey
    <2>2. UNCHANGED <<sessions, saved>>
        BY <1>2 DEF SignOut, CheckSession, GetByAPIKey
    <2>3. /\ logout[l].key \in issued /\ logout[l].pc = from
          /\ logout' = [logout EXCEPT ![l].pc = to]
          /\ logout' \in [Logouts -> [pc : LogoutStates, key : issued \cup {None}]]
          /\ \A m \in Logouts : logout'[m].pc = "new" <=> logout'[m].key = None
          /\ ended' \subseteq issued
          /\ UNCHANGED <<issued, expired, connections, conn, restarts>>
        BY <1>1, <2>1 DEF LogoutStates
    <2>4. TypeOK'
        BY <2>2, <2>3 DEF IInv, TypeOK
    <2>5. LiveSessionSaved'
        BY <2>1, <2>2, <2>3 DEF IInv, TypeOK, LiveSessionSaved
    <2>6. LogoutEndsSession'
        BY <2>1, <2>2, <2>3 DEF IInv, TypeOK, LogoutEndsSession, Valid
    <2>7. Recorded' /\ NoDeadConnection'
        BY <2>2, <2>3 DEF IInv, Recorded, NoDeadConnection
    <2> QED
        BY <2>4, <2>5, <2>6, <2>7 DEF IInv
<1>3. CASE DeleteSaved(l)
    <2>1. /\ LogoutAt(l, "deleteSaved", "deleteSession") /\ UNCHANGED sessions
          /\ Erase({logout[l].key})
        BY <1>3 DEF DeleteSaved
    <2>2. /\ logout[l].key \in issued /\ logout[l].pc = "deleteSaved"
          /\ logout' = [logout EXCEPT ![l].pc = "deleteSession"]
          /\ logout' \in [Logouts -> [pc : LogoutStates, key : issued \cup {None}]]
          /\ \A m \in Logouts : logout'[m].pc = "new" <=> logout'[m].key = None
          /\ ended' \subseteq issued
          /\ UNCHANGED <<issued, expired, connections, conn, restarts>>
        BY <1>1, <2>1 DEF LogoutStates
    <2>3. /\ DOMAIN saved' = DOMAIN saved \ {logout[l].key}
          /\ saved' = [j \in DOMAIN saved' |-> saved'[j]]
        BY <2>1, EraseDomain
    <2>4. TypeOK'
        BY <2>1, <2>2, <2>3 DEF IInv, TypeOK
    <2>5. LiveSessionSaved'
        <3> SUFFICES ASSUME NEW k \in sessions, k \notin DOMAIN saved'
                     PROVE  \E m \in Logouts : logout'[m] = [pc |-> "deleteSession", key |-> k]
            BY <2>1 DEF LiveSessionSaved
        <3>1. CASE k = logout[l].key
            BY <2>2, <3>1 DEF IInv, TypeOK
        <3>2. CASE k # logout[l].key
            <4>1. PICK m \in Logouts : logout[m] = [pc |-> "deleteSession", key |-> k]
                BY <2>3, <3>2 DEF IInv, LiveSessionSaved
            <4> QED
                BY <2>2, <3>2, <4>1 DEF IInv, TypeOK
        <3> QED
            BY <3>1, <3>2
    <2>6. LogoutEndsSession'
        BY <2>1, <2>2 DEF IInv, TypeOK, LogoutEndsSession, Valid
    <2>7. Recorded' /\ NoDeadConnection'
        BY <2>1, <2>2 DEF IInv, Recorded, NoDeadConnection
    <2> QED
        BY <2>4, <2>5, <2>6, <2>7 DEF IInv
<1>4. CASE DeleteSession(l)
    <2>1. /\ LogoutAt(l, "deleteSession", "ok") /\ UNCHANGED saved
          /\ sessions' = sessions \ {logout[l].key}
        BY <1>4 DEF DeleteSession
    <2>2. /\ logout[l].key \in issued /\ logout[l].pc = "deleteSession"
          /\ logout' = [logout EXCEPT ![l].pc = "ok"]
          /\ logout' \in [Logouts -> [pc : LogoutStates, key : issued \cup {None}]]
          /\ \A m \in Logouts : logout'[m].pc = "new" <=> logout'[m].key = None
          /\ ended' \subseteq issued
          /\ UNCHANGED <<issued, expired, connections, conn, restarts>>
        BY <1>1, <2>1 DEF LogoutStates
    <2>3. TypeOK'
        BY <2>1, <2>2 DEF IInv, TypeOK
    <2>4. LiveSessionSaved'
        <3> SUFFICES ASSUME NEW k \in sessions', k \notin DOMAIN saved
                     PROVE  \E m \in Logouts : logout'[m] = [pc |-> "deleteSession", key |-> k]
            BY <2>1 DEF LiveSessionSaved
        <3>1. PICK m \in Logouts : logout[m] = [pc |-> "deleteSession", key |-> k]
            BY <2>1 DEF IInv, LiveSessionSaved
        <3>2. m # l
            BY <2>1, <3>1
        <3> QED
            BY <2>2, <3>1, <3>2 DEF IInv, TypeOK
    <2>5. LogoutEndsSession'
        BY <2>1, <2>2 DEF IInv, TypeOK, LogoutEndsSession, Valid
    <2>6. Recorded' /\ NoDeadConnection'
        BY <2>1, <2>2 DEF IInv, Recorded, NoDeadConnection
    <2> QED
        BY <2>3, <2>4, <2>5, <2>6 DEF IInv
<1> QED
    BY <1>2, <1>3, <1>4 DEF LogoutStep

(* After a restart the map is the bucket, and nothing else is left. *)
LEMMA RestartIInv == ASSUME IInv, Restart PROVE IInv'
<1> USE SessionsAssumption DEF Restart
<1>1. DOMAIN saved' = sessions' /\ saved' = [j \in DOMAIN saved' |-> saved'[j]]
    OBVIOUS
<1>2. TypeOK'
    BY <1>1 DEF IInv, TypeOK, ConnStates, LogoutStates
<1>3. Recorded' /\ NoDeadConnection'
    BY DEF IInv, TypeOK, Recorded, NoDeadConnection
<1>4. LiveSessionSaved' /\ LogoutEndsSession'
    BY <1>1 DEF IInv, TypeOK, LiveSessionSaved, LogoutEndsSession
<1> QED
    BY <1>2, <1>3, <1>4 DEF IInv

----
(* Every step of the session store keeps the invariant. *)
THEOREM Invariance == Spec => []IInv
<1>1. IInv /\ [Next]_vars => IInv'
    <2> SUFFICES ASSUME IInv, [Next]_vars PROVE IInv'
        OBVIOUS
    <2>1. ASSUME NEW k \in Keys, New(k) PROVE IInv'
        BY <2>1, NewIInv
    <2>2. CASE ClearRottenSessions \/ \E k \in Keys : Expire(k)
        BY <2>2, ExpiryIInv
    <2>3. ASSUME NEW k \in Keys, NEW c \in Conns, Upgrade(c, k) PROVE IInv'
        BY <2>3, UpgradeIInv
    <2>4. ASSUME NEW k \in Keys, NEW l \in Logouts, Logout(l, k) PROVE IInv'
        BY <2>4, LogoutIInv
    <2>5. ASSUME NEW c \in Conns, ConnStep(c) PROVE IInv'
        BY <2>5, ConnStepIInv
    <2>6. ASSUME NEW l \in Logouts, LogoutStep(l) PROVE IInv'
        BY <2>6, LogoutStepIInv
    <2>7. CASE Restart
        BY <2>7, RestartIInv
    <2>8. CASE UNCHANGED vars
        BY <2>8 DEF vars, IInv, TypeOK, Recorded, LiveSessionSaved, LogoutEndsSession,
           NoDeadConnection, Valid
    <2> QED
        BY <2>1, <2>2, <2>3, <2>4, <2>5, <2>6, <2>7, <2>8 DEF Next
<1> QED
    BY <1>1, InitIInv, PTL DEF Spec

(* The variables of the session store keep their types. *)
THEOREM TypeCorrect == Spec => []TypeOK
<1>1. IInv => TypeOK
    BY DEF IInv
<1> QED
    BY <1>1, Invariance, PTL

(* A session in use is in the bucket, or a logout is removing it. *)
THEOREM Durable == Spec => []LiveSessionSaved
<1>1. IInv => LiveSessionSaved
    BY DEF IInv
<1> QED
    BY <1>1, Invariance, PTL

(* A session is not valid once its logout was answered with OK, until a restart. *)
THEOREM LogoutIsFinal == Spec => []LogoutEndsSession
<1>1. IInv => LogoutEndsSession
    BY DEF IInv
<1> QED
    BY <1>1, Invariance, PTL

(* No dead connection is recorded in a session. *)
THEOREM OnlyLiveConnections == Spec => []NoDeadConnection
<1>1. IInv => NoDeadConnection
    BY DEF IInv
<1> QED
    BY <1>1, Invariance, PTL

----
(* To the service, a session is valid while it is in the map and has not expired: the
   steps of connections and of logouts on their way leave that alone. *)
LEMMA ServiceInit == Init => Service!Init
BY DEF Init, Service!Init

LEMMA ConnStepHidden ==
    ASSUME NEW c \in Conns, ConnStep(c)
    PROVE  UNCHANGED Service!vars
<1>1. UNCHANGED <<issued, expired, sessions, restarts>>
    BY DEF ConnStep, ConnAt, Subscribe, AddSubscription, DeleteSubscription, Close,
       SessionCloseCallback, DeleteConnection
<1> QED
    BY <1>1 DEF Service!vars

LEMMA LogoutStepOfService ==
    ASSUME IInv, NEW l \in Logouts, LogoutStep(l)
    PROVE  [Service!Next]_Service!vars
<1>1. UNCHANGED <<issued, expired, restarts>>
    BY DEF LogoutStep, LogoutAt, SignOut, CheckSession, GetByAPIKey, DeleteSaved,
       DeleteSession
<1>2. CASE DeleteSession(l)
    <2> DEFINE k == logout[l].key
    <2>1. sessions' = sessions \ {k}
        BY <1>2 DEF DeleteSession
    <2>2. CASE Valid(k)
        <3>1. k \in Keys
            BY <2>2 DEF Valid, IInv, TypeOK
        <3>2. Service!End(k)
            BY <1>1, <2>1, <2>2 DEF Valid, Service!End
        <3> QED
            BY <3>1, <3>2 DEF Service!Next, Service!End
    <2>3. CASE ~Valid(k)
        BY <1>1, <2>1, <2>3 DEF Valid, Service!vars
    <2> QED
        BY <2>2, <2>3
<1>3. CASE ~DeleteSession(l)
    <2>1. UNCHANGED sessions
        BY <1>3 DEF LogoutStep, SignOut, CheckSession, GetByAPIKey, DeleteSaved
    <2> QED
        BY <1>1, <2>1 DEF Service!vars
<1> QED
    BY <1>2, <1>3

LEMMA RestartOfService == ASSUME IInv, Restart PROVE Service!Restart
<1> DEFINE loaded == {k \in sessions' : k \notin expired'}
<1>1. loaded \in SUBSET issued
    BY DEF Restart, IInv, TypeOK
<1>2. issued' = issued /\ restarts' = restarts + 1
    BY DEF Restart
<1> QED
    BY <1>1, <1>2 DEF Service!Restart

LEMMA StepOfService == IInv /\ [Next]_vars => [Service!Next]_Service!vars
<1> SUFFICES ASSUME IInv, [Next]_vars PROVE [Service!Next]_Service!vars
    OBVIOUS
<1>1. ASSUME NEW k \in Keys, New(k) PROVE Service!Next
    <2>1. k \notin expired
        BY <1>1 DEF New, IInv, TypeOK
    <2>2. Service!Create(k)
        BY <1>1, <2>1 DEF New, Service!Create
    <2> QED
        BY <2>2 DEF Service!Next
<1>2. ASSUME NEW k \in Keys, Expire(k) PROVE [Service!Next]_Service!vars
    <2>1. CASE k \in sessions
        <3>1. Service!End(k)
            BY <1>2, <2>1 DEF Expire, Service!End
        <3> QED
            BY <3>1 DEF Service!Next
    <2>2. CASE k \notin sessions
        BY <1>2, <2>2 DEF Expire, Service!vars
    <2> QED
        BY <2>1, <2>2
<1>3. CASE ClearRottenSessions
    BY <1>3 DEF ClearRottenSessions, Service!vars
<1>4. ASSUME NEW k \in Keys, NEW c \in Conns, Upgrade(c, k) PROVE UNCHANGED Service!vars
    BY <1>4 DEF Upgrade, Service!vars
<1>5. ASSUME NEW k \in Keys, NEW l \in Logouts, Logout(l, k) PROVE UNCHANGED Service!vars
    BY <1>5 DEF Logout, Service!vars
<1>6. ASSUME NEW c \in Conns, ConnStep(c) PROVE UNCHANGED Service!vars
    BY <1>6, ConnStepHidden
<1>7. ASSUME NEW l \in Logouts, LogoutStep(l) PROVE [Service!Next]_Service!vars
    BY <1>7, LogoutStepOfService
<1>8. CASE Restart
    BY <1>8, RestartOfService DEF Service!Next
<1>9. CASE UNCHANGED vars
    BY <1>9 DEF vars, Service!vars
<1> QED
    BY <1>1, <1>2, <1>3, <1>4, <1>5, <1>6, <1>7, <1>8, <1>9 DEF Next

(* The session store implements what it promises to the rest of the process. *)
THEOREM Implements == Spec => ImplementsService
BY ServiceInit, StepOfService, Invariance, PTL DEF Spec, ImplementsService, Service!Spec
====
