---- MODULE Sessions ----
(***************************************************************************)
(* User sessions: the map of package sessionstore with its copy in bolt,   *)
(* login and logout over HTTP, the WAMP connections of browsers, which     *)
(* record their subscriptions in the session, expiry and restarts.         *)
(*                                                                         *)
(* Every operation looks the session up under locker and then works on the *)
(* pointer it found, under the lock of the session or under none: the two  *)
(* are separate steps.  An identifier is used once, so within one life of  *)
(* the process a session is named by it.                                   *)
(***************************************************************************)
EXTENDS Naturals

CONSTANTS Keys,         \* session identifiers (APIKey)
          Conns,        \* WAMP connections of browsers
          Logouts,      \* logout requests
          MaxRestarts,  \* bound: how often the process dies and starts again
          None

ASSUME SessionsAssumption == MaxRestarts \in Nat /\ None \notin Keys

VARIABLES
    issued,       \* identifiers in use or used before
    expired,      \* those whose TTL is over
    sessions,     \* the map
    connections,  \* the connections recorded in each session
    saved,        \* the bucket: the connections of each session it has
    conn,         \* browser connections
    logout,       \* logout requests
    ended,        \* sessions whose logout was answered with OK
    restarts

vars == <<issued, expired, sessions, connections, saved, conn, logout, ended, restarts>>

----
ConnStates   == {"new", "open", "adding", "removing", "closing", "deleting", "closed"}
LogoutStates == {"new", "signOut", "check", "lookup", "deleteSaved", "deleteSession",
                 "ok", "error", "gone"}

TypeOK ==
    /\ issued \subseteq Keys
    /\ expired \subseteq issued
    /\ sessions \subseteq issued
    /\ connections \in [Keys -> SUBSET Conns]
    /\ DOMAIN saved \subseteq issued
    /\ saved = [k \in DOMAIN saved |-> saved[k]]
    /\ conn \in [Conns -> [pc : ConnStates, key : issued \cup {None}]]
    /\ \A c \in Conns : conn[c].pc = "new" <=> conn[c].key = None
    /\ logout \in [Logouts -> [pc : LogoutStates, key : issued \cup {None}]]
    /\ \A l \in Logouts : logout[l].pc = "new" <=> logout[l].key = None
    /\ ended \subseteq issued
    /\ restarts \in 0..MaxRestarts

Init ==
    /\ issued = {}
    /\ expired = {}
    /\ sessions = {}
    /\ connections = [k \in Keys |-> {}]
    /\ saved = [k \in {} |-> {}]
    /\ conn = [c \in Conns |-> [pc |-> "new", key |-> None]]
    /\ logout = [l \in Logouts |-> [pc |-> "new", key |-> None]]
    /\ ended = {}
    /\ restarts = 0

(* A token of the session passes extractClaimsFromJWT and CheckSession. *)
Valid(k) == k \in sessions /\ k \notin expired

(* db.Save and db.Delete. *)
Save(k, cs) == saved' = [j \in DOMAIN saved \cup {k} |-> IF j = k THEN cs ELSE saved[j]]
Erase(K)    == saved' = [j \in DOMAIN saved \ K |-> saved[j]]

----
(* New: map and bucket under locker. *)

(* Mutant: the new session is not saved. *)
NewUnsaved(k) ==
    /\ k \notin issued
    /\ issued' = issued \cup {k}
    /\ sessions' = sessions \cup {k}
    /\ connections' = [connections EXCEPT ![k] = {}]
    /\ UNCHANGED <<expired, saved, conn, logout, ended, restarts>>

New(k) ==
    /\ k \notin issued
    /\ issued' = issued \cup {k}
    /\ sessions' = sessions \cup {k}
    /\ connections' = [connections EXCEPT ![k] = {}]
    /\ Save(k, {})
    /\ UNCHANGED <<expired, conn, logout, ended, restarts>>

Expire(k) ==
    /\ k \in issued \ expired
    /\ expired' = expired \cup {k}
    /\ UNCHANGED <<issued, sessions, connections, saved, conn, logout, ended, restarts>>

(* Once a minute, under locker. *)
ClearRottenSessions ==
    /\ sessions \cap expired # {}
    /\ sessions' = sessions \ expired
    /\ Erase(sessions \cap expired)
    /\ UNCHANGED <<issued, expired, connections, conn, logout, ended, restarts>>

----
(* Connections.  One goroutine serves the messages of a connection in turn and runs
   the close callback after the last one. *)

ConnAt(c, from, to) ==
    /\ conn[c].pc = from
    /\ conn' = [conn EXCEPT ![c].pc = to]
    /\ UNCHANGED <<issued, expired, logout, ended, restarts>>

(* Mutant: a connection without a token is let in. *)
UpgradeAnybody(c, k) ==
    /\ conn[c].pc = "new"
    /\ conn' = [conn EXCEPT ![c].pc = "open"]
    /\ UNCHANGED <<issued, expired, sessions, connections, saved, logout, ended, restarts>>

Upgrade(c, k) ==
    /\ conn[c].pc = "new"
    /\ Valid(k)
    /\ conn' = [conn EXCEPT ![c] = [pc |-> "open", key |-> k]]
    /\ UNCHANGED <<issued, expired, sessions, connections, saved, logout, ended, restarts>>

(* Subscribe or unsubscribe: an error if the session is not found. *)
Subscribe(c) ==
    /\ conn[c].key \in sessions
    /\ ConnAt(c, "open", "adding") \/ ConnAt(c, "open", "removing")
    /\ UNCHANGED <<sessions, connections, saved>>

(* Mutant: saving a session puts it back into the map. *)
AddSubscriptionBack(c) ==
    LET k == conn[c].key IN
    /\ ConnAt(c, "adding", "open")
    /\ connections' = [connections EXCEPT ![k] = @ \cup {c}]
    /\ Save(k, connections'[k])
    /\ sessions' = sessions \cup {k}

AddSubscription(c) ==
    LET k == conn[c].key IN
    /\ ConnAt(c, "adding", "open")
    /\ connections' = [connections EXCEPT ![k] = @ \cup {c}]
    /\ Save(k, connections'[k])
    /\ UNCHANGED sessions

(* Nothing is saved for a connection that the session does not know. *)
DeleteSubscription(c) ==
    LET k == conn[c].key IN
    /\ ConnAt(c, "removing", "open")
    /\ IF c \in connections[k] THEN Save(k, connections[k]) ELSE UNCHANGED saved
    /\ UNCHANGED <<sessions, connections>>

Close(c) ==
    /\ ConnAt(c, "open", "closing")
    /\ UNCHANGED <<sessions, connections, saved>>

(* Mutant: the close callback is not set. *)
CloseUnnoticed(c) ==
    /\ ConnAt(c, "closing", "closed")
    /\ UNCHANGED <<sessions, connections, saved>>

SessionCloseCallback(c) ==
    /\ ConnAt(c, "closing", IF conn[c].key \in sessions THEN "deleting" ELSE "closed")
    /\ UNCHANGED <<sessions, connections, saved>>

DeleteConnection(c) ==
    LET k == conn[c].key IN
    /\ ConnAt(c, "deleting", "closed")
    /\ connections' = [connections EXCEPT ![k] = @ \ {c}]
    /\ Save(k, connections'[k])
    /\ UNCHANGED sessions

----
(* Logout. *)

LogoutAt(l, from, to) ==
    /\ logout[l].pc = from
    /\ logout' = [logout EXCEPT ![l].pc = to]
    /\ ended' = IF to = "ok" THEN ended \cup {logout[l].key} ELSE ended
    /\ UNCHANGED <<issued, expired, connections, conn, restarts>>

Logout(l, k) ==
    /\ logout[l].pc = "new"
    /\ k \in issued \ expired
    /\ logout' = [logout EXCEPT ![l] = [pc |-> "signOut", key |-> k]]
    /\ UNCHANGED <<issued, expired, sessions, connections, saved, conn, ended, restarts>>

(* The signOut task succeeds, fails or times out. *)
SignOut(l) ==
    /\ LogoutAt(l, "signOut", "check") \/ LogoutAt(l, "signOut", "error")
    /\ UNCHANGED <<sessions, saved>>

CheckSession(l) ==
    /\ LogoutAt(l, "check", IF logout[l].key \in sessions THEN "lookup" ELSE "ok")
    /\ UNCHANGED <<sessions, saved>>

GetByAPIKey(l) ==
    /\ LogoutAt(l, "lookup", IF logout[l].key \in sessions THEN "deleteSaved" ELSE "error")
    /\ UNCHANGED <<sessions, saved>>

DeleteSaved(l) ==
    /\ LogoutAt(l, "deleteSaved", "deleteSession")
    /\ Erase({logout[l].key})
    /\ UNCHANGED sessions

(* Mutant: Delete forgets the map. *)
DeleteFromBucketOnly(l) ==
    /\ LogoutAt(l, "deleteSession", "ok")
    /\ UNCHANGED <<sessions, saved>>

DeleteSession(l) ==
    /\ LogoutAt(l, "deleteSession", "ok")
    /\ sessions' = sessions \ {logout[l].key}
    /\ UNCHANGED saved

----
(* The process dies at any point, and loadSessions fills the map from the bucket.
   Goroutines and connections are gone. *)
Restart ==
    LET loaded == DOMAIN saved \ expired IN
    /\ restarts < MaxRestarts
    /\ restarts' = restarts + 1
    /\ sessions' = loaded
    /\ connections' = [k \in Keys |-> {}]
    /\ saved' = [k \in loaded |-> {}]
    /\ conn' = [c \in Conns |-> IF conn[c].pc = "new" THEN conn[c]
                                ELSE [conn[c] EXCEPT !.pc = "closed"]]
    /\ logout' = [l \in Logouts |-> IF logout[l].pc = "new" THEN logout[l]
                                    ELSE [logout[l] EXCEPT !.pc = "gone"]]
    /\ UNCHANGED <<issued, expired, ended>>

----
ConnStep(c) == \/ Subscribe(c) \/ AddSubscription(c) \/ DeleteSubscription(c)
               \/ Close(c) \/ SessionCloseCallback(c) \/ DeleteConnection(c)
LogoutStep(l) == \/ SignOut(l) \/ CheckSession(l) \/ GetByAPIKey(l)
                 \/ DeleteSaved(l) \/ DeleteSession(l)

Next ==
    \/ \E k \in Keys : \/ New(k) \/ Expire(k)
                       \/ \E c \in Conns : Upgrade(c, k)
                       \/ \E l \in Logouts : Logout(l, k)
    \/ ClearRottenSessions
    \/ \E c \in Conns : ConnStep(c)
    \/ \E l \in Logouts : LogoutStep(l)
    \/ Restart

Spec == Init /\ [][Next]_vars

----
(* A session that is in use survives a crash at any point: it is in the bucket, or a
   logout is on its way from the bucket to the map. *)
LiveSessionSaved ==
    \A k \in sessions :
        \/ k \in DOMAIN saved
        \/ \E l \in Logouts : logout[l] = [pc |-> "deleteSession", key |-> k]

(* A logout that was answered with OK has ended its session, however many logouts,
   connections and expiries it raced with, as long as the process lives. *)
LogoutEndsSession ==
    \A l \in Logouts : logout[l].pc = "ok" => ~Valid(logout[l].key)

(* The connections recorded in a session, which workers read to address events, are
   alive: none is recorded, or left, after the close callback of the connection. *)
NoDeadConnection ==
    \A k \in sessions : \A c \in connections[k] : conn[c].pc # "closed"

(* To the rest of the process the store is SessionService: a session is valid while it is
   in the map and its TTL is not over, and once it is not it never becomes so again in
   the life of the process - though it may still be saved. *)
Service == INSTANCE SessionService WITH valid <- {k \in sessions : k \notin expired},
                                        lives <- restarts
ImplementsService == Service!Spec

(* "Delete removes Session from store" (sessionstore.go:251): a session whose logout
   was answered with OK is never valid again. *)
DeletedStaysDeleted == \A k \in ended : ~Valid(k)
====
