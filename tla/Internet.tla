---- MODULE Internet ----
(***************************************************************************)
(* The life of a request to package internet, over what the task queue and *)
(* the session store promise (TaskService, SessionService).  Endpoints has *)
(* the table of the handlers; here is what they do, step by step: the      *)
(* check of the token, the handler up to its task, the worker, the reply   *)
(* made of the outcome, and what login, logout, the subscriptions and the  *)
(* file handlers do after their task.  Requests run concurrently and meet  *)
(* in the sessions and in the file of a file store.                        *)
(*                                                                         *)
(* The process does not stop here: a restart ends every request.           *)
(***************************************************************************)
EXTENDS Endpoints, FiniteSets

CONSTANTS Requests,  \* requests, one each (a bound)
          Offers,    \* Offers[r]: the routes that request r may take (a bound)
          Keys,      \* session identifiers
          WorkerKeys,\* those that workers may ask for: each login finds another (a bound)
          None,      \* no token
          Bad        \* a token that is malformed, forged or expired

ASSUME InternetAssumption ==
    /\ Offers \in [Requests -> SUBSET Routes]
    /\ WorkerKeys \subseteq Keys
    /\ None \notin Keys \cup Requests /\ Bad \notin Keys /\ None # Bad

VARIABLES
    request,          \* the requests
    result,           \* what the worker said of the task of each request
    issued, valid,    \* the sessions
    connected,        \* sessions with an open WAMP connection
    ended,            \* sessions whose logout was answered with OK
    record, file,     \* of one file: the upload that its record and its content are of
    overlapped,       \* uploads that ran next to another change of the file
    outcome, started  \* the queue

Task(r)       == <<r, IF request[r].to = "logout" THEN "timed" ELSE "untimed">>
DidSignOut(r) == <<r, "didSignOut">>

Queue == INSTANCE TaskService WITH
             Tasks <- Requests \X {"timed", "untimed", "didSignOut"},
             TimedTasks <- Requests \X {"timed", "didSignOut"}
Store == INSTANCE SessionService WITH lives <- 0

queueVars   == <<outcome, started>>
sessionVars == <<issued, valid, connected, ended>>
fileVars    == <<record, file, overlapped>>
vars == <<request, result, sessionVars, fileVars, queueVars>>

----
Steps   == {"new", "arrived", "handler", "task", "after", "delete", "replied"}
Replies == {0, CallResult, CallError} \cup 100..999
Results == {"none"} \cup ErrorKinds \cup ResultKinds
NewRequest == [pc |-> "new", to |-> "none", key |-> None, reply |-> 0, late |-> FALSE,
               stored |-> FALSE]

TypeOK ==
    /\ request \in [Requests -> [pc : Steps, to : Routes \cup {"none"},
                                 key : Keys \cup {None, Bad}, reply : Replies,
                                 late : BOOLEAN, stored : BOOLEAN]]
    /\ result \in [Requests -> [failed : BOOLEAN, kind : Results]]
    /\ valid \subseteq issued /\ issued \subseteq Keys
    /\ connected \subseteq issued /\ ended \subseteq issued
    /\ {record, file} \subseteq Requests \cup {None}
    /\ overlapped \subseteq Requests
    /\ \A r \in Requests :
           /\ request[r].pc = "new" <=> request[r].to = "none"
           /\ request[r].pc = "replied" <=> request[r].reply # 0
           /\ request[r].pc \in {"new", "arrived", "handler"} => outcome[Task(r)] = "none"
           /\ request[r].pc \in {"task", "after", "delete"} => outcome[Task(r)] # "none"
           /\ result[r].kind # "none" <=> outcome[Task(r)] = "answered"

Init ==
    /\ request = [r \in Requests |-> NewRequest]
    /\ result = [r \in Requests |-> [failed |-> FALSE, kind |-> "none"]]
    /\ Store!Init /\ connected = {} /\ ended = {}
    /\ record = None /\ file = None /\ overlapped = {}
    /\ Queue!Init

To(r)     == Route[request[r].to]
Access(r) == To(r).access
Live(r)   == request[r].key \in valid

Goto(r, pc) == request' = [request EXCEPT ![r].pc = pc]
Reply(r, replies) ==
    \E reply \in replies :
        request' = [request EXCEPT ![r].pc = "replied", ![r].reply = reply]

Silent == UNCHANGED <<result, fileVars, queueVars>>

----
(* A request arrives: with any token a client can hold, or on a connection.  The request
   that opened a connection may become a call on one (a bound: it is forgotten). *)

FileChanges == {"postFile", "deleteFile"}
Changing == {r \in Requests : /\ request[r].to \in FileChanges
                              /\ request[r].pc # "replied"}

Held(access) == CASE access \in {"any"} -> {None}
                  [] access \in {"open", "call", "subscribe"} -> connected
                  [] OTHER -> issued \cup {None, Bad}

Arrive(r, to, key) ==
    /\ request[r].pc = "new" \/ (request[r].to = "wamp" /\ request[r].reply = 101)
    /\ key \in Held(Route[to].access)
    /\ request' = [request EXCEPT ![r] = [NewRequest EXCEPT !.pc = "arrived", !.to = to,
                                                            !.key = key, !.late = key \in ended]]
    /\ overlapped' = IF to \in FileChanges /\ Changing # {}
                     THEN overlapped \cup Changing \cup {r} ELSE overlapped
    /\ UNCHANGED <<result, sessionVars, record, file, queueVars>>

----
(* Who is let through to the handler. *)

Enter(r) ==
    /\ request[r].pc = "arrived"
    /\ Access(r) \in {"any", "open"}
    /\ Goto(r, "handler")
    /\ UNCHANGED sessionVars /\ Silent

(* Mutant: a token is taken for a session. *)
jwtAuthUnchecked(r) ==
    /\ request[r].pc = "arrived"
    /\ Access(r) \in {"guest", "token"}
    /\ CASE request[r].key = None /\ Access(r) = "token" -> Reply(r, {401})
         [] request[r].key = Bad -> Reply(r, {403})
         [] OTHER -> Goto(r, "handler")
    /\ UNCHANGED sessionVars /\ Silent

jwtAuthMiddleware(r) ==
    /\ request[r].pc = "arrived"
    /\ Access(r) \in {"guest", "token"}
    /\ CASE request[r].key = None /\ Access(r) = "token" -> Reply(r, {401})
         [] request[r].key # None /\ ~Live(r) -> Reply(r, {403})
         [] OTHER -> Goto(r, "handler")
    /\ UNCHANGED sessionVars /\ Silent

(* The calls of a connection check its session each time. *)
CheckCall(r) ==
    /\ request[r].pc = "arrived"
    /\ Access(r) = "call"
    /\ IF Live(r) THEN Goto(r, "handler") ELSE Reply(r, {CallError})
    /\ UNCHANGED sessionVars /\ Silent

(* Mutant: a token is enough to open a connection. *)
wampHandlerUnchecked(r) ==
    /\ request[r].pc = "arrived"
    /\ Access(r) = "upgrade"
    /\ \/ request[r].key # None /\ Reply(r, {101}) /\ connected' = connected \cup {request[r].key}
       \/ request[r].key = None /\ Reply(r, {403}) /\ UNCHANGED connected
    /\ UNCHANGED <<issued, valid, ended>> /\ Silent

wampHandler(r) ==
    /\ request[r].pc = "arrived"
    /\ Access(r) = "upgrade"
    /\ \/ Live(r) /\ Reply(r, {101}) /\ connected' = connected \cup {request[r].key}
       \/ ~Live(r) /\ Reply(r, {403}) /\ UNCHANGED connected
    /\ UNCHANGED <<issued, valid, ended>> /\ Silent

checkJWTHandler(r) ==
    /\ request[r].pc = "arrived"
    /\ Access(r) = "checkJWT"
    /\ Reply(r, IF Live(r) THEN {200} ELSE {403})
    /\ UNCHANGED sessionVars /\ Silent

subStoresHandler(r) ==
    /\ request[r].pc = "arrived"
    /\ Access(r) = "subscribe"
    /\ Reply(r, IF Live(r) THEN {CallResult} ELSE {CallError})
    /\ UNCHANGED sessionVars /\ Silent

(* logoutHandler up to its task: no token, or one that says nothing, is answered with
   OK; the session is not looked at. *)
StartLogout(r) ==
    /\ request[r].pc = "arrived"
    /\ Access(r) = "logout"
    /\ IF request[r].key \in {None, Bad} THEN Reply(r, {200}) ELSE Goto(r, "handler")
    /\ UNCHANGED sessionVars /\ Silent

----
(* A handler: it refuses, answers by itself or pushes its task. *)

Refuse(r) ==
    /\ request[r].pc = "handler"
    /\ Reply(r, To(r).bad)
    /\ UNCHANGED sessionVars /\ Silent

Answer(r) ==
    /\ request[r].pc = "handler"
    /\ To(r).type = "none"
    /\ Reply(r, To(r).onResult["nil"])
    /\ UNCHANGED sessionVars /\ Silent

Push(r) ==
    /\ request[r].pc = "handler"
    /\ To(r).type # "none"
    /\ Goto(r, "task")
    /\ Queue!Submit(Task(r))
    /\ UNCHANGED <<result, sessionVars, fileVars>>

----
(* The queue: a worker starts a task and ends it with an error or a result, which is
   when a change of the file's record is done; a task with a timeout may pass it. *)

Start(t) ==
    /\ Queue!Start(t)
    /\ UNCHANGED <<request, result, sessionVars, fileVars>>

Finish(r, failed, kind) ==
    /\ Queue!Answer(Task(r))
    /\ result' = [result EXCEPT ![r] = [failed |-> failed, kind |-> kind]]
    /\ record' = CASE ~failed /\ request[r].to = "postFile" -> r
                   [] ~failed /\ request[r].to = "deleteFile" -> None
                   [] OTHER -> record
    /\ UNCHANGED <<request, sessionVars, file, overlapped>>

(* The result of didSignOut is dropped. *)
FinishDidSignOut(r) ==
    /\ Queue!Answer(DidSignOut(r))
    /\ UNCHANGED <<request, result, sessionVars, fileVars>>

Expire(t) ==
    /\ Queue!Expire(t)
    /\ UNCHANGED <<request, result, sessionVars, fileVars>>

----
(* The reply made of the outcome. *)

(* Mutant: an answer without a result is not replied to. *)
RespondToResult(r) ==
    /\ request[r].pc = "task"
    /\ outcome[Task(r)] = "answered"
    /\ result[r].kind # "nil"
    /\ LET replies == IF result[r].failed THEN To(r).onError[result[r].kind]
                                          ELSE To(r).onResult[result[r].kind]
       IN  IF replies = {} THEN Goto(r, "after") ELSE Reply(r, replies)
    /\ UNCHANGED sessionVars /\ Silent

Respond(r) ==
    /\ request[r].pc = "task"
    /\ outcome[Task(r)] = "answered"
    /\ LET replies == IF result[r].failed THEN To(r).onError[result[r].kind]
                                          ELSE To(r).onResult[result[r].kind]
       IN  IF replies = {} THEN Goto(r, "after") ELSE Reply(r, replies)
    /\ UNCHANGED sessionVars /\ Silent

RespondToTimeout(r) ==
    /\ request[r].pc = "task"
    /\ outcome[Task(r)] = "timeout"
    /\ Reply(r, {500})
    /\ UNCHANGED sessionVars /\ Silent

----
(* What comes after the task. *)

After(r, to) == request[r].pc = "after" /\ request[r].to = to

(* NewSession, and a cookie unless the claims of the new token cannot be read: then the
   session stays and nobody has its token. *)
NewSession(r, k) ==
    /\ After(r, "login")
    /\ Store!Create(k)
    /\ Reply(r, {200, 500})
    /\ UNCHANGED <<connected, ended>> /\ Silent

AddUserSubscription(r) ==
    /\ After(r, "com_user")
    /\ Reply(r, IF Live(r) THEN {CallResult} ELSE {CallError})
    /\ UNCHANGED sessionVars /\ Silent

CheckSession(r) ==
    /\ After(r, "logout")
    /\ \/ Live(r) /\ Goto(r, "delete") /\ UNCHANGED ended
       \/ ~Live(r) /\ Reply(r, {200}) /\ ended' = ended \cup {request[r].key}
    /\ UNCHANGED <<issued, valid, connected>> /\ Silent

(* DeleteSession looks the session up again; didSignOut runs in the background. *)
DeleteSession(r) ==
    /\ request[r].pc = "delete"
    /\ \/ /\ Store!End(request[r].key)
          /\ ended' = ended \cup {request[r].key}
          /\ Reply(r, {200, 307})
          /\ Queue!Submit(DidSignOut(r))
       \/ /\ ~Live(r)
          /\ Reply(r, {500})
          /\ UNCHANGED <<issued, valid, ended, queueVars>>
    /\ UNCHANGED <<result, connected, fileVars>>

(* writeFileFromFileStore: what the store says is passed on with status 200; no answer
   is a panic. *)
FetchFile(r) ==
    /\ After(r, "getFile")
    /\ Reply(r, {200, 500})
    /\ UNCHANGED sessionVars /\ Silent

(* Mutant: the content is sent before the task of the record is answered. *)
UploadEarly(r) ==
    /\ request[r].to = "postFile"
    /\ request[r].pc \in {"task", "after"}
    /\ file' = r
    /\ IF request[r].pc = "after" THEN Reply(r, {200}) ELSE UNCHANGED request
    /\ UNCHANGED <<result, sessionVars, record, overlapped, queueVars>>

(* Mutant: the content is sent in the background, after the reply. *)
UploadLate(r) ==
    /\ request[r].to = "postFile"
    /\ \/ request[r].pc = "after" /\ Reply(r, {200}) /\ UNCHANGED file
       \/ request[r].pc = "replied" /\ ~request[r].stored
          /\ file' = r /\ request' = [request EXCEPT ![r].stored = TRUE]
    /\ UNCHANGED <<result, sessionVars, record, overlapped, queueVars>>

(* The content follows the record.  The file store may refuse it, which nobody looks
   at, or keep it although the connection fails. *)
Upload(r) ==
    /\ After(r, "postFile")
    /\ \E stored \in BOOLEAN, reply \in {200, 500} :
           /\ request' = [request EXCEPT ![r].pc = "replied", ![r].reply = reply,
                                         ![r].stored = stored]
           /\ file' = IF stored THEN r ELSE file
    /\ UNCHANGED <<result, sessionVars, record, overlapped, queueVars>>

----
(* Sessions that workers ask for, sessions that are over, connections that close. *)

SessionNew(k) ==
    /\ k \in WorkerKeys
    /\ Store!Create(k)
    /\ UNCHANGED <<request, connected, ended>> /\ Silent

SessionExpires(k) ==
    /\ Store!End(k)
    /\ UNCHANGED <<request, connected, ended>> /\ Silent

Disconnect(k) ==
    /\ k \in connected
    /\ connected' = connected \ {k}
    /\ UNCHANGED <<request, issued, valid, ended>> /\ Silent

----
Admit(r) == \/ Enter(r) \/ jwtAuthMiddleware(r) \/ CheckCall(r) \/ wampHandler(r)
            \/ checkJWTHandler(r) \/ subStoresHandler(r) \/ StartLogout(r)

Handle(r) == Refuse(r) \/ Answer(r) \/ Push(r)

Complete(r) == \/ Respond(r) \/ RespondToTimeout(r)
               \/ \E k \in Keys : NewSession(r, k)
               \/ AddUserSubscription(r) \/ CheckSession(r) \/ DeleteSession(r)
               \/ FetchFile(r) \/ Upload(r)

Outcomes == ({TRUE} \X ErrorKinds) \cup ({FALSE} \X ResultKinds)

Next ==
    \/ \E r \in Requests :
           \/ \E to \in Offers[r], key \in Keys \cup {None, Bad} : Arrive(r, to, key)
           \/ Admit(r) \/ Handle(r) \/ Complete(r)
           \/ \E o \in Outcomes : Finish(r, o[1], o[2])
           \/ FinishDidSignOut(r)
    \/ \E t \in Requests \X {"timed", "untimed", "didSignOut"} : Start(t) \/ Expire(t)
    \/ \E k \in Keys : SessionNew(k) \/ SessionExpires(k) \/ Disconnect(k)

Spec == Init /\ [][Next]_vars

(* The goroutines of requests run, timers fire.  Nothing is assumed of workers, of
   clients and of expiry. *)
FairSpec == /\ Spec
            /\ \A r \in Requests : WF_vars(Admit(r) \/ Handle(r) \/ Complete(r))
            /\ \A t \in Requests \X {"timed", "didSignOut"} : WF_vars(Expire(t))

----
(* jwtAuthMiddleware, the calls and the rest look the session up each time: a request
   that arrives after the logout of its session was answered with OK, whatever raced
   with that logout, gets no further than a refusal.  Left out are the logout itself
   and com.config, which do not look, and the task of com.user, which looks late. *)
Checked == {"guest", "token", "call", "upgrade", "checkJWT", "subscribe"}

LoggedOutIsLockedOut ==
    \A r \in Requests : request[r].late =>
        /\ Access(r) \in Checked => /\ request[r].pc \in {"arrived", "replied"}
                                    /\ request[r].reply \in {0, 401, 403, CallError}
        /\ request[r].to = "com_user" => request[r].reply # CallResult

(* A client that is told its request was refused or its item not found can rely on it:
   no worker has done the task.  Hooks and HTTP actions are left out, whose status the
   worker chooses. *)
RefusedMeansUndone(r) ==
    /\ request[r].reply \in {400, 401, 403, 404}
    /\ request[r].to \notin {"hook", "httpAction"}
    => result[r].failed \/ result[r].kind = "none"

(* A client that is told of success can rely on it as well: its task, if it has one, was
   done.  Left out are the two handlers that take an error for "no such user", and REST
   actions, where "200 items failed" from a worker is answered with status 200. *)
SuccessMeansDone(r) ==
    /\ request[r].reply \in {200, 201, CallResult}
    /\ request[r].to \notin {"checkUser", "com_checkUser", "restAction"}
    => ~result[r].failed

ReplyTellsOutcome == \A r \in Requests : RefusedMeansUndone(r) /\ SuccessMeansDone(r)

(* postFileHandler sends the content only when the worker has accepted the record, so
   the file store has no content that no record was accepted for. *)
FileHasRecord ==
    file # None => result[file].kind # "none" /\ ~result[file].failed

(* The record (name) and the content of a file come from different uploads only if the
   file store has not kept the content of the last, or if it ran next to another
   change of the file: nothing orders the two writes of two uploads. *)
MixedOnlyIfOverlapped ==
    (/\ record # None /\ file # None /\ record # file
     /\ request[record].pc = "replied" /\ request[record].stored)
    => record \in overlapped

(* A request whose task was answered is replied to, and a logout even if no worker ever
   comes. *)
RequestReplied ==
    \A r \in Requests :
        (\/ request[r].pc = "task" /\ outcome[Task(r)] = "answered"
         \/ request[r].to = "logout") ~> (request[r].pc = "replied")
====
