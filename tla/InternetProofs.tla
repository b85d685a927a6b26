---- MODULE InternetProofs ----
(***************************************************************************)
(* Proofs about Internet, for any number of requests, routes on offer,     *)
(* sessions, numbers and codes of workers: its types, that a logout locks  *)
(* its session out, that replies tell what was done, and what the file of  *)
(* a file store has to do with its record.                                 *)
(***************************************************************************)
EXTENDS Internet, TLAPS

(* The table of the handlers: every task gets a reply, with exceptions no error is
   answered with a success and no result with a refusal. *)
Final    == Replies \ {0}
Success  == {200, 201, CallResult}
Refusals == {400, 401, 403, 404}
Hiding   == {"checkUser", "com_checkUser", "restAction"}
Blaming  == {"hook", "httpAction"}

HandlerOK(h) ==
    /\ h.bad \subseteq Final
    /\ \A k \in ErrorKinds : h.onError[k] \subseteq Final /\ h.onError[k] # {}
    /\ \A k \in ResultKinds : h.onResult[k] \subseteq Final
Truthful(h) == \A k \in ErrorKinds : h.onError[k] \cap Success = {}
Fair(h)     == \A k \in ResultKinds : h.onResult[k] \cap Refusals = {}

Good(h) == HandlerOK(h) /\ Truthful(h) /\ Fair(h)

RowOK(to, row) ==
    /\ HandlerOK(row)
    /\ to \notin Hiding => Truthful(row)
    /\ to \notin Blaming /\ row.type # "none" => Fair(row)

LEMMA RowOfHandler ==
    ASSUME NEW to, NEW access, NEW h, HandlerOK(h),
           to \notin Hiding => Truthful(h), to \notin Blaming /\ h.type # "none" => Fair(h)
    PROVE  RowOK(to, For(access, h))
BY DEF RowOK, For, HandlerOK, Truthful, Fair

LEMMA JoinOK ==
    ASSUME NEW f, NEW g, \A to \in DOMAIN f : RowOK(to, f[to]), \A to \in DOMAIN g : RowOK(to, g[to])
    PROVE  \A to \in DOMAIN Join(f, g) : RowOK(to, Join(f, g)[to])
BY DEF Join

LEMMA Codes3 ==
    /\ Final = {3, 4} \cup 100..999
    /\ \A c \in Nat : WriteHeader(c) \in Final
BY DEF Final, Replies, CallResult, CallError, WriteHeader

LEMMA StatusCodes ==
    /\ {200, 302, 303, 400, 403, 404, 500} \subseteq Final
    /\ \A c \in Nat : WriteHeader(c) \in Final
    /\ 303 \notin Success /\ 200 \notin Refusals
<1>1. {200, 302, 303, 400, 403, 404, 500} \subseteq 100..999
    OBVIOUS
<1>2. 303 \notin Success /\ 200 \notin Refusals
    BY DEF Success, Refusals, CallResult
<1> QED
    BY <1>1, <1>2, Codes3

LEMMA PlainOK == ASSUME NEW R, R \subseteq Final, R \cap Refusals = {} 
                 PROVE  HandlerOK(Plain(R)) /\ Truthful(Plain(R)) /\ Fair(Plain(R))
BY Codes3 DEF Plain, Handler, AnyError, HandlerOK, Truthful, Fair, Success, CallResult

LEMMA RestOK ==
    /\ Good(restGetAllDocumentsHandler)
    /\ Good(restGetDocumentHandler)
    /\ Good(restPostDocumentHandler)
    /\ Good(restPutDocumentHandler)
    /\ Good(restDeleteDocumentHandler)
    /\ Good(restWidgetLoadDataHandler)
<1> USE Codes3 DEF Good, HandlerOK, Truthful, Fair, Success, Refusals, CallResult, CallError,
                   Handler, RestErrors, AnyResult, OnlyObject
<1>1. Good(restGetAllDocumentsHandler)
    BY DEF restGetAllDocumentsHandler
<1>2. Good(restGetDocumentHandler)
    BY DEF restGetDocumentHandler
<1>3. Good(restPostDocumentHandler)
    BY DEF restPostDocumentHandler
<1>4. Good(restPutDocumentHandler)
    BY DEF restPutDocumentHandler
<1>5. Good(restDeleteDocumentHandler)
    BY DEF restDeleteDocumentHandler
<1>6. Good(restWidgetLoadDataHandler)
    BY DEF restWidgetLoadDataHandler
<1> QED
    BY <1>1, <1>2, <1>3, <1>4, <1>5, <1>6

LEMMA RestActionOK == HandlerOK(restActionHandler) /\ Fair(restActionHandler)
<1> DEFINE E == [RestErrors(404) EXCEPT !["numbered"] = {WriteHeader(n) : n \in Numbers},
                                        !["other"] = {500}]
<1>1. /\ E["notFound"] = {404} /\ E["unauthorized"] = {403} /\ E["other"] = {500}
      /\ E["numbered"] = {WriteHeader(n) : n \in Numbers}
    <2> DEFINE D == RestErrors(404)
               N == {WriteHeader(n) : n \in Numbers}
    <2>1. DOMAIN D = ErrorKinds /\ {"notFound", "unauthorized", "numbered", "other"} = ErrorKinds
        BY DEF RestErrors, ErrorKinds
    <2>2. D["notFound"] = {404} /\ D["unauthorized"] = {403}
        BY <2>1 DEF RestErrors
    <2>3. E = [D EXCEPT !["numbered"] = N, !["other"] = {500}]
        OBVIOUS
    <2> HIDE DEF D, N, E
    <2>4. E["notFound"] = {404} /\ E["unauthorized"] = {403} /\ E["other"] = {500} /\ E["numbered"] = N
        BY <2>1, <2>2, <2>3
    <2> QED
        BY <2>4 DEF N
<1>2. \A k \in ErrorKinds : E[k] \subseteq Final /\ E[k] # {}
    <2> HIDE DEF E
    <2>1. \A n \in Numbers : WriteHeader(n) \in Final
        BY StatusCodes, EndpointsAssumption
    <2>2. {404, 403, 500} \subseteq Final
        BY StatusCodes
    <2>3. E["numbered"] \subseteq Final /\ E["numbered"] # {}
        <3>1. PICK n \in Numbers : TRUE
            BY EndpointsAssumption
        <3>2. WriteHeader(n) \in E["numbered"]
            BY <1>1, <3>1
        <3> QED
            BY <1>1, <2>1, <3>2
    <2> QED
        BY <1>1, <2>2, <2>3 DEF ErrorKinds
<1>3. /\ restActionHandler.bad = {} /\ restActionHandler.onError = E
      /\ restActionHandler.onResult = AnyResult(200)
    BY DEF restActionHandler, Handler
<1> HIDE DEF E
<1>4. \A k \in ResultKinds : restActionHandler.onResult[k] = {200}
    BY <1>3 DEF AnyResult
<1> QED
    BY <1>2, <1>3, <1>4, StatusCodes DEF HandlerOK, Fair

LEMMA FileHandlersOK ==
    /\ Good(getFileHandler)
    /\ Good(postFileHandler)
    /\ Good(deleteFileHandler)
<1> USE Codes3 DEF Good, HandlerOK, Truthful, Fair, Success, Refusals, CallResult, CallError,
                   Handler, AnyError, AnyResult, GoesOn
<1>1. Good(getFileHandler)
    BY DEF getFileHandler
<1>2. Good(postFileHandler)
    BY DEF postFileHandler
<1>3. Good(deleteFileHandler)
    BY DEF deleteFileHandler
<1> QED
    BY <1>1, <1>2, <1>3

LEMMA HooksOK ==
    /\ HandlerOK(hookHandler) /\ Truthful(hookHandler)
    /\ HandlerOK(httpActionHandler) /\ Truthful(httpActionHandler)
<1>1. defaultResponse \subseteq Final
    <2>1. \A c \in Codes : WriteHeader(c) \in Final
        BY StatusCodes, EndpointsAssumption
    <2>2. ({200, 302, 303} \cup serverRedirect \cup responseFile) \subseteq Final
        BY StatusCodes DEF serverRedirect, responseFile
    <2> QED
        BY <2>1, <2>2 DEF defaultResponse
<1>2. \A k \in ResultKinds : parseResult[k] \subseteq Final
    BY <1>1, StatusCodes DEF parseResult, ResultKinds
<1>3. \A type, user : LET h == Handler({}, type, user, AnyError(303), parseResult)
                      IN  HandlerOK(h) /\ Truthful(h)
    <2> SUFFICES ASSUME NEW type, NEW user, NEW h, h = Handler({}, type, user, AnyError(303), parseResult)
                 PROVE  HandlerOK(h) /\ Truthful(h)
        OBVIOUS
    <2>1. h.bad = {} /\ h.onResult = parseResult /\ \A k \in ErrorKinds : h.onError[k] = {303}
        BY DEF Handler, AnyError
    <2> QED
        BY <1>2, <2>1, StatusCodes DEF HandlerOK, Truthful
<1> QED
    BY <1>3 DEF hookHandler, httpActionHandler

LEMMA BaseOK ==
    /\ HandlerOK(checkUserHandler) /\ Fair(checkUserHandler)
    /\ Good(commonSettingsHandler)
    /\ Good(loginHandler)
    /\ Good(logoutHandler)
    /\ Good(registerHandler)
    /\ Good(resetPasswordHandler)
    /\ Good(sendResetLinkHandler)
<1> USE Codes3 DEF Good, HandlerOK, Truthful, Fair, Success, Refusals, CallResult, CallError,
                   Handler, AnyError, AnyResult, GoesOn, OnlyObject
<1>1. HandlerOK(checkUserHandler) /\ Fair(checkUserHandler)
    BY DEF checkUserHandler
<1>2. Good(commonSettingsHandler)
    BY DEF commonSettingsHandler
<1>3. Good(loginHandler)
    BY DEF loginHandler
<1>4. Good(logoutHandler)
    BY DEF logoutHandler
<1>5. Good(registerHandler)
    BY DEF registerHandler
<1>6. Good(resetPasswordHandler)
    BY DEF resetPasswordHandler
<1>7. Good(sendResetLinkHandler)
    BY DEF sendResetLinkHandler
<1> QED
    BY <1>1, <1>2, <1>3, <1>4, <1>5, <1>6, <1>7

LEMMA CallsOK ==
    /\ Good(actionHandler)
    /\ HandlerOK(checkUserWAMPHandler) /\ Fair(checkUserWAMPHandler)
    /\ Good(timeHandler)
    /\ Good(stateHandler)
    /\ Good(subUserHandler)
    /\ Good(subConfigHandler)
    /\ Good(workerSubStoresHandler)
<1> USE Codes3 DEF Good, HandlerOK, Truthful, Fair, Success, Refusals, CallResult, CallError,
                   Handler, AnyError, AnyResult, GoesOn, OnlyObject, Plain
<1>1. Good(actionHandler)
    BY DEF actionHandler
<1>2. HandlerOK(checkUserWAMPHandler) /\ Fair(checkUserWAMPHandler)
    BY DEF checkUserWAMPHandler
<1>3. Good(timeHandler)
    BY DEF timeHandler
<1>4. Good(stateHandler)
    BY DEF stateHandler
<1>5. Good(subUserHandler)
    BY DEF subUserHandler
<1>6. Good(subConfigHandler)
    BY DEF subConfigHandler
<1>7. Good(workerSubStoresHandler)
    BY DEF workerSubStoresHandler
<1> QED
    BY <1>1, <1>2, <1>3, <1>4, <1>5, <1>6, <1>7

LEMMA CommandsOK == \A type \in Commands : Good(rgxRPCHandler(type))
BY Codes3 DEF rgxRPCHandler, Handler, AnyError, AnyResult, Good, HandlerOK, Truthful, Fair,
              Success, Refusals, CallResult, CallError

LEMMA PlainRoutesOK ==
    /\ \A R \in SUBSET {101, 200, 307, CallResult} : HandlerOK(Plain(R)) /\ Truthful(Plain(R)) /\ Fair(Plain(R))
    /\ HandlerOK(assetsHandler) /\ Truthful(assetsHandler) /\ assetsHandler.type = "none"
BY Codes3 DEF Plain, Handler, AnyError, HandlerOK, Truthful, Fair, Success, Refusals,
              CallResult, assetsHandler
----
(* Every row of the table is sound. *)
LEMMA StoreRoutesOK == \A to \in DOMAIN StoreRoutes : RowOK(to, StoreRoutes[to])
<1>1. \A to \in DOMAIN createRESTAPIForStore : RowOK(to, createRESTAPIForStore[to])
    BY RestOK, RestActionOK, RowOfHandler DEF createRESTAPIForStore, jwtAuth, Good, Hiding, Blaming
<1>2. \A to \in DOMAIN restCreateWidgetLoadData : RowOK(to, restCreateWidgetLoadData[to])
    BY RestOK, RowOfHandler DEF restCreateWidgetLoadData, jwtAuth, Good, Hiding, Blaming
<1>3. \A to \in DOMAIN createFileHandlers : RowOK(to, createFileHandlers[to])
    BY FileHandlersOK, RowOfHandler DEF createFileHandlers, jwtAuth, Good, Hiding, Blaming
<1> QED
    BY <1>1, <1>2, <1>3, JoinOK DEF StoreRoutes

LEMMA BaseRoutesOK == \A to \in DOMAIN initBaseRoutes : RowOK(to, initBaseRoutes[to])
BY BaseOK, PlainRoutesOK, RowOfHandler DEF initBaseRoutes, Good, Hiding, Blaming

LEMMA CallRoutesOK == \A to \in DOMAIN Calls : RowOK(to, Calls[to])
<1>1. \A to \in DOMAIN wampInit : RowOK(to, wampInit[to])
    BY CallsOK, PlainRoutesOK, RowOfHandler DEF wampInit, Good, Hiding, Blaming
<1>2. \A to \in DOMAIN ComStores : RowOK(to, ComStores[to])
    BY CommandsOK, RowOfHandler DEF ComStores, Commands, Good, Hiding, Blaming
<1>3. RowOK("workerSubStores", For("any", workerSubStoresHandler))
    BY CallsOK, RowOfHandler DEF Good, Hiding, Blaming
<1> QED
    BY <1>1, <1>2, <1>3, JoinOK DEF Calls

LEMMA HookRoutesOK == \A to \in DOMAIN onConfigUpdate : RowOK(to, onConfigUpdate[to])
BY HooksOK, RowOfHandler DEF onConfigUpdate, jwtAuth, Hiding, Blaming

LEMMA TableOK == \A to \in Routes : RowOK(to, Route[to])
<1>1. \A to \in DOMAIN Join(StoreRoutes, onConfigUpdate) :
          RowOK(to, Join(StoreRoutes, onConfigUpdate)[to])
    BY StoreRoutesOK, HookRoutesOK, JoinOK
<1>2. \A to \in DOMAIN Join(initBaseRoutes, Calls) : RowOK(to, Join(initBaseRoutes, Calls)[to])
    BY BaseRoutesOK, CallRoutesOK, JoinOK
<1> QED
    BY <1>1, <1>2, JoinOK DEF Route, Routes

(* The rows the proofs below look into. *)
LEMMA SpecialRoutes ==
    /\ "none" \notin Routes
    /\ {"wamp", "logout", "com_user"} \subseteq Routes
    /\ Route["wamp"].access = "upgrade"
    /\ Route["logout"].access = "logout"
    /\ Route["com_user"] = For("open", subUserHandler)
<1>1. DOMAIN StoreRoutes \cap {"none", "wamp", "logout", "com_user"} = {}
    BY DEF StoreRoutes, Join, createRESTAPIForStore, restCreateWidgetLoadData, createFileHandlers
<1>2. DOMAIN onConfigUpdate \cap {"none", "wamp", "logout", "com_user"} = {}
    BY DEF onConfigUpdate
<1>3. /\ DOMAIN initBaseRoutes \cap {"none", "com_user"} = {}
      /\ {"wamp", "logout"} \subseteq DOMAIN initBaseRoutes
      /\ initBaseRoutes["wamp"].access = "upgrade"
      /\ initBaseRoutes["logout"].access = "logout"
    BY DEF initBaseRoutes, For
<1>4. /\ "none" \notin DOMAIN Calls /\ "com_user" \in DOMAIN Calls
      /\ Calls["com_user"] = For("open", subUserHandler)
    BY DEF Calls, Join, wampInit, ComStores, Commands
<1> QED
    BY <1>1, <1>2, <1>3, <1>4 DEF Routes, Route, Join

----
(* The inductive invariant. *)

Kinds    == {"timed", "untimed", "didSignOut"}
RequestT == [pc : Steps, to : Routes \cup {"none"}, key : Keys \cup {None, Bad},
             reply : Replies, late : BOOLEAN, stored : BOOLEAN]
OutcomeT == [Requests \X Kinds -> {"none", "pending", "answered", "timeout"}]

Typed ==
    /\ request \in [Requests -> RequestT]
    /\ result \in [Requests -> [failed : BOOLEAN, kind : Results]]
    /\ outcome \in OutcomeT

(* No task of the request was ever pushed. *)
Fresh(r) == /\ result[r] = [failed |-> FALSE, kind |-> "none"]
            /\ \A k \in Kinds : outcome[<<r, k>>] = "none"

(* How far a request has come and what has become of its task go together. *)
Progress(r) ==
    /\ request[r].pc = "new" => request[r] = NewRequest
    /\ request[r].pc # "new" => request[r].to \in Routes
    /\ request[r].pc = "replied" <=> request[r].reply # 0
    /\ request[r].pc \in {"new", "arrived", "handler"} \/ request[r].to = "wamp" => Fresh(r)
    /\ request[r].to = "wamp" => request[r].pc \in {"arrived", "replied"}
    /\ request[r].pc = "task" => outcome[Task(r)] # "none" /\ To(r).type # "none"
    /\ request[r].pc \in {"after", "delete"} => outcome[Task(r)] = "answered" /\ ~result[r].failed
    /\ request[r].pc = "replied" => outcome[Task(r)] # "pending"
    /\ result[r].kind # "none" <=> outcome[Task(r)] = "answered"
    /\ result[r].kind # "none" =>
           result[r].kind \in IF result[r].failed THEN ErrorKinds ELSE ResultKinds
    /\ result[r].kind = "none" => ~result[r].failed

(* A token of a session was given out; the session of a late request is over. *)
Holder(r) ==
    /\ request[r].key \in issued \cup {None, Bad}
    /\ request[r].late => request[r].key \in ended
    /\ request[r].to = "logout" /\ request[r].pc \in {"handler", "task", "after", "delete"}
           => request[r].key \in issued

LockedOut(r) ==
    request[r].late =>
        /\ Access(r) \in Checked => /\ request[r].pc \in {"arrived", "replied"}
                                    /\ request[r].reply \in {0, 401, 403, CallError}
        /\ request[r].to = "com_user" => request[r].reply # CallResult

RequestOK(r) == /\ Progress(r) /\ Holder(r) /\ LockedOut(r)
                /\ RefusedMeansUndone(r) /\ SuccessMeansDone(r)

(* A session that was logged out of is not valid, and never will be. *)
SessionsOK ==
    /\ valid \subseteq issued /\ issued \subseteq Keys
    /\ connected \subseteq issued /\ ended \subseteq issued
    /\ ended \cap valid = {}

Accepted(r) == result[r].kind # "none" /\ ~result[r].failed

(* The record is of the last change that a worker accepted, unless two ran at once. *)
FilesOK ==
    /\ {record, file} \subseteq Requests \cup {None}
    /\ overlapped \subseteq Requests
    /\ \A r \in Requests : request[r].stored => request[r].pc = "replied"
    /\ \A f \in {record, file} \ {None} : request[f].to = "postFile" /\ Accepted(f)
    /\ \A f, g \in Changing : f # g => f \in overlapped
    /\ \A f \in Changing : Accepted(f) /\ record \notin {None, f} => record \in overlapped
    /\ MixedOnlyIfOverlapped

IInv == Typed /\ (\A r \in Requests : RequestOK(r)) /\ SessionsOK /\ FilesOK

LEMMA InvImplies ==
    IInv => TypeOK /\ LoggedOutIsLockedOut /\ ReplyTellsOutcome /\ FileHasRecord /\ MixedOnlyIfOverlapped
<1> SUFFICES ASSUME IInv PROVE TypeOK /\ LoggedOutIsLockedOut /\ ReplyTellsOutcome /\ FileHasRecord
    BY DEF IInv, FilesOK
<1>1. TypeOK
    <2>1. ASSUME NEW r \in Requests
          PROVE  /\ request[r].pc = "new" <=> request[r].to = "none"
                 /\ request[r].pc = "replied" <=> request[r].reply # 0
                 /\ request[r].pc \in {"new", "arrived", "handler"} => outcome[Task(r)] = "none"
                 /\ request[r].pc \in {"task", "after", "delete"} => outcome[Task(r)] # "none"
                 /\ result[r].kind # "none" <=> outcome[Task(r)] = "answered"
        <3>1. Progress(r)
            BY DEF IInv, RequestOK
        <3>2. Fresh(r) => outcome[Task(r)] = "none"
            BY DEF Fresh, Task, Kinds
        <3>3. request[r].pc = "new" <=> request[r].to = "none"
            BY <3>1, SpecialRoutes DEF Progress, NewRequest
        <3> QED
            BY <3>1, <3>2, <3>3 DEF Progress
    <2> QED
        BY <2>1 DEF IInv, TypeOK, Typed, RequestT, SessionsOK, FilesOK
<1>2. LoggedOutIsLockedOut
    BY DEF IInv, RequestOK, LockedOut, LoggedOutIsLockedOut
<1>3. ReplyTellsOutcome
    BY DEF IInv, RequestOK, ReplyTellsOutcome
<1>4. FileHasRecord
    BY DEF IInv, FilesOK, FileHasRecord, Accepted
<1> QED
    BY <1>1, <1>2, <1>3, <1>4

LEMMA InitEstablishes == Init => IInv
<1> SUFFICES ASSUME Init PROVE IInv
    OBVIOUS
<1>1. Typed
    BY DEF Init, Typed, RequestT, OutcomeT, NewRequest, Steps, Replies, Results, Queue!Init, Kinds
<1>2. \A r \in Requests : RequestOK(r)
    BY <1>1, SpecialRoutes DEF Init, RequestOK, Progress, Fresh, Holder, LockedOut, RefusedMeansUndone,
       SuccessMeansDone, NewRequest, Task, Queue!Init, Kinds, CallResult, CallError
<1>3. SessionsOK /\ FilesOK
    BY DEF Init, SessionsOK, FilesOK, Store!Init, NewRequest, Changing, MixedOnlyIfOverlapped, FileChanges
<1> QED
    BY <1>1, <1>2, <1>3 DEF IInv
----
(* Most steps move one request on and leave its route, its token and the files alone. *)

Moved(r, pc, reply) ==
    /\ request' \in [Requests -> RequestT]
    /\ \A s \in Requests \ {r} : request'[s] = request[s]
    /\ request'[r].to = request[r].to /\ request'[r].key = request[r].key
    /\ request'[r].late = request[r].late
    /\ request'[r].pc = pc /\ request'[r].reply = reply

(* Where a request may move to. *)
Lawful(r, pc, reply) ==
    /\ request[r].pc \notin {"new", "replied"}
    /\ pc \in {"handler", "after", "delete", "replied"}
    /\ pc = "replied" <=> reply # 0
    /\ pc = "handler" => request[r].pc = "arrived"
    /\ pc # "replied" => request[r].to # "wamp"
    /\ pc # "replied" /\ request[r].to = "logout" => request[r].key \in issued
    /\ pc \in {"after", "delete"} => outcome[Task(r)] = "answered" /\ ~result[r].failed
    /\ pc = "replied" => outcome[Task(r)] # "pending"
    /\ reply \in Refusals /\ request[r].to \notin Blaming =>
           result[r].failed \/ result[r].kind = "none"
    /\ reply \in Success /\ request[r].to \notin Hiding => ~result[r].failed
    /\ request[r].late => /\ Access(r) \in Checked => reply \in {401, 403, CallError}
                          /\ request[r].to = "com_user" => reply # CallResult

(* Its task is left alone; a request that is about to delete its session may push
   didSignOut. *)
TasksKept(r) ==
    /\ result' = result /\ outcome' \in OutcomeT
    /\ \A s \in Requests, k \in Kinds :
           (s = r /\ k = "didSignOut" /\ request[r].pc = "delete") \/ outcome'[<<s, k>>] = outcome[<<s, k>>]

LEMMA OthersKept ==
    ASSUME IInv, NEW s \in Requests, request'[s] = request[s], result'[s] = result[s],
           \A k \in Kinds : outcome'[<<s, k>>] = outcome[<<s, k>>],
           issued \subseteq issued', ended \subseteq ended'
    PROVE  RequestOK(s)'
BY DEF IInv, RequestOK, Progress, Fresh, Holder, LockedOut, RefusedMeansUndone, SuccessMeansDone,
       Task, Kinds, To, Access

LEMMA MoveKeeps ==
    ASSUME IInv, NEW r \in Requests, NEW pc, NEW reply, Moved(r, pc, reply), Lawful(r, pc, reply),
           TasksKept(r), issued \subseteq issued', ended \subseteq ended'
    PROVE  Typed' /\ \A s \in Requests : RequestOK(s)'
<1>1. Typed'
    BY DEF IInv, Typed, Moved, TasksKept
<1>2. ASSUME NEW s \in Requests, s # r PROVE RequestOK(s)'
    BY <1>2, OthersKept DEF Moved, TasksKept
<1>3. outcome'[Task(r)'] = outcome[Task(r)] /\ Task(r)' = Task(r)
    BY DEF Task, Kinds, TasksKept, Moved
<1>4. Fresh(r) /\ request[r].pc # "delete" => Fresh(r)'
    BY DEF Fresh, TasksKept
<1>5. Progress(r)
    BY DEF IInv, RequestOK
<1>6. Progress(r)'
    BY <1>3, <1>4, <1>5 DEF Progress, Moved, Lawful, TasksKept, To
<1>7. Holder(r)' /\ LockedOut(r)' /\ RefusedMeansUndone(r)' /\ SuccessMeansDone(r)'
    BY DEF IInv, RequestOK, Holder, LockedOut, RefusedMeansUndone, SuccessMeansDone, Moved, Lawful,
           TasksKept, Access, To, Refusals, Success, Blaming, Hiding, CallResult, CallError
<1> QED
    BY <1>1, <1>2, <1>6, <1>7 DEF RequestOK

LEMMA FilesKept ==
    ASSUME IInv, NEW r \in Requests, NEW pc, NEW reply, Moved(r, pc, reply), Lawful(r, pc, reply),
           request'[r].stored = request[r].stored, result' = result, UNCHANGED fileVars
    PROVE  FilesOK'
<1>1. Changing' \subseteq Changing
    BY DEF Changing, Moved, Lawful
<1>2. \A s \in Requests : /\ request'[s].to = request[s].to /\ request'[s].stored = request[s].stored
                          /\ request[s].pc = "replied" => request'[s].pc = "replied"
    BY DEF Moved, Lawful
<1>3. {record, file} \subseteq Requests \cup {None}
    BY DEF IInv, FilesOK
<1>4. \A s \in Requests : Accepted(s)' = Accepted(s)
    BY DEF Accepted
<1>5. MixedOnlyIfOverlapped'
    BY <1>2, <1>3 DEF IInv, FilesOK, MixedOnlyIfOverlapped, fileVars, Lawful, Moved
<1> QED
    <2>1. /\ {record', file'} \subseteq Requests \cup {None} /\ overlapped' \subseteq Requests
          /\ \A f \in {record', file'} \ {None} : request'[f].to = "postFile" /\ Accepted(f)'
        BY <1>2, <1>3, <1>4 DEF IInv, FilesOK, fileVars
    <2>2. \A s \in Requests : request'[s].stored => request'[s].pc = "replied"
        BY <1>2 DEF IInv, FilesOK
    <2>3. /\ \A f, g \in Changing' : f # g => f \in overlapped'
          /\ \A f \in Changing' : Accepted(f)' /\ record' \notin {None, f} => record' \in overlapped'
        <3>1. Changing \subseteq Requests
            BY DEF Changing
        <3> QED
            BY <1>1, <1>4, <3>1 DEF IInv, FilesOK, fileVars
    <2> QED
        BY <2>1, <2>2, <2>3, <1>5 DEF FilesOK

LEMMA ReplyKeeps ==
    ASSUME IInv, NEW r \in Requests, NEW reply \in Replies,
           request' = [request EXCEPT ![r].pc = "replied", ![r].reply = reply],
           Lawful(r, "replied", reply), TasksKept(r), UNCHANGED fileVars,
           issued \subseteq issued', ended \subseteq ended', SessionsOK'
    PROVE  IInv'
<1>1. Moved(r, "replied", reply) /\ request'[r].stored = request[r].stored
    <2> DEFINE replied == [request[r] EXCEPT !.pc = "replied", !.reply = reply]
    <2>1. request \in [Requests -> RequestT] /\ request[r] \in RequestT /\ "replied" \in Steps
        BY DEF IInv, Typed, Steps
    <2>2. /\ replied \in RequestT /\ replied.pc = "replied" /\ replied.reply = reply
          /\ replied.to = request[r].to /\ replied.key = request[r].key
          /\ replied.late = request[r].late /\ replied.stored = request[r].stored
        BY <2>1 DEF RequestT
    <2>3. request' = [request EXCEPT ![r] = replied]
        OBVIOUS
    <2> HIDE DEF replied
    <2> QED
        BY <2>1, <2>2, <2>3 DEF Moved
<1>2. result' = result
    BY DEF TasksKept
<1> QED
    BY <1>1, <1>2, MoveKeeps, FilesKept DEF IInv

LEMMA GotoKeeps ==
    ASSUME IInv, NEW r \in Requests, NEW pc, Goto(r, pc), Lawful(r, pc, 0), TasksKept(r),
           UNCHANGED fileVars, issued \subseteq issued', ended \subseteq ended', SessionsOK'
    PROVE  IInv'
<1>1. pc # "replied" /\ pc \in Steps
    BY DEF Lawful, Steps
<1>2. request[r].reply = 0
    BY DEF IInv, RequestOK, Progress, Lawful
<1>3. Moved(r, pc, 0) /\ request'[r].stored = request[r].stored
    BY <1>1, <1>2 DEF IInv, Typed, RequestT, Moved, Goto
<1>4. result' = result
    BY DEF TasksKept
<1> QED
    BY <1>3, <1>4, MoveKeeps, FilesKept DEF IInv

(* The sessions and the queue as they were. *)
LEMMA SilentKeeps ==
    ASSUME IInv, NEW r \in Requests, Silent
    PROVE  /\ TasksKept(r) /\ UNCHANGED fileVars
           /\ UNCHANGED sessionVars => /\ issued \subseteq issued' /\ ended \subseteq ended'
                                       /\ SessionsOK'
BY DEF Silent, TasksKept, IInv, Typed, SessionsOK, sessionVars, queueVars

(* A late token is that of a session that is over. *)
LEMMA LateIsDead ==
    ASSUME IInv, NEW r \in Requests, request[r].late
    PROVE  request[r].key \in ended /\ ~Live(r) /\ request[r].key \notin {None, Bad}
BY InternetAssumption DEF IInv, RequestOK, Holder, SessionsOK, Live

(* A request that has arrived has not asked anything of a worker. *)
LEMMA ArrivedIsFresh ==
    ASSUME IInv, NEW r \in Requests, request[r].pc \in {"arrived", "handler"}
    PROVE  /\ request[r].to \in Routes /\ request[r].reply = 0 /\ Fresh(r)
           /\ result[r].kind = "none" /\ ~result[r].failed /\ outcome[Task(r)] = "none"
           /\ request[r].key \in issued \cup {None, Bad}
<1>1. Progress(r) /\ Holder(r)
    BY DEF IInv, RequestOK
<1> QED
    BY <1>1 DEF Progress, Holder, Fresh, Task, Kinds
----
(* Who is let through to the handler. *)

(* What lets a request in, or refuses it, has the right to. *)
LEMMA EnterIsLawful ==
    ASSUME IInv, NEW r \in Requests, request[r].pc = "arrived", Access(r) \notin {"upgrade", "logout"},
           request[r].late => Access(r) \notin Checked
    PROVE  Lawful(r, "handler", 0)
BY ArrivedIsFresh, SpecialRoutes DEF Lawful, Access, To, Refusals, Success, CallResult

LEMMA RefusalIsLawful ==
    ASSUME IInv, NEW r \in Requests, NEW reply \in {101, 200, 401, 403, CallResult, CallError},
           request[r].pc = "arrived",
           request[r].late /\ Access(r) \in Checked => reply \in {401, 403, CallError},
           reply = CallResult => request[r].to # "com_user"
    PROVE  Lawful(r, "replied", reply) /\ reply \in Replies
BY ArrivedIsFresh, SpecialRoutes DEF Lawful, Replies, Refusals, Success, CallResult, CallError

LEMMA AdmitKeeps == ASSUME IInv, NEW r \in Requests, Admit(r) PROVE IInv'
<1>1. CASE Enter(r)
    <2>1. Lawful(r, "handler", 0)
        BY <1>1, EnterIsLawful DEF Enter, Checked
    <2> QED
        BY <1>1, <2>1, GotoKeeps, SilentKeeps DEF Enter
<1>2. CASE jwtAuthMiddleware(r)
    <2>1. CASE Goto(r, "handler") /\ (request[r].late => Live(r))
        <3>1. Lawful(r, "handler", 0)
            BY <1>2, <2>1, EnterIsLawful, LateIsDead DEF jwtAuthMiddleware
        <3> QED
            BY <1>2, <2>1, <3>1, GotoKeeps, SilentKeeps DEF jwtAuthMiddleware
    <2>2. ASSUME NEW reply \in {401, 403},
                 request' = [request EXCEPT ![r].pc = "replied", ![r].reply = reply]
          PROVE  IInv'
        <3>1. Lawful(r, "replied", reply) /\ reply \in Replies
            BY <1>2, <2>2, RefusalIsLawful DEF jwtAuthMiddleware, CallResult
        <3>2. UNCHANGED sessionVars /\ Silent
            BY <1>2 DEF jwtAuthMiddleware
        <3> QED
            BY <2>2, <3>1, <3>2, ReplyKeeps, SilentKeeps
    <2> QED
        BY <1>2, <2>1, <2>2, LateIsDead DEF jwtAuthMiddleware, Reply
<1>3. CASE CheckCall(r)
    <2>1. CASE Live(r)
        <3>1. Lawful(r, "handler", 0)
            BY <1>3, <2>1, EnterIsLawful, LateIsDead DEF CheckCall
        <3> QED
            BY <1>3, <2>1, <3>1, GotoKeeps, SilentKeeps DEF CheckCall
    <2>2. CASE ~Live(r)
        <3>1. Lawful(r, "replied", CallError) /\ CallError \in Replies
            BY <1>3, RefusalIsLawful DEF CheckCall, CallResult, CallError
        <3> QED
            BY <1>3, <2>2, <3>1, ReplyKeeps, SilentKeeps DEF CheckCall, Reply
    <2> QED
        BY <2>1, <2>2
<1>4. CASE wampHandler(r)
    <2>1. request[r].pc = "arrived" /\ Access(r) = "upgrade" /\ request[r].to # "com_user"
        BY <1>4, SpecialRoutes DEF wampHandler, Access, To, For
    <2>2. issued \subseteq issued' /\ ended \subseteq ended' /\ SessionsOK'
        BY <1>4 DEF wampHandler, IInv, SessionsOK, Live
    <2>3. PICK reply \in {101, 403} :
              /\ request' = [request EXCEPT ![r].pc = "replied", ![r].reply = reply]
              /\ request[r].late => reply = 403
        BY <1>4, LateIsDead DEF wampHandler, Reply
    <2>4. Lawful(r, "replied", reply) /\ reply \in Replies
        BY <2>1, <2>3, RefusalIsLawful DEF CallResult
    <2>5. Silent
        BY <1>4 DEF wampHandler
    <2> QED
        BY <2>2, <2>3, <2>4, <2>5, ReplyKeeps, SilentKeeps
<1>5. CASE checkJWTHandler(r)
    <2>1. request[r].pc = "arrived"
        BY <1>5 DEF checkJWTHandler
    <2>2. PICK reply \in {200, 403} :
              /\ request' = [request EXCEPT ![r].pc = "replied", ![r].reply = reply]
              /\ request[r].late => reply = 403
        <3>1. CASE Live(r)
            BY <1>5, <3>1, LateIsDead DEF checkJWTHandler, Reply
        <3>2. CASE ~Live(r)
            BY <1>5, <3>2 DEF checkJWTHandler, Reply
        <3> QED
            BY <3>1, <3>2
    <2>3. Lawful(r, "replied", reply) /\ reply \in Replies
        BY <2>1, <2>2, RefusalIsLawful DEF CallResult
    <2>4. UNCHANGED sessionVars /\ Silent
        BY <1>5 DEF checkJWTHandler
    <2> QED
        BY <2>2, <2>3, <2>4, ReplyKeeps, SilentKeeps
<1>6. CASE subStoresHandler(r)
    <2>1. request[r].pc = "arrived" /\ request[r].to # "com_user"
        BY <1>6, SpecialRoutes DEF subStoresHandler, Access, To, For
    <2>2. PICK reply \in {CallResult, CallError} :
              /\ request' = [request EXCEPT ![r].pc = "replied", ![r].reply = reply]
              /\ request[r].late => reply = CallError
        BY <1>6, LateIsDead DEF subStoresHandler, Reply
    <2>3. Lawful(r, "replied", reply) /\ reply \in Replies
        BY <2>1, <2>2, RefusalIsLawful
    <2> QED
        BY <1>6, <2>2, <2>3, ReplyKeeps, SilentKeeps DEF subStoresHandler
<1>7. CASE StartLogout(r)
    <2>1. CASE request[r].key \in {None, Bad}
        <3>1. Lawful(r, "replied", 200) /\ 200 \in Replies
            BY <1>7, RefusalIsLawful DEF StartLogout, Checked, CallResult
        <3> QED
            BY <1>7, <2>1, <3>1, ReplyKeeps, SilentKeeps DEF StartLogout, Reply
    <2>2. CASE request[r].key \notin {None, Bad}
        <3>1. Lawful(r, "handler", 0)
            BY <1>7, <2>2, ArrivedIsFresh, SpecialRoutes
               DEF StartLogout, Lawful, Access, To, Refusals, Success, CallResult, Checked
        <3> QED
            BY <1>7, <2>2, <3>1, GotoKeeps, SilentKeeps DEF StartLogout
    <2> QED
        BY <2>1, <2>2
<1> QED
    BY <1>1, <1>2, <1>3, <1>4, <1>5, <1>6, <1>7 DEF Admit
----
(* The handler, its task and the reply. *)

(* The row of a request; com.user's never answers with success by itself. *)
LEMMA RowOfRequest ==
    ASSUME IInv, NEW r \in Requests, request[r].pc # "new"
    PROVE  /\ RowOK(request[r].to, To(r))
           /\ request[r].to = "com_user" =>
                  /\ To(r).bad = {} /\ To(r).type # "none"
                  /\ \A k \in ErrorKinds : CallResult \notin To(r).onError[k]
                  /\ \A k \in ResultKinds : To(r).onResult[k] = {}
<1>1. request[r].to \in Routes
    BY DEF IInv, RequestOK, Progress
<1>2. /\ subUserHandler.bad = {} /\ subUserHandler.type = "DbGet"
      /\ subUserHandler.onError = AnyError(CallError) /\ subUserHandler.onResult = GoesOn
    BY DEF subUserHandler, Handler
<1> QED
    BY <1>1, <1>2, TableOK, SpecialRoutes DEF To, For, AnyError, GoesOn, CallResult, CallError

LEMMA PastTheDoor ==
    ASSUME IInv, NEW r \in Requests, request[r].late, request[r].pc \notin {"arrived", "replied"}
    PROVE  Access(r) \notin Checked
BY DEF IInv, RequestOK, LockedOut

LEMMA RefuseKeeps == ASSUME IInv, NEW r \in Requests, Refuse(r) PROVE IInv'
<1>1. request[r].pc = "handler" /\ UNCHANGED sessionVars /\ Silent
    BY DEF Refuse
<1>2. PICK reply \in To(r).bad :
          request' = [request EXCEPT ![r].pc = "replied", ![r].reply = reply]
    BY DEF Refuse, Reply
<1>3. reply \in Final
    BY <1>1, <1>2, RowOfRequest DEF RowOK, HandlerOK
<1>4. Lawful(r, "replied", reply)
    BY <1>1, <1>2, <1>3, RowOfRequest, PastTheDoor, ArrivedIsFresh DEF Lawful, Final
<1> QED
    BY <1>1, <1>2, <1>3, <1>4, ReplyKeeps, SilentKeeps DEF Final

LEMMA AnswerKeeps == ASSUME IInv, NEW r \in Requests, Answer(r) PROVE IInv'
<1>1. request[r].pc = "handler" /\ To(r).type = "none" /\ UNCHANGED sessionVars /\ Silent
    BY DEF Answer
<1>2. PICK reply \in To(r).onResult["nil"] :
          request' = [request EXCEPT ![r].pc = "replied", ![r].reply = reply]
    BY DEF Answer, Reply
<1>3. reply \in Final
    BY <1>1, <1>2, RowOfRequest DEF RowOK, HandlerOK, ResultKinds
<1>4. Lawful(r, "replied", reply)
    BY <1>1, <1>2, <1>3, RowOfRequest, PastTheDoor, ArrivedIsFresh DEF Lawful, Final
<1> QED
    BY <1>1, <1>2, <1>3, <1>4, ReplyKeeps, SilentKeeps DEF Final

LEMMA RespondKeeps == ASSUME IInv, NEW r \in Requests, Respond(r) PROVE IInv'
<1> DEFINE replies == IF result[r].failed THEN To(r).onError[result[r].kind]
                                          ELSE To(r).onResult[result[r].kind]
<1>1. /\ request[r].pc = "task" /\ outcome[Task(r)] = "answered"
      /\ UNCHANGED sessionVars /\ Silent
    BY DEF Respond
<1>2. Progress(r) /\ Holder(r) /\ RowOK(request[r].to, To(r)) /\ To(r).type # "none"
    BY <1>1, RowOfRequest DEF IInv, RequestOK, Progress
<1>3. result[r].kind \in IF result[r].failed THEN ErrorKinds ELSE ResultKinds
    BY <1>1, <1>2 DEF Progress
<1>4. CASE replies = {}
    <2>1. Goto(r, "after")
        BY <1>4 DEF Respond
    <2>2. ~result[r].failed
        BY <1>2, <1>3, <1>4 DEF RowOK, HandlerOK
    <2>3. Lawful(r, "after", 0)
        BY <1>1, <1>2, <2>2, PastTheDoor DEF Lawful, Progress, Holder, Refusals, Success, CallResult
    <2> QED
        BY <1>1, <2>1, <2>3, GotoKeeps, SilentKeeps
<1>5. CASE replies # {}
    <2>1. PICK reply \in replies :
              request' = [request EXCEPT ![r].pc = "replied", ![r].reply = reply]
        BY <1>5 DEF Respond, Reply
    <2>2. reply \in Final
        BY <1>2, <1>3, <2>1 DEF RowOK, HandlerOK
    <2>3. /\ reply \in Refusals /\ request[r].to \notin Blaming => result[r].failed
          /\ reply \in Success /\ request[r].to \notin Hiding => ~result[r].failed
        BY <1>2, <1>3, <2>1 DEF RowOK, Fair, Truthful
    <2>4. request[r].to = "com_user" => reply # CallResult
        BY <1>1, <1>3, <2>1, RowOfRequest
    <2>5. Lawful(r, "replied", reply)
        BY <1>1, <2>2, <2>3, <2>4, PastTheDoor DEF Lawful, Final
    <2> QED
        BY <1>1, <2>1, <2>2, <2>5, ReplyKeeps, SilentKeeps DEF Final
<1> QED
    BY <1>4, <1>5

LEMMA TimeoutKeeps == ASSUME IInv, NEW r \in Requests, RespondToTimeout(r) PROVE IInv'
<1>1. /\ request[r].pc = "task" /\ outcome[Task(r)] = "timeout"
      /\ request' = [request EXCEPT ![r].pc = "replied", ![r].reply = 500]
      /\ UNCHANGED sessionVars /\ Silent
    BY DEF RespondToTimeout, Reply
<1>2. Lawful(r, "replied", 500) /\ 500 \in Replies
    BY <1>1, PastTheDoor DEF Lawful, Replies, Refusals, Success, CallResult
<1>3. /\ TasksKept(r) /\ UNCHANGED fileVars
      /\ issued \subseteq issued' /\ ended \subseteq ended' /\ SessionsOK'
    BY <1>1, SilentKeeps
<1> QED
    BY <1>1, <1>2, <1>3, ReplyKeeps

(* What comes after the task: the worker has answered, and not with an error. *)
LEMMA AfterIsLawful ==
    ASSUME IInv, NEW r \in Requests, NEW reply \in {200, 307, 500, CallResult, CallError},
           request[r].pc \in {"after", "delete"},
           reply = CallResult /\ request[r].to = "com_user" => ~request[r].late
    PROVE  Lawful(r, "replied", reply) /\ reply \in Replies
<1>1. Progress(r)
    BY DEF IInv, RequestOK
<1> QED
    BY <1>1, PastTheDoor DEF Progress, Lawful, Replies, Refusals, Success, CallResult, CallError

LEMMA NewSessionKeeps == ASSUME IInv, NEW r \in Requests, NEW k \in Keys, NewSession(r, k) PROVE IInv'
<1>1. request[r].pc = "after" /\ Silent
    BY DEF NewSession, After
<1>2. PICK reply \in {200, 500} :
          request' = [request EXCEPT ![r].pc = "replied", ![r].reply = reply]
    BY DEF NewSession, Reply
<1>3. Lawful(r, "replied", reply) /\ reply \in Replies
    BY <1>1, <1>2, AfterIsLawful DEF CallResult
<1>4. issued \subseteq issued' /\ ended \subseteq ended' /\ SessionsOK'
    BY DEF NewSession, Store!Create, IInv, SessionsOK
<1> QED
    BY <1>1, <1>2, <1>3, <1>4, ReplyKeeps, SilentKeeps

LEMMA AddUserSubscriptionKeeps ==
    ASSUME IInv, NEW r \in Requests, AddUserSubscription(r) PROVE IInv'
<1>1. request[r].pc = "after" /\ UNCHANGED sessionVars /\ Silent
    BY DEF AddUserSubscription, After
<1>2. PICK reply \in {CallResult, CallError} :
          /\ request' = [request EXCEPT ![r].pc = "replied", ![r].reply = reply]
          /\ request[r].late => reply = CallError
    BY LateIsDead DEF AddUserSubscription, Reply
<1>3. Lawful(r, "replied", reply) /\ reply \in Replies
    BY <1>1, <1>2, AfterIsLawful DEF CallResult, CallError
<1> QED
    BY <1>1, <1>2, <1>3, ReplyKeeps, SilentKeeps

LEMMA CheckSessionKeeps == ASSUME IInv, NEW r \in Requests, CheckSession(r) PROVE IInv'
<1>1. request[r].pc = "after" /\ request[r].to = "logout" /\ Silent /\ Progress(r) /\ Holder(r)
    BY DEF CheckSession, After, IInv, RequestOK
<1>2. issued \subseteq issued' /\ ended \subseteq ended' /\ SessionsOK'
    BY <1>1 DEF CheckSession, IInv, SessionsOK, Holder, Live
<1>3. CASE Goto(r, "delete")
    <2>1. Lawful(r, "delete", 0)
        BY <1>1, PastTheDoor DEF Lawful, Progress, Holder, Refusals, Success, CallResult
    <2> QED
        BY <1>1, <1>2, <1>3, <2>1, GotoKeeps, SilentKeeps
<1>4. CASE Reply(r, {200})
    <2>1. request' = [request EXCEPT ![r].pc = "replied", ![r].reply = 200]
        BY <1>4 DEF Reply
    <2>2. Lawful(r, "replied", 200) /\ 200 \in Replies
        BY <1>1, AfterIsLawful DEF CallResult
    <2> QED
        BY <1>1, <1>2, <2>1, <2>2, ReplyKeeps, SilentKeeps
<1> QED
    BY <1>3, <1>4 DEF CheckSession

LEMMA DeleteSessionKeeps == ASSUME IInv, NEW r \in Requests, DeleteSession(r) PROVE IInv'
<1>1. request[r].pc = "delete" /\ UNCHANGED fileVars /\ result' = result
    BY DEF DeleteSession
<1>2. PICK reply \in {200, 307, 500} :
          request' = [request EXCEPT ![r].pc = "replied", ![r].reply = reply]
    BY DEF DeleteSession, Reply
<1>3. Lawful(r, "replied", reply) /\ reply \in Replies
    BY <1>1, <1>2, AfterIsLawful DEF CallResult
<1>4. issued \subseteq issued' /\ ended \subseteq ended' /\ SessionsOK'
    BY DEF DeleteSession, Store!End, IInv, SessionsOK
<1>5. TasksKept(r)
    <2>1. CASE UNCHANGED queueVars
        BY <1>1, <2>1 DEF TasksKept, queueVars, IInv, Typed
    <2>2. CASE Queue!Submit(DidSignOut(r))
        BY <1>1, <2>2 DEF TasksKept, Queue!Submit, DidSignOut, IInv, Typed, OutcomeT, Kinds
    <2> QED
        BY <2>1, <2>2 DEF DeleteSession
<1> QED
    BY <1>1, <1>2, <1>3, <1>4, <1>5, ReplyKeeps

LEMMA FetchFileKeeps == ASSUME IInv, NEW r \in Requests, FetchFile(r) PROVE IInv'
<1>1. request[r].pc = "after" /\ UNCHANGED sessionVars /\ Silent
    BY DEF FetchFile, After
<1>2. PICK reply \in {200, 500} :
          request' = [request EXCEPT ![r].pc = "replied", ![r].reply = reply]
    BY DEF FetchFile, Reply
<1>3. Lawful(r, "replied", reply) /\ reply \in Replies
    BY <1>1, <1>2, AfterIsLawful DEF CallResult
<1> QED
    BY <1>1, <1>2, <1>3, ReplyKeeps, SilentKeeps

LEMMA UploadMoves ==
    ASSUME IInv, NEW r \in Requests, NEW reply \in Replies,
           \/ request' = [request EXCEPT ![r].pc = "replied", ![r].reply = reply, ![r].stored = TRUE]
           \/ request' = [request EXCEPT ![r].pc = "replied", ![r].reply = reply, ![r].stored = FALSE]
    PROVE  Moved(r, "replied", reply)
<1>1. request \in [Requests -> RequestT] /\ "replied" \in Steps
    BY DEF IInv, Typed, Steps
<1>2. request' \in [Requests -> RequestT]
    BY <1>1 DEF RequestT
<1>3. /\ request'[r].to = request[r].to /\ request'[r].key = request[r].key
      /\ request'[r].late = request[r].late /\ request'[r].pc = "replied"
      /\ request'[r].reply = reply
    BY <1>1 DEF RequestT
<1>4. \A s \in Requests \ {r} : request'[s] = request[s]
    BY <1>1
<1> QED
    BY <1>2, <1>3, <1>4 DEF Moved

(* The content of a file becomes that of r: if the record is of another upload, that one
   has run next to r. *)
LEMMA UploadKeeps == ASSUME IInv, NEW r \in Requests, Upload(r) PROVE IInv'
<1>1. /\ request[r].pc = "after" /\ request[r].to = "postFile" /\ Progress(r)
      /\ UNCHANGED <<result, sessionVars, record, overlapped, queueVars>>
    BY DEF Upload, After, IInv, RequestOK
<1>p. PICK stored \in BOOLEAN, reply \in {200, 500} :
          /\ request' = [request EXCEPT ![r].pc = "replied", ![r].reply = reply, ![r].stored = stored]
          /\ file' = IF stored THEN r ELSE file
    BY DEF Upload
<1>2. \/ /\ request' = [request EXCEPT ![r].pc = "replied", ![r].reply = reply, ![r].stored = TRUE]
         /\ file' = r
      \/ /\ request' = [request EXCEPT ![r].pc = "replied", ![r].reply = reply, ![r].stored = FALSE]
         /\ file' = file
    <2>1. CASE stored = TRUE
        BY <1>p, <2>1
    <2>2. CASE stored = FALSE
        BY <1>p, <2>2
    <2> QED
        BY <2>1, <2>2
<1>3. Lawful(r, "replied", reply) /\ reply \in Replies
    BY <1>1, <1>2, AfterIsLawful DEF CallResult
<1>4. Moved(r, "replied", reply)
    BY <1>2, <1>3, UploadMoves
<1>5. TasksKept(r) /\ issued \subseteq issued' /\ ended \subseteq ended' /\ SessionsOK'
    BY <1>1 DEF TasksKept, IInv, Typed, SessionsOK, sessionVars, queueVars
<1>6. Typed' /\ \A s \in Requests : RequestOK(s)'
    BY <1>3, <1>4, <1>5, MoveKeeps
<1>7. Accepted(r) /\ r \in Changing /\ Changing' \subseteq Changing /\ Changing \subseteq Requests
    BY <1>1, <1>4 DEF Progress, Accepted, Changing, FileChanges, Moved
<1>8. \A s \in Requests : Accepted(s)' = Accepted(s) /\ request'[s].to = request[s].to
    BY <1>1, <1>4 DEF Accepted, Moved
<1>9. FilesOK'
    <2>1. /\ {record', file'} \subseteq Requests \cup {None} /\ overlapped' \subseteq Requests
          /\ \A f \in {record', file'} \ {None} : request'[f].to = "postFile" /\ Accepted(f)'
        <3>1. file' \in {file, r} /\ record' = record
            BY <1>1, <1>2
        <3> QED
            BY <1>1, <1>7, <1>8, <3>1 DEF IInv, FilesOK
    <2>2. \A s \in Requests : request'[s].stored => request'[s].pc = "replied"
        BY <1>4 DEF IInv, FilesOK, Moved, Lawful
    <2>3. /\ \A f, g \in Changing' : f # g => f \in overlapped'
          /\ \A f \in Changing' : Accepted(f)' /\ record' \notin {None, f} => record' \in overlapped'
        BY <1>1, <1>7, <1>8 DEF IInv, FilesOK
    <2>4. MixedOnlyIfOverlapped'
        <3>1. record \notin {None, r} => record \in overlapped
            BY <1>7 DEF IInv, FilesOK
        <3>2. CASE file' = r
            BY <1>1, <3>1, <3>2 DEF MixedOnlyIfOverlapped
        <3>3. CASE file' = file /\ ~request'[r].stored
            <4>1. file' = file
                BY <3>3
            <4>2. record \in Requests /\ record # r => request'[record] = request[record]
                BY <1>4 DEF Moved
            <4> QED
                BY <1>1, <1>4, <3>3, <4>1, <4>2 DEF IInv, FilesOK, MixedOnlyIfOverlapped
        <3> QED
            BY <1>2, <3>2, <3>3 DEF IInv, Typed, RequestT
    <2> QED
        BY <2>1, <2>2, <2>3, <2>4 DEF FilesOK
<1> QED
    BY <1>5, <1>6, <1>9 DEF IInv

LEMMA PushKeeps == ASSUME IInv, NEW r \in Requests, Push(r) PROVE IInv'
<1>1. /\ request[r].pc = "handler" /\ To(r).type # "none"
      /\ request' = [request EXCEPT ![r].pc = "task"]
      /\ UNCHANGED <<result, sessionVars, fileVars>>
    BY DEF Push, Goto
<1>2. /\ outcome' = [outcome EXCEPT ![Task(r)] = "pending"]
      /\ Task(r) \in Requests \X Kinds /\ Task(r)[1] = r
    BY DEF Push, Queue!Submit, Task, Kinds
<1>3. Typed'
    <2> DEFINE pushed == [request[r] EXCEPT !.pc = "task"]
    <2>1. /\ request \in [Requests -> RequestT] /\ request[r] \in RequestT /\ "task" \in Steps
          /\ outcome \in OutcomeT
        BY DEF IInv, Typed, Steps
    <2>2. pushed \in RequestT
        BY <2>1 DEF RequestT
    <2>3. request' = [request EXCEPT ![r] = pushed]
        BY <1>1
    <2>4. outcome' \in OutcomeT
        BY <1>2, <2>1 DEF OutcomeT
    <2>5. request' \in [Requests -> RequestT]
        <3> HIDE DEF pushed
        <3> QED
            BY <2>1, <2>2, <2>3
    <2> QED
        BY <1>1, <2>4, <2>5 DEF IInv, Typed
<1>4. request'[r] = [request[r] EXCEPT !.pc = "task"] /\ request[r] \in RequestT
    BY <1>1 DEF IInv, Typed
<1>5. \A s \in Requests \ {r} : request'[s] = request[s]
    BY <1>1 DEF IInv, Typed
<1>6. ASSUME NEW s \in Requests \ {r} PROVE RequestOK(s)'
    <2>1. \A k \in Kinds : outcome'[<<s, k>>] = outcome[<<s, k>>]
        BY <1>2 DEF IInv, Typed, OutcomeT
    <2> QED
        BY <1>1, <1>5, <2>1, OthersKept DEF sessionVars
<1>7. RequestOK(r)'
    <2>1. Progress(r) /\ Holder(r)
        BY DEF IInv, RequestOK
    <2>2. Task(r)' = Task(r) /\ outcome'[Task(r)] = "pending"
        BY <1>2, <1>4 DEF Task, IInv, Typed, OutcomeT, RequestT
    <2>3. /\ request'[r].pc = "task" /\ request'[r].to = request[r].to /\ request'[r].key = request[r].key
          /\ request'[r].reply = 0 /\ request'[r].late = request[r].late
        BY <1>1, <1>4, ArrivedIsFresh DEF RequestT
    <2>4. Progress(r)'
        BY <1>1, <2>1, <2>2, <2>3, ArrivedIsFresh DEF Progress, To
    <2>5. Holder(r)' /\ LockedOut(r)'
        BY <1>1, <2>1, <2>3, PastTheDoor DEF Holder, LockedOut, Access, To, sessionVars, CallResult
    <2>6. RefusedMeansUndone(r)' /\ SuccessMeansDone(r)'
        BY <2>3 DEF RefusedMeansUndone, SuccessMeansDone, CallResult
    <2> QED
        BY <2>4, <2>5, <2>6 DEF RequestOK
<1>8. SessionsOK'
    BY <1>1 DEF IInv, SessionsOK, sessionVars
<1>9. FilesOK'
    <2>1. Changing' = Changing /\ Changing \subseteq Requests
        BY <1>1, <1>4, <1>5 DEF Changing, RequestT
    <2>2. \A s \in Requests : /\ Accepted(s)' = Accepted(s) /\ request'[s].to = request[s].to
                              /\ request'[s].stored = request[s].stored
                              /\ request'[s].pc = "replied" <=> request[s].pc = "replied"
        BY <1>1, <1>4, <1>5 DEF Accepted, RequestT
    <2>3. {record, file} \subseteq Requests \cup {None}
        BY DEF IInv, FilesOK
    <2> QED
        BY <1>1, <2>1, <2>2, <2>3 DEF IInv, FilesOK, MixedOnlyIfOverlapped, fileVars
<1> QED
    BY <1>3, <1>6, <1>7, <1>8, <1>9 DEF IInv

LEMMA ArriveKeeps ==
    ASSUME IInv, NEW r \in Requests, NEW to \in Routes, NEW key \in Keys \cup {None, Bad},
           Arrive(r, to, key)
    PROVE  IInv'
<1> DEFINE new == [NewRequest EXCEPT !.pc = "arrived", !.to = to, !.key = key, !.late = key \in ended]
<1>1. /\ request[r].pc = "new" \/ request[r].to = "wamp"
      /\ key \in Held(Route[to].access)
      /\ request' = [request EXCEPT ![r] = new]
      /\ overlapped' = IF to \in FileChanges /\ Changing # {}
                       THEN overlapped \cup Changing \cup {r} ELSE overlapped
      /\ UNCHANGED <<result, sessionVars, record, file, queueVars>>
    BY DEF Arrive
<1>2. /\ new \in RequestT /\ new.pc = "arrived" /\ new.to = to /\ new.key = key /\ new.reply = 0
      /\ new.late = (key \in ended) /\ new.stored = FALSE
    <2>1. 0 \in Replies /\ "arrived" \in Steps /\ "new" \in Steps /\ (key \in ended) \in BOOLEAN
        BY DEF Replies, Steps
    <2>2. NewRequest \in RequestT
        BY <2>1 DEF NewRequest, RequestT
    <2>3. new \in RequestT
        BY <2>1, <2>2 DEF RequestT
    <2>4. /\ new.pc = "arrived" /\ new.to = to /\ new.key = key /\ new.reply = 0 /\ new.stored = FALSE
        BY DEF NewRequest
    <2>5. new.late = (key \in ended)
        BY DEF NewRequest
    <2> QED
        BY <2>3, <2>4, <2>5
<1> HIDE DEF new
<1>3. request'[r] = new /\ \A s \in Requests \ {r} : request'[s] = request[s]
    BY <1>1 DEF IInv, Typed
<1>4. Typed'
    BY <1>1, <1>2 DEF IInv, Typed, queueVars
<1>5. \A s \in Requests \ {r} : RequestOK(s)'
    BY <1>1, <1>3, OthersKept DEF sessionVars, queueVars
<1>6. Progress(r) /\ Fresh(r) /\ request[r].to \notin FileChanges
    <2>1. Progress(r)
        BY DEF IInv, RequestOK
    <2> QED
        BY <1>1, <2>1 DEF Progress, FileChanges, NewRequest
<1>7. RequestOK(r)'
    <2>1. Fresh(r)' /\ outcome'[Task(r)'] = "none" /\ result'[r] = [failed |-> FALSE, kind |-> "none"]
        BY <1>1, <1>6 DEF Fresh, queueVars, Task, Kinds
    <2>2. to = "wamp" => new.pc = "arrived"
        BY <1>2
    <2>3. Progress(r)'
        BY <1>2, <1>3, <2>1 DEF Progress
    <2>4. key \in issued \cup {None, Bad}
        BY <1>1 DEF Held, IInv, SessionsOK
    <2>5. Holder(r)' /\ LockedOut(r)' /\ RefusedMeansUndone(r)' /\ SuccessMeansDone(r)'
        <3>1. issued' = issued /\ ended' = ended
            BY <1>1 DEF sessionVars
        <3>2. Holder(r)'
            BY <1>2, <1>3, <2>4, <3>1 DEF Holder
        <3>3. LockedOut(r)'
            BY <1>2, <1>3 DEF LockedOut, CallResult
        <3>4. RefusedMeansUndone(r)' /\ SuccessMeansDone(r)'
            BY <1>2, <1>3 DEF RefusedMeansUndone, SuccessMeansDone, CallResult
        <3> QED
            BY <3>2, <3>3, <3>4
    <2> QED
        BY <2>3, <2>5 DEF RequestOK
<1>8. SessionsOK'
    BY <1>1 DEF IInv, SessionsOK, sessionVars
<1>9. FilesOK'
    <2>1. {record, file} \subseteq Requests \cup {None} /\ None \notin Requests
        BY InternetAssumption DEF IInv, FilesOK
    <2>2. r \notin {record, file}
        BY <1>6, <2>1 DEF IInv, FilesOK, FileChanges
    <2>3. Changing' = IF to \in FileChanges THEN Changing \cup {r} ELSE Changing
        BY <1>2, <1>3, <1>6 DEF Changing
    <2>4. Changing \subseteq Requests /\ ~Accepted(r)' /\ \A s \in Requests : Accepted(s)' = Accepted(s)
        BY <1>1, <1>6 DEF Changing, Accepted, Fresh
    <2>5. \A f, g \in Changing' : f # g => f \in overlapped'
        BY <1>1, <2>3, <2>4 DEF IInv, FilesOK
    <2>6. \A f \in Changing' : Accepted(f)' /\ record' \notin {None, f} => record' \in overlapped'
        BY <1>1, <2>3, <2>4 DEF IInv, FilesOK
    <2>7. \A s \in Requests : request'[s].stored => request'[s].pc = "replied"
        BY <1>2, <1>3 DEF IInv, FilesOK
    <2>8. /\ {record', file'} \subseteq Requests \cup {None} /\ overlapped' \subseteq Requests
          /\ \A f \in {record', file'} \ {None} : request'[f].to = "postFile" /\ Accepted(f)'
        BY <1>1, <1>3, <2>1, <2>2, <2>4 DEF IInv, FilesOK
    <2>9. MixedOnlyIfOverlapped'
        BY <1>1, <1>3, <2>1, <2>2 DEF IInv, FilesOK, MixedOnlyIfOverlapped
    <2> QED
        BY <2>5, <2>6, <2>7, <2>8, <2>9 DEF FilesOK
<1> QED
    BY <1>4, <1>5, <1>7, <1>8, <1>9 DEF IInv
----
(* The queue. *)

(* A request whose task is not done waits for it. *)
LEMMA PendingIsTask ==
    ASSUME IInv, NEW r \in Requests, outcome[Task(r)] = "pending"
    PROVE  /\ request[r].pc = "task" /\ request[r].to # "wamp"
           /\ result[r].kind = "none" /\ ~result[r].failed
<1>1. Progress(r) /\ request[r].pc \in Steps
    BY DEF IInv, RequestOK, Typed, RequestT
<1>2. ~Fresh(r)
    BY DEF Fresh, Task, Kinds
<1> QED
    BY <1>1, <1>2 DEF Progress, Steps

LEMMA QuietFiles ==
    ASSUME IInv, UNCHANGED <<request, result, fileVars>>
    PROVE  FilesOK'
<1>1. Changing' = Changing /\ \A s \in Requests : Accepted(s)' = Accepted(s)
    BY DEF Changing, Accepted
<1>2. {record, file} \subseteq Requests \cup {None} /\ Changing \subseteq Requests
    BY DEF IInv, FilesOK, Changing
<1> QED
    BY <1>1, <1>2 DEF IInv, FilesOK, MixedOnlyIfOverlapped, fileVars

(* A task nobody waits for ends, or a task passes its timeout. *)
LEMMA OutcomeKeeps ==
    ASSUME IInv, NEW t \in Requests \X Kinds, NEW o \in {"timeout", "answered"}, outcome[t] = "pending",
           outcome' = [outcome EXCEPT ![t] = o], UNCHANGED <<request, result, sessionVars, fileVars>>,
           o = "answered" => \A s \in Requests : t # Task(s)
    PROVE  IInv'
<1>1. Typed'
    BY DEF IInv, Typed, OutcomeT
<1>2. \A u \in Requests \X Kinds : outcome'[u] = IF u = t THEN o ELSE outcome[u]
    BY DEF IInv, Typed, OutcomeT
<1>3. ASSUME NEW s \in Requests PROVE RequestOK(s)'
    <2>1. Progress(s) /\ Task(s)' = Task(s) /\ Task(s) \in Requests \X Kinds
        BY DEF IInv, RequestOK, Task, Kinds
    <2>2. Fresh(s) => Fresh(s)'
        BY <1>2 DEF Fresh
    <2>3. outcome'[Task(s)] = IF Task(s) = t THEN o ELSE outcome[Task(s)]
        BY <1>2, <2>1
    <2>4. Progress(s)'
        BY <2>1, <2>2, <2>3 DEF Progress, To
    <2>5. Holder(s)' /\ LockedOut(s)' /\ RefusedMeansUndone(s)' /\ SuccessMeansDone(s)'
        BY DEF IInv, RequestOK, Holder, LockedOut, RefusedMeansUndone, SuccessMeansDone, sessionVars,
               Access, To
    <2> QED
        BY <2>4, <2>5 DEF RequestOK
<1>4. SessionsOK'
    BY DEF IInv, SessionsOK, sessionVars
<1> QED
    BY <1>1, <1>3, <1>4, QuietFiles DEF IInv

LEMMA StartKeeps == ASSUME IInv, NEW t, Start(t) PROVE IInv'
<1>1. /\ UNCHANGED <<request, result, sessionVars, fileVars>> /\ outcome' = outcome
    BY DEF Start, Queue!Start
<1>2. \A s \in Requests : RequestOK(s)'
    BY <1>1, OthersKept DEF sessionVars
<1>3. Typed' /\ SessionsOK'
    BY <1>1 DEF IInv, Typed, SessionsOK, sessionVars
<1> QED
    BY <1>1, <1>2, <1>3, QuietFiles DEF IInv

LEMMA ExpireKeeps == ASSUME IInv, NEW t \in Requests \X Kinds, Expire(t) PROVE IInv'
<1>1. /\ outcome[t] = "pending" /\ outcome' = [outcome EXCEPT ![t] = "timeout"]
      /\ UNCHANGED <<request, result, sessionVars, fileVars>>
    BY DEF Expire, Queue!Expire
<1> QED
    BY <1>1, OutcomeKeeps

LEMMA FinishDidSignOutKeeps == ASSUME IInv, NEW r \in Requests, FinishDidSignOut(r) PROVE IInv'
<1> DEFINE t == <<r, "didSignOut">>
<1>1. /\ outcome[t] = "pending" /\ outcome' = [outcome EXCEPT ![t] = "answered"]
      /\ UNCHANGED <<request, result, sessionVars, fileVars>>
    BY DEF FinishDidSignOut, Queue!Answer, DidSignOut
<1>2. t \in Requests \X Kinds /\ \A s \in Requests : t # Task(s)
    BY DEF Task, Kinds
<1> HIDE DEF t
<1> QED
    BY <1>1, <1>2, OutcomeKeeps

(* The worker's answer to the task of a request: the request waits for it. *)
LEMMA AnswerKeepsRequests ==
    ASSUME IInv, NEW r \in Requests, NEW res \in [failed : BOOLEAN, kind : Results],
           res.kind \in IF res.failed THEN ErrorKinds ELSE ResultKinds,
           Queue!Answer(Task(r)), result' = [result EXCEPT ![r] = res], UNCHANGED <<request, sessionVars>>
    PROVE  Typed' /\ SessionsOK' /\ \A s \in Requests : RequestOK(s)'
<1>1. /\ outcome[Task(r)] = "pending" /\ outcome' = [outcome EXCEPT ![Task(r)] = "answered"]
      /\ Task(r) \in Requests \X Kinds /\ Task(r)[1] = r
    BY DEF Queue!Answer, Task, Kinds
<1>2. /\ request[r].pc = "task" /\ request[r].to # "wamp" /\ Progress(r)
      /\ result'[r] = res /\ res.kind # "none"
    BY <1>1, PendingIsTask DEF IInv, RequestOK, Typed, ErrorKinds, ResultKinds
<1>3. Typed' /\ SessionsOK'
    BY <1>1 DEF IInv, Typed, OutcomeT, SessionsOK, sessionVars
<1>4. ASSUME NEW s \in Requests, s # r PROVE RequestOK(s)'
    <2>1. result'[s] = result[s] /\ \A k \in Kinds : outcome'[<<s, k>>] = outcome[<<s, k>>]
        BY <1>1, <1>4 DEF IInv, Typed, OutcomeT
    <2> QED
        BY <2>1, OthersKept DEF sessionVars
<1>5. RequestOK(r)'
    <2>1. Task(r)' = Task(r) /\ outcome'[Task(r)] = "answered"
        BY <1>1 DEF Task, IInv, Typed, OutcomeT
    <2>2. Progress(r)'
        BY <1>2, <2>1 DEF Progress, To
    <2>3. Holder(r)' /\ LockedOut(r)'
        BY DEF IInv, RequestOK, Holder, LockedOut, sessionVars, Access, To
    <2>4. request[r].reply = 0
        BY <1>2 DEF Progress
    <2>5. RefusedMeansUndone(r)' /\ SuccessMeansDone(r)'
        BY <2>4 DEF RefusedMeansUndone, SuccessMeansDone, CallResult
    <2> QED
        BY <2>2, <2>3, <2>5 DEF RequestOK
<1> QED
    BY <1>3, <1>4, <1>5

LEMMA FailureKeeps ==
    ASSUME IInv, NEW r \in Requests, NEW kind \in ErrorKinds, Finish(r, TRUE, kind) PROVE IInv'
<1> DEFINE res == [failed |-> TRUE, kind |-> kind]
<1>1. /\ Queue!Answer(Task(r)) /\ result' = [result EXCEPT ![r] = res]
      /\ UNCHANGED <<request, sessionVars, fileVars>>
    BY DEF Finish, fileVars
<1>2. /\ res \in [failed : BOOLEAN, kind : Results] /\ res.failed = TRUE /\ res.kind = kind
      /\ res.kind \in IF res.failed THEN ErrorKinds ELSE ResultKinds
    BY DEF Results
<1> HIDE DEF res
<1>3. Typed' /\ SessionsOK' /\ \A s \in Requests : RequestOK(s)'
    BY <1>1, <1>2, AnswerKeepsRequests
<1>4. ~Accepted(r)
    <2>1. outcome[Task(r)] = "pending"
        BY <1>1 DEF Queue!Answer
    <2> QED
        BY <2>1, PendingIsTask DEF Accepted
<1>5. \A s \in Requests : Accepted(s)' = Accepted(s)
    BY <1>1, <1>2, <1>4 DEF Accepted, IInv, Typed
<1>6. Changing' = Changing /\ Changing \subseteq Requests /\ {record, file} \subseteq Requests \cup {None}
    BY <1>1 DEF Changing, IInv, FilesOK
<1>7. FilesOK'
    BY <1>1, <1>5, <1>6 DEF IInv, FilesOK, MixedOnlyIfOverlapped, fileVars
<1> QED
    BY <1>3, <1>7 DEF IInv

(* The record of a file is that of the last change a worker accepted. *)
LEMMA SuccessKeeps ==
    ASSUME IInv, NEW r \in Requests, NEW kind \in ResultKinds, Finish(r, FALSE, kind) PROVE IInv'
<1> DEFINE res == [failed |-> FALSE, kind |-> kind]
<1>1. /\ Queue!Answer(Task(r)) /\ result' = [result EXCEPT ![r] = res]
      /\ UNCHANGED <<request, sessionVars, file, overlapped>>
    BY DEF Finish
<1>2. /\ request[r].to = "postFile" => record' = r
      /\ request[r].to = "deleteFile" => record' = None
      /\ request[r].to \notin FileChanges => record' = record
    BY DEF Finish, FileChanges
<1>3. /\ res \in [failed : BOOLEAN, kind : Results] /\ res.failed = FALSE /\ res.kind = kind
      /\ res.kind \in IF res.failed THEN ErrorKinds ELSE ResultKinds
      /\ res.kind # "none"
    BY DEF Results, ResultKinds
<1> HIDE DEF res
<1>4. Typed' /\ SessionsOK' /\ \A s \in Requests : RequestOK(s)'
    BY <1>1, <1>3, AnswerKeepsRequests
<1>5. request[r].pc = "task"
    <2>1. outcome[Task(r)] = "pending"
        BY <1>1 DEF Queue!Answer
    <2> QED
        BY <2>1, PendingIsTask
<1>6. Accepted(r)' /\ \A s \in Requests : s # r => Accepted(s)' = Accepted(s)
    BY <1>1, <1>3 DEF Accepted, IInv, Typed
<1>7. Changing' = Changing /\ Changing \subseteq Requests /\ {record, file} \subseteq Requests \cup {None}
    BY <1>1 DEF Changing, IInv, FilesOK
<1>8. r \in Changing <=> request[r].to \in FileChanges
    BY <1>5 DEF Changing
<1>9. FilesOK'
    <2>1. CASE request[r].to = "postFile"
        BY <1>1, <1>2, <1>5, <1>6, <1>7, <1>8, <2>1 DEF IInv, FilesOK, MixedOnlyIfOverlapped, FileChanges
    <2>2. CASE request[r].to = "deleteFile"
        BY <1>1, <1>2, <1>6, <1>7, <2>2 DEF IInv, FilesOK, MixedOnlyIfOverlapped
    <2>3. CASE request[r].to \notin FileChanges
        BY <1>1, <1>2, <1>6, <1>7, <1>8, <2>3 DEF IInv, FilesOK, MixedOnlyIfOverlapped
    <2> QED
        BY <2>1, <2>2, <2>3 DEF FileChanges
<1> QED
    BY <1>4, <1>9 DEF IInv
----
(* The sessions of workers, expiry and connections. *)

LEMMA SessionStepKeeps ==
    ASSUME IInv, NEW k \in Keys, SessionNew(k) \/ SessionExpires(k) \/ Disconnect(k)
    PROVE  IInv'
<1>1. UNCHANGED <<request, result, fileVars, outcome, ended>>
    BY DEF SessionNew, SessionExpires, Disconnect, Silent, queueVars
<1>2. issued \subseteq issued' /\ SessionsOK'
    BY DEF SessionNew, SessionExpires, Disconnect, Store!Create, Store!End, IInv, SessionsOK
<1>3. \A s \in Requests : RequestOK(s)'
    BY <1>1, <1>2, OthersKept
<1>4. Typed'
    BY <1>1 DEF IInv, Typed
<1> QED
    BY <1>1, <1>2, <1>3, <1>4, QuietFiles DEF IInv

LEMMA NextPreserves == IInv /\ [Next]_vars => IInv'
<1> SUFFICES ASSUME IInv, [Next]_vars PROVE IInv'
    OBVIOUS
<1>1. ASSUME NEW r \in Requests, NEW to \in Offers[r], NEW key \in Keys \cup {None, Bad}, Arrive(r, to, key)
      PROVE  IInv'
    BY <1>1, ArriveKeeps, InternetAssumption
<1>2. ASSUME NEW r \in Requests, Admit(r) \/ Handle(r) PROVE IInv'
    BY <1>2, AdmitKeeps, RefuseKeeps, AnswerKeeps, PushKeeps DEF Handle
<1>3. ASSUME NEW r \in Requests, Complete(r) PROVE IInv'
    BY <1>3, RespondKeeps, TimeoutKeeps, NewSessionKeeps, AddUserSubscriptionKeeps, CheckSessionKeeps,
       DeleteSessionKeeps, FetchFileKeeps, UploadKeeps DEF Complete
<1>4. ASSUME NEW r \in Requests, NEW o \in Outcomes, Finish(r, o[1], o[2]) PROVE IInv'
    <2>1. CASE o[1] = TRUE /\ o[2] \in ErrorKinds
        BY <1>4, <2>1, FailureKeeps
    <2>2. CASE o[1] = FALSE /\ o[2] \in ResultKinds
        BY <1>4, <2>2, SuccessKeeps
    <2> QED
        BY <2>1, <2>2 DEF Outcomes
<1>5. ASSUME NEW r \in Requests, FinishDidSignOut(r) PROVE IInv'
    BY <1>5, FinishDidSignOutKeeps
<1>6. ASSUME NEW t \in Requests \X {"timed", "untimed", "didSignOut"}, Start(t) \/ Expire(t) PROVE IInv'
    BY <1>6, StartKeeps, ExpireKeeps DEF Kinds
<1>7. ASSUME NEW k \in Keys, SessionNew(k) \/ SessionExpires(k) \/ Disconnect(k) PROVE IInv'
    BY <1>7, SessionStepKeeps
<1>8. CASE UNCHANGED vars
    <2>1. UNCHANGED <<request, result, sessionVars, fileVars, outcome>>
        BY <1>8 DEF vars, queueVars
    <2>2. \A s \in Requests : RequestOK(s)'
        BY <2>1, OthersKept DEF sessionVars
    <2>3. Typed' /\ SessionsOK'
        BY <2>1 DEF IInv, Typed, SessionsOK, sessionVars
    <2> QED
        BY <2>1, <2>2, <2>3, QuietFiles DEF IInv
<1> QED
    BY <1>1, <1>2, <1>3, <1>4, <1>5, <1>6, <1>7, <1>8 DEF Next

LEMMA Invariance == Spec => []IInv
<1> QED
    BY InitEstablishes, NextPreserves, PTL DEF Spec
----
(* The types, and that how far a request has come agrees with what has become of its
   task, which is what makes the handlers' reads of a result safe. *)
THEOREM TypeCorrect == Spec => []TypeOK
<1> QED
    BY Invariance, InvImplies, PTL

(* Once a logout was answered with OK, its token opens nothing that looks at sessions:
   jwtAuthMiddleware, the calls, the WAMP upgrade, check-jwt and subscriptions. *)
THEOREM LockedOutForGood == Spec => []LoggedOutIsLockedOut
<1> QED
    BY Invariance, InvImplies, PTL

(* The status of a reply tells what became of the task, for every handler of the table. *)
THEOREM RepliesTellTheTruth == Spec => []ReplyTellsOutcome
<1> QED
    BY Invariance, InvImplies, PTL

(* postFileHandler sends nothing to the file store before its record was accepted. *)
THEOREM ContentHasRecord == Spec => []FileHasRecord
<1> QED
    BY Invariance, InvImplies, PTL

(* A record with another upload's content takes two changes of the file at once, or a
   file store that kept nothing. *)
THEOREM MixedByOverlap == Spec => []MixedOnlyIfOverlapped
<1> QED
    BY Invariance, InvImplies, PTL
----
(* A request whose session it has deleted is replied to and never taken up again: only
   one that opened a connection is. *)
Gone(r) == request[r].pc = "replied" /\ request[r].to # "wamp"

LEMMA RequestStep ==
    ASSUME IInv, Next
    PROVE  \/ request' = request
           \/ \E r \in Requests : /\ ~Gone(r)
                                  /\ \A q \in Requests : q # r => request'[q] = request[q]
<1> DEFINE Others(r) == \A q \in Requests : q # r => request'[q] = request[q]
<1>0. request \in [Requests -> RequestT]
    BY DEF IInv, Typed
<1>1. ASSUME NEW r \in Requests, NEW pc, Goto(r, pc) PROVE Others(r)
    BY <1>0, <1>1 DEF Goto
<1>2. ASSUME NEW r \in Requests, NEW R, Reply(r, R) PROVE Others(r)
    BY <1>0, <1>2 DEF Reply
<1>3. ASSUME NEW r \in Requests, NEW to, NEW key, Arrive(r, to, key) PROVE ~Gone(r) /\ Others(r)
    BY <1>0, <1>3 DEF Arrive, Gone
<1>4. ASSUME NEW r \in Requests, Admit(r) PROVE ~Gone(r) /\ Others(r)
    <2>1. request[r].pc = "arrived"
        BY <1>4 DEF Admit, Enter, jwtAuthMiddleware, CheckCall, wampHandler, checkJWTHandler,
           subStoresHandler, StartLogout
    <2>2. (\E pc : Goto(r, pc)) \/ (\E R : Reply(r, R))
        <3>1. CASE jwtAuthMiddleware(r)
            BY <3>1 DEF jwtAuthMiddleware
        <3>2. CASE wampHandler(r) \/ checkJWTHandler(r) \/ subStoresHandler(r)
            BY <3>2 DEF wampHandler, checkJWTHandler, subStoresHandler
        <3>3. CASE Enter(r) \/ CheckCall(r) \/ StartLogout(r)
            BY <3>3 DEF Enter, CheckCall, StartLogout
        <3> QED
            BY <1>4, <3>1, <3>2, <3>3 DEF Admit
    <2> QED
        BY <1>1, <1>2, <2>1, <2>2 DEF Gone
<1>5. ASSUME NEW r \in Requests, Handle(r) PROVE ~Gone(r) /\ Others(r)
    <2>1. request[r].pc = "handler" /\ ((\E pc : Goto(r, pc)) \/ (\E R : Reply(r, R)))
        BY <1>5 DEF Handle, Refuse, Answer, Push
    <2> QED
        BY <1>1, <1>2, <2>1 DEF Gone
<1>6. ASSUME NEW r \in Requests, Complete(r) PROVE ~Gone(r) /\ Others(r)
    <2>1. CASE Upload(r)
        BY <1>0, <2>1 DEF Upload, After, Gone
    <2>2. CASE ~Upload(r)
        <3>1. request[r].pc \in {"task", "after", "delete"}
            BY <1>6, <2>2 DEF Complete, Respond, RespondToTimeout, NewSession, AddUserSubscription,
               CheckSession, DeleteSession, FetchFile, After
        <3>2. (\E pc : Goto(r, pc)) \/ (\E R : Reply(r, R))
            <4>1. CASE Respond(r)
                BY <4>1 DEF Respond
            <4>2. CASE RespondToTimeout(r) \/ (\E k \in Keys : NewSession(r, k)) \/ FetchFile(r)
                BY <4>2 DEF RespondToTimeout, NewSession, FetchFile
            <4>3. CASE AddUserSubscription(r) \/ CheckSession(r) \/ DeleteSession(r)
                BY <4>3 DEF AddUserSubscription, CheckSession, DeleteSession
            <4> QED
                BY <1>6, <2>2, <4>1, <4>2, <4>3 DEF Complete
        <3> QED
            BY <1>1, <1>2, <3>1, <3>2 DEF Gone
    <2> QED
        BY <2>1, <2>2
<1>7. ASSUME NEW r \in Requests, (\E o \in Outcomes : Finish(r, o[1], o[2])) \/ FinishDidSignOut(r)
      PROVE  request' = request
    BY <1>7 DEF Finish, FinishDidSignOut
<1>8. ASSUME NEW t, Start(t) \/ Expire(t) PROVE request' = request
    BY <1>8 DEF Start, Expire
<1>9. ASSUME NEW k \in Keys, SessionNew(k) \/ SessionExpires(k) \/ Disconnect(k)
      PROVE  request' = request
    BY <1>9 DEF SessionNew, SessionExpires, Disconnect
<1> HIDE DEF Others
<1>10. request' = request \/ \E r \in Requests : ~Gone(r) /\ Others(r)
    BY <1>3, <1>4, <1>5, <1>6, <1>7, <1>8, <1>9 DEF Next
<1> QED
    BY <1>10 DEF Others

(* didSignOut is pushed by the request that deletes the session, which it ends. *)
LEMMA OnlyDeletePushes ==
    ASSUME IInv, Next, NEW q \in Requests, outcome[<<q, "didSignOut">>] = "none",
           outcome'[<<q, "didSignOut">>] # "none"
    PROVE  DeleteSession(q)
<1> DEFINE t == <<q, "didSignOut">>
<1>0. outcome \in OutcomeT /\ t \in Requests \X Kinds
    BY DEF IInv, Typed, Kinds
<1>1. ASSUME NEW u \in Requests \X Kinds, Queue!Answer(u) \/ Queue!Expire(u) \/ Queue!Start(u)
      PROVE  FALSE
    BY <1>0, <1>1 DEF Queue!Answer, Queue!Expire, Queue!Start, OutcomeT
<1>2. ASSUME NEW r \in Requests, Queue!Submit(Task(r)) PROVE FALSE
    <2>1. Task(r) \in Requests \X Kinds /\ Task(r) # t
        BY DEF Task, Kinds
    <2> QED
        BY <1>0, <1>2, <2>1 DEF Queue!Submit, OutcomeT
<1>3. ASSUME NEW r \in Requests, r # q, Queue!Submit(DidSignOut(r)) PROVE FALSE
    <2>1. DidSignOut(r) \in Requests \X Kinds /\ DidSignOut(r) # t
        BY <1>3 DEF DidSignOut, Kinds
    <2> QED
        BY <1>0, <1>3, <2>1 DEF Queue!Submit, OutcomeT
<1>4. outcome' # outcome
    OBVIOUS
<1>5. ASSUME NEW r \in Requests, NEW to, NEW key, Arrive(r, to, key) PROVE FALSE
    BY <1>4, <1>5 DEF Arrive, queueVars
<1>6. ASSUME NEW r \in Requests, Admit(r) PROVE FALSE
    BY <1>4, <1>6 DEF Admit, Enter, jwtAuthMiddleware, CheckCall, wampHandler, checkJWTHandler,
       subStoresHandler, StartLogout, Silent, queueVars
<1>7. ASSUME NEW r \in Requests, Handle(r) PROVE FALSE
    BY <1>2, <1>4, <1>7 DEF Handle, Refuse, Answer, Push, Silent, queueVars
<1>8. ASSUME NEW r \in Requests, Complete(r) PROVE r = q /\ DeleteSession(r)
    <2>1. DeleteSession(r)
        BY <1>4, <1>8 DEF Complete, Respond, RespondToTimeout, NewSession, AddUserSubscription,
           CheckSession, FetchFile, Upload, Silent, queueVars
    <2> QED
        BY <1>3, <1>4, <2>1 DEF DeleteSession, queueVars
<1>9. ASSUME NEW r \in Requests, (\E o \in Outcomes : Finish(r, o[1], o[2])) \/ FinishDidSignOut(r)
      PROVE  FALSE
    <2>1. Task(r) \in Requests \X Kinds /\ DidSignOut(r) \in Requests \X Kinds
        BY DEF Task, DidSignOut, Kinds
    <2> QED
        BY <1>1, <1>9, <2>1 DEF Finish, FinishDidSignOut
<1>10. ASSUME NEW u \in Requests \X Kinds, Start(u) \/ Expire(u) PROVE FALSE
    BY <1>1, <1>10 DEF Start, Expire
<1>11. ASSUME NEW k \in Keys, SessionNew(k) \/ SessionExpires(k) \/ Disconnect(k) PROVE FALSE
    BY <1>4, <1>11 DEF SessionNew, SessionExpires, Disconnect, Silent, queueVars
<1> HIDE DEF t
<1> QED
    BY <1>5, <1>6, <1>7, <1>8, <1>9, <1>10, <1>11 DEF Next, Kinds

SignedOutIsGone == \A r \in Requests : outcome[<<r, "didSignOut">>] # "none" => Gone(r)

LEMMA SignedOutStep == IInv /\ SignedOutIsGone /\ [Next]_vars => SignedOutIsGone'
<1> SUFFICES ASSUME IInv, SignedOutIsGone, [Next]_vars, NEW q \in Requests,
                    outcome'[<<q, "didSignOut">>] # "none"
             PROVE  Gone(q)'
    BY DEF SignedOutIsGone
<1>1. CASE UNCHANGED vars
    BY <1>1 DEF SignedOutIsGone, Gone, vars, queueVars
<1>2. CASE Next /\ outcome[<<q, "didSignOut">>] # "none"
    <2>1. Gone(q)
        BY <1>2 DEF SignedOutIsGone
    <2>2. request'[q] = request[q]
        BY <1>2, <2>1, RequestStep
    <2> QED
        BY <2>1, <2>2 DEF Gone
<1>3. CASE Next /\ outcome[<<q, "didSignOut">>] = "none"
    <2>1. DeleteSession(q)
        BY <1>3, OnlyDeletePushes
    <2>2. request[q].to # "wamp"
        BY <2>1 DEF DeleteSession, IInv, RequestOK, Progress
    <2>3. PICK reply : request' = [request EXCEPT ![q].pc = "replied", ![q].reply = reply]
        BY <2>1 DEF DeleteSession, Reply
    <2> QED
        BY <2>2, <2>3 DEF Gone, IInv, Typed, RequestT
<1> QED
    BY <1>1, <1>2, <1>3

(* No request submits a task twice: what Push and DeleteSession give to the queue is new,
   so the promise of TaskService, which is about tasks submitted once, covers all of
   them and keeps none from being submitted. *)
SubmissionsAreNew ==
    \A r \in Requests :
        /\ request[r].pc = "handler" => outcome[Task(r)] = "none"
        /\ request[r].pc = "delete" => outcome[DidSignOut(r)] = "none"

THEOREM SubmitsOnce == Spec => []SubmissionsAreNew
<1>1. Init => SignedOutIsGone
    BY DEF Init, Queue!Init, SignedOutIsGone
<1>2. IInv /\ SignedOutIsGone => SubmissionsAreNew
    <2> SUFFICES ASSUME IInv, SignedOutIsGone, NEW r \in Requests
                 PROVE  /\ request[r].pc = "handler" => outcome[Task(r)] = "none"
                        /\ request[r].pc = "delete" => outcome[DidSignOut(r)] = "none"
        BY DEF SubmissionsAreNew
    <2>1. request[r].pc = "handler" => Fresh(r)
        BY DEF IInv, RequestOK, Progress
    <2>2. Fresh(r) => outcome[Task(r)] = "none"
        BY DEF Fresh, Task, Kinds
    <2>3. request[r].pc = "delete" => outcome[DidSignOut(r)] = "none"
        BY DEF SignedOutIsGone, Gone, DidSignOut
    <2> QED
        BY <2>1, <2>2, <2>3
<1> QED
    BY <1>1, <1>2, SignedOutStep, Invariance, PTL DEF Spec
====
