---- MODULE Endpoints ----
(***************************************************************************)
(* The requests blank-one serves: the routes of package internet, its WAMP *)
(* calls and subscriptions, and the intranet's call that runs a task.      *)
(* Nearly every handler has the same shape - checks of its own, one task,  *)
(* a reply made of the outcome - so a handler is a record:                 *)
(*   bad       replies to a request that its own checks refuse             *)
(*   type      the type of the task it pushes ("none": it pushes none)     *)
(*   user      whose task it is: the "user" of the token, "root" or "none" *)
(*   onError   the replies to each kind of error text from the worker      *)
(*   onResult  the replies to each shape of result, where {} stands for a  *)
(*             handler that goes on (Internet.tla has the rest of it)      *)
(* A reply is a status code, or the WAMP message CallResult or CallError.  *)
(* A panic in an HTTP handler is a reply too: 500, by Recoverer.           *)
(***************************************************************************)
EXTENDS Naturals

CONSTANTS Numbers,  \* numbers that an error text of a worker can begin with
          Codes     \* status codes that the result of a hook or action can ask for

ASSUME EndpointsAssumption ==
    Numbers \subseteq Nat /\ Numbers # {} /\ Codes \subseteq Nat

CallResult == 3
CallError  == 4

ErrorKinds  == {"notFound", "unauthorized", "numbered", "other"}
ResultKinds == {"nil", "object", "other"}

(* The rows of the table: one reply to everything, the REST handlers' three kinds of
   error, a handler that tells objects from other results. *)
AnyError(reply)  == [k \in ErrorKinds |-> {reply}]
AnyResult(reply) == [k \in ResultKinds |-> {reply}]
RestErrors(notFound) == [k \in ErrorKinds |-> CASE k = "notFound" -> {notFound}
                                                [] k = "unauthorized" -> {403}
                                                [] OTHER -> {303}]
OnlyObject(replies, otherwise) ==
    [k \in ResultKinds |-> IF k = "object" THEN replies ELSE {otherwise}]
GoesOn == [k \in ResultKinds |-> {}]

Handler(bad, type, user, onError, onResult) ==
    [bad |-> bad, type |-> type, user |-> user, onError |-> onError, onResult |-> onResult]

(* A handler without a task. *)
Plain(replies) == Handler({}, "none", "none", AnyError(500), [k \in ResultKinds |-> replies])

(* net/http panics in WriteHeader on a code that has not three digits. *)
WriteHeader(code) == IF code \in 100..999 THEN code ELSE 500

----
(* rest.go *)

(* "NNN text" is answered with status NNN, whatever NNN is. *)
restActionHandler ==
    Handler({}, "DbAction", "user",
            [RestErrors(404) EXCEPT !["numbered"] = {WriteHeader(n) : n \in Numbers},
                                    !["other"] = {500}],
            AnyResult(200))

restGetAllDocumentsHandler ==
    Handler({400}, "DbFind", "user", RestErrors(404), AnyResult(200))

restGetDocumentHandler ==
    Handler({400}, "DbGet", "user", RestErrors(404), AnyResult(200))

(* The body null decodes to a nil map: the assignment of _id panics.  "not found" has
   no status of its own here. *)
restPostDocumentHandler ==
    Handler({400, 500}, "DbSet", "user", RestErrors(303), OnlyObject({201}, 500))

restPutDocumentHandler ==
    Handler({400, 500}, "DbSet", "user", RestErrors(404), AnyResult(200))

(* Mutant: the error of the task is logged and dropped. *)
restDeleteIgnoresError ==
    Handler({400}, "DbDelete", "user", AnyError(200), AnyResult(200))

restDeleteDocumentHandler ==
    Handler({400}, "DbDelete", "user", RestErrors(404), AnyResult(200))

restWidgetLoadDataHandler ==
    Handler({400, 404}, "WidgetData", "user", RestErrors(404), AnyResult(200))

----
(* httproutes.go *)

(* No result, a body in the code the worker asked for, a redirect of the server or of
   the client, a file, or an encoding nobody knows. *)
responseFile    == {200, 404, 500}
serverRedirect  == {200, 500}
defaultResponse == {WriteHeader(c) : c \in Codes} \cup {200, 302, 303}
                       \cup serverRedirect \cup responseFile

(* parseResult fails on what is not an object. *)
parseResult == [k \in ResultKinds |-> CASE k = "nil" -> {200}
                                        [] k = "object" -> defaultResponse
                                        [] OTHER -> {500}]

hookHandler == Handler({}, "HTTPHook", "root", AnyError(303), parseResult)
httpActionHandler == Handler({}, "DbAction", "user", AnyError(303), parseResult)

getFileHandler    == Handler({}, "DbGet", "user", AnyError(400), GoesOn)
postFileHandler   == Handler({400}, "DbSet", "user", AnyError(400), GoesOn)
deleteFileHandler == Handler({}, "DbDelete", "user", AnyError(400), AnyResult(200))

----
(* internet.go *)

assetsHandler == Plain({200, 404})

(* An error is taken for "no such user". *)
checkUserHandler ==
    Handler({400}, "DbFind", "root", AnyError(200), OnlyObject({200, 500}, 500))

commonSettingsHandler ==
    Handler({}, "UserConfig", "none", AnyError(404), AnyResult(200))

loginHandler  == Handler({400}, "Auth", "none", AnyError(403), OnlyObject({}, 500))
logoutHandler == Handler({}, "SignOut", "user", AnyError(500), GoesOn)

registerHandler ==
    Handler({400}, "SignUp", "none", AnyError(400), AnyResult(200))

resetPasswordHandler ==
    Handler({400}, "PasswordReset", "none", AnyError(303), AnyResult(200))

sendResetLinkHandler ==
    Handler({400}, "PasswordResetRequest", "none", AnyError(303), AnyResult(200))

----
(* wamp.go and subhandlers.go: the types of the commands of com.stores.<store>. *)
Commands == {"DbGet", "DbSet", "DbInsert", "DbDelete", "DbPush", "DbLoadRefs", "DbFind",
             "WidgetData"}

(* Missing arguments, legacy calls switched off and, after the check of the session, an
   unknown command are errors. *)
rgxRPCHandler(type) ==
    Handler({CallError}, type, "user", AnyError(CallError), AnyResult(CallResult))

actionHandler ==
    Handler({CallError}, "DbAction", "user", AnyError(CallError), AnyResult(CallResult))

checkUserWAMPHandler ==
    Handler({CallError}, "DbFind", "root", AnyError(CallResult),
            OnlyObject({CallResult, CallError}, CallError))

timeHandler  == Plain({CallResult})
stateHandler == Plain({CallResult})

(* AddSubscription fails when the session is gone: {} goes on to it. *)
subUserHandler ==
    Handler({}, "DbGet", "user", AnyError(CallError), GoesOn)

subConfigHandler ==
    Handler({}, "UserConfig", "user", AnyError(CallError), AnyResult(CallResult))

(* intranet: a worker subscribes to a store of stores.<store>. *)
workerSubStoresHandler ==
    Handler({}, "DbFind", "root", AnyError(CallError), AnyResult(CallResult))

----
(* Who may ask: "any" one; a "guest", whose token is checked if there is one; a "token"
   of a session; a "call" or a "subscribe" on a connection of a session, the first of
   which checks the session again. *)
For(access, h) == [access |-> access, bad |-> h.bad, type |-> h.type, user |-> h.user,
                   onError |-> h.onError, onResult |-> h.onResult]
jwtAuth(allowGuests, handler) == For(IF allowGuests THEN "guest" ELSE "token", handler)

createRESTAPIForStore ==
    [ restGetAll |-> jwtAuth(TRUE, restGetAllDocumentsHandler),
      restPost   |-> jwtAuth(FALSE, restPostDocumentHandler),
      restGet    |-> jwtAuth(FALSE, restGetDocumentHandler),
      restPut    |-> jwtAuth(FALSE, restPutDocumentHandler),
      restDelete |-> jwtAuth(FALSE, restDeleteDocumentHandler),
      restAction |-> jwtAuth(FALSE, restActionHandler) ]

restCreateWidgetLoadData == [restWidget |-> jwtAuth(FALSE, restWidgetLoadDataHandler)]

createFileHandlers ==
    [ postFile   |-> jwtAuth(FALSE, postFileHandler),
      getFile    |-> jwtAuth(TRUE, getFileHandler),
      deleteFile |-> jwtAuth(FALSE, deleteFileHandler) ]

onConfigUpdate == [hook |-> For("any", hookHandler),
                   httpAction |-> jwtAuth(FALSE, httpActionHandler)]

initBaseRoutes ==
    [ root           |-> For("any", Plain({307})),
      assets         |-> For("any", assetsHandler),
      publicKey      |-> For("any", Plain({200})),
      commonSettings |-> For("any", commonSettingsHandler),
      login          |-> For("any", loginHandler),
      register       |-> For("any", registerHandler),
      checkUser      |-> For("any", checkUserHandler),
      sendResetLink  |-> For("any", sendResetLinkHandler),
      resetPassword  |-> For("any", resetPasswordHandler),
      checkJWTOptions |-> For("any", Plain({200})),
      ssoFrame       |-> For("any", Plain({200})),
      logout         |-> For("logout", logoutHandler),
      checkJWT       |-> For("checkJWT", Plain({200})),
      wamp           |-> For("upgrade", Plain({101})) ]

wampInit ==
    [ com_state      |-> For("open", stateHandler),
      com_time       |-> For("open", timeHandler),
      com_checkUser  |-> For("open", checkUserWAMPHandler),
      com_action     |-> For("call", actionHandler),
      com_user       |-> For("open", subUserHandler),
      com_config     |-> For("open", subConfigHandler),
      com_stores_sub |-> For("subscribe", Plain({CallResult})) ]

ComStores == [type \in Commands |-> For("call", rgxRPCHandler(type))]

(* The operator @@ of module TLC, of which the provers know nothing. *)
Join(f, g) == [x \in DOMAIN f \cup DOMAIN g |-> IF x \in DOMAIN f THEN f[x] ELSE g[x]]

StoreRoutes == Join(Join(createRESTAPIForStore, restCreateWidgetLoadData), createFileHandlers)
Calls       == Join(Join(wampInit, ComStores),
                   [workerSubStores |-> For("any", workerSubStoresHandler)])
Route       == Join(Join(StoreRoutes, onConfigUpdate), Join(initBaseRoutes, Calls))

Routes == DOMAIN Route
====
