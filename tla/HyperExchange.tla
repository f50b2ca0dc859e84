--------------------------- MODULE HyperExchange ---------------------------
(***************************************************************************)
(* Calls through the generated client, and requests of other clients, to   *)
(* the generated server in front of the petstore application of            *)
(* examples/server/server.rs. The application keeps its users here; what   *)
(* it says of pets and orders, which other modules are about, may be       *)
(* anything trait Api lets it say. Connections break at any moment.        *)
(*                                                                         *)
(* An exchange is one call or request and what became of it. A client that *)
(* gets no answer goes on, and so may the server: its exchange is then     *)
(* abandoned and what the client does next is another exchange.            *)
(***************************************************************************)
EXTENDS HyperServer, HyperClient

CONSTANTS
  Exchanges,       \* exchanges that may be under way at a time
  Calls,           \* the calls clients make, in each exchange
  Requests,        \* the requests of other clients, in each exchange
  Contexts,        \* what a client's context may hold: None, "apiKey", tokens
  Authenticators,  \* the authenticators in front of the service
  UserNames,       \* the names users may have
  Passwords,
  NoUser           \* no row with this name

(* A body is a sequence of items: a user is a name and a password; of any  *)
(* other payload the name says what it is.                                 *)
Bodies == Seq([name : STRING, word : Passwords])
ApiKeys == {None, Garbled, "apiKey"}

(* A call that type-checks: of the parameters a caller may leave out only  *)
(* the tags are a list, which has at least one.                            *)
TypedCall(k) ==
  /\ k = [op |-> k.op, key |-> k.key, header |-> k.header, query |-> k.query, body |-> k.body]
  /\ k.op \in Operations
  /\ k.op \notin OperationsWithKey => k.key = None
  /\ k.header \in IF k.op = "DeletePet" THEN ApiKeys ELSE {None}
  /\ DOMAIN k.query \subseteq QueryParameters(k.op)
  /\ k.query \in [DOMAIN k.query -> Seq(STRING) \ {<<>>}]
  /\ k.op # "FindPetsByTags" => \A p \in DOMAIN k.query : Len(k.query[p]) = 1
  /\ k.body \in IF k.op \in OperationsWithBody THEN Bodies ELSE {NoItems}

HyperAssumption ==
  /\ Contexts \subseteq {None, "apiKey"} \cup DOMAIN Tokens
  /\ Authenticators \subseteq {"allowAll", "claims"}
  /\ None \notin UserNames
  /\ \A e \in Exchanges : \A k \in Calls[e] : TypedCall(k)
  /\ \A e \in Exchanges : \A r \in Requests[e] :
       /\ r.path \in Seq(STRING) /\ r.body.items \in Bodies
       /\ r.bearer \in {None} \cup DOMAIN Tokens /\ r.apiKey \in ApiKeys
ASSUME HyperAssumption

VARIABLES
  authenticator,   \* the one the server was built with
  phase,           \* of each exchange
  call,            \* the call of the client, NoCall for another client
  request,         \* the request on its way to the server
  task,            \* the call the application is at work on
  said,            \* the call the application answered, and its answer
  response,        \* the response on its way to the client
  result,          \* what the client made of it
  users            \* the password of each user

vars == <<authenticator, phase, call, request, task, said, response, result, users>>

NoRequest ==
  [method |-> None, path |-> <<>>, query |-> NoQuery, bearer |-> None, apiKey |-> None,
   body |-> [format |-> "empty", items |-> NoItems], label |-> None]
NoResponse == [code |-> 0, body |-> None]
NoAnswer == "No response received"
NothingSaid == [call |-> NoCall, answer |-> None]

Phases == {"idle", "sent", "called", "abandoned", "answered", "done"}
Running == {"called", "abandoned"}

TypeOK ==
  /\ authenticator \in Authenticators
  /\ phase \in [Exchanges -> Phases]
  /\ \A e \in Exchanges :
       /\ call[e] \in Calls[e] \cup {NoCall}
       /\ task[e].op \in Operations \cup {None}
       /\ said[e].answer \in {None} \cup UNION {Answers(o) : o \in Operations}
       /\ response[e].code \in {0, 200, 400, 403, 404, 405, 422, 500}
  /\ users \in [UserNames -> Passwords \cup {NoUser}]

Init ==
  /\ authenticator \in Authenticators
  /\ phase = [e \in Exchanges |-> "idle"]
  /\ call = [e \in Exchanges |-> NoCall]
  /\ request = [e \in Exchanges |-> NoRequest]
  /\ task = [e \in Exchanges |-> NoCall]
  /\ said = [e \in Exchanges |-> NothingSaid]
  /\ response = [e \in Exchanges |-> NoResponse]
  /\ result = [e \in Exchanges |-> None]
  /\ users = [n \in UserNames |-> NoUser]

-----------------------------------------------------------------------------
(* The client.                                                             *)

Finish(e, r) ==
  /\ phase' = [phase EXCEPT ![e] = "done"]
  /\ result' = [result EXCEPT ![e] = r]

Send(e, k, authData) ==
  /\ phase[e] = "idle"
  /\ ~Unsendable(k) /\ ~Panics(k)
  /\ phase' = [phase EXCEPT ![e] = "sent"]
  /\ call' = [call EXCEPT ![e] = k]
  /\ request' = [request EXCEPT ![e] = Sent(k, authData)]
  /\ UNCHANGED <<authenticator, task, said, response, result, users>>

FailToSend(e, k) ==
  /\ phase[e] = "idle"
  /\ Unsendable(k) \/ Panics(k)
  /\ call' = [call EXCEPT ![e] = k]
  /\ Finish(e, IF Panics(k) THEN "panic" ELSE "Err")
  /\ UNCHANGED <<authenticator, request, task, said, response, users>>

(* curl, k6 or a browser sends a request the generated client would not.   *)
SendOther(e, r) ==
  /\ phase[e] = "idle"
  /\ phase' = [phase EXCEPT ![e] = "sent"]
  /\ request' = [request EXCEPT ![e] = r]
  /\ UNCHANGED <<authenticator, call, task, said, response, result, users>>

Read(e) ==
  /\ phase[e] = "answered"
  /\ Finish(e, IF call[e] = NoCall THEN None ELSE ResultOf(call[e].op, response[e]))
  /\ response' = [response EXCEPT ![e] = NoResponse]
  /\ UNCHANGED <<authenticator, call, request, task, said, users>>

(* The caller has its result and forgets the exchange.                     *)
Return(e) ==
  /\ phase[e] = "done"
  /\ phase' = [phase EXCEPT ![e] = "idle"]
  /\ call' = [call EXCEPT ![e] = NoCall]
  /\ said' = [said EXCEPT ![e] = NothingSaid]
  /\ result' = [result EXCEPT ![e] = None]
  /\ UNCHANGED <<authenticator, request, task, response, users>>

-----------------------------------------------------------------------------
(* The connection breaks. The client fails and a handler that is at work is*)
(* dropped at its next await, unless a statement it has already sent takes *)
(* effect first.                                                           *)

LoseMessage(e) ==
  /\ phase[e] \in {"sent", "answered"}
  /\ Finish(e, NoAnswer)
  /\ request' = [request EXCEPT ![e] = NoRequest]
  /\ response' = [response EXCEPT ![e] = NoResponse]
  /\ UNCHANGED <<authenticator, call, task, said, users>>

Abandon(e) ==
  /\ phase[e] = "called"
  /\ phase' = [phase EXCEPT ![e] = "abandoned"]
  /\ UNCHANGED <<authenticator, call, request, task, said, response, result, users>>

Drop(e) ==
  /\ phase[e] = "abandoned"
  /\ phase' = [phase EXCEPT ![e] = "idle"]
  /\ call' = [call EXCEPT ![e] = NoCall]
  /\ task' = [task EXCEPT ![e] = NoCall]
  /\ UNCHANGED <<authenticator, request, said, response, result, users>>

-----------------------------------------------------------------------------
(* The server.                                                             *)

Granted(e) == Authorization(authenticator, AuthData(request[e]))

Serve(e) ==
  /\ phase[e] = "sent"
  /\ LET code == Refusal(request[e], Granted(e))
     IN  IF code = 0
         THEN /\ phase' = [phase EXCEPT ![e] = "called"]
              /\ task' = [task EXCEPT ![e] = Received(Dispatched(request[e]), request[e])]
              /\ UNCHANGED response
         ELSE /\ phase' = [phase EXCEPT ![e] = "answered"]
              /\ response' = [response EXCEPT ![e] = Refused(code)]
              /\ UNCHANGED task
  /\ request' = [request EXCEPT ![e] = NoRequest]
  /\ UNCHANGED <<authenticator, call, said, result, users>>

(* The application has answered; an abandoned handler answers nobody.      *)
Answer(e, answer) ==
  /\ task' = [task EXCEPT ![e] = NoCall]
  /\ IF phase[e] = "called"
     THEN /\ phase' = [phase EXCEPT ![e] = "answered"]
          /\ said' = [said EXCEPT ![e] = [call |-> task[e], answer |-> answer]]
          /\ response' = [response EXCEPT ![e] = Response(task[e].op, answer)]
          /\ UNCHANGED call
     ELSE /\ phase' = [phase EXCEPT ![e] = "idle"]
          /\ call' = [call EXCEPT ![e] = NoCall]
          /\ UNCHANGED <<said, response>>
  /\ UNCHANGED <<authenticator, request, result>>

Works(e, op) == phase[e] \in Running /\ task[e].op = op

-----------------------------------------------------------------------------
(* The application.                                                        *)

UserOperations ==
  {"CreateUser", "CreateUsersWithListInput", "LoginUser", "LogoutUser",
   "DeleteUser", "GetUserByName", "UpdateUser"}

(* Pets and orders. Only an order that is not there is always refused.     *)
OtherOperation(e) ==
  /\ phase[e] \in Running
  /\ task[e].op \notin UserOperations
  /\ \E answer \in Answers(task[e].op) :
       /\ task[e].op = "PlaceOrder" /\ task[e].body = NoItems => answer = "InvalidInput"
       /\ Answer(e, answer)
  /\ UNCHANGED users

(* The handlers that give up before their first statement.                 *)
SendsStatement(k) ==
  /\ k.op \in UserOperations \ {"LogoutUser"}
  /\ k.op \in {"CreateUser", "CreateUsersWithListInput", "UpdateUser"} => k.body # NoItems
  /\ k.op = "LoginUser" => "username" \in DOMAIN k.query

(* A statement of a user operation fails.                                  *)
StatementFails(e) ==
  /\ phase[e] \in Running
  /\ SendsStatement(task[e])
  /\ Answer(e, Failed)
  /\ UNCHANGED users

Exists(n) == n \in UserNames /\ users[n] # NoUser

(* INSERT ... ON CONFLICT (username) DO UPDATE.                            *)
Upsert(user) == users' = [users EXCEPT ![user.name] = user.word]

CreateUser(e) ==
  /\ Works(e, "CreateUser")
  /\ IF task[e].body = NoItems
     THEN Answer(e, "UnexpectedError") /\ UNCHANGED users
     ELSE Answer(e, "SuccessfulOperation") /\ Upsert(Head(task[e].body))

CreateUsersWithListInput_NoProgress(e) ==
  /\ Works(e, "CreateUsersWithListInput")
  /\ CASE task[e].body = NoItems ->
            Answer(e, "UnexpectedError") /\ UNCHANGED users
       [] Len(task[e].body) = 1 ->
            Answer(e, "SuccessfulOperation") /\ Upsert(Head(task[e].body))
       [] OTHER ->
            /\ Upsert(Head(task[e].body))
            /\ task' = [task EXCEPT ![e].body = Tail(task[e].body) \o <<Head(task[e].body)>>]
            /\ UNCHANGED <<authenticator, phase, call, request, said, response, result>>

(* One statement per user of the list, without a transaction: the body is  *)
(* what is left of it.                                                     *)
CreateUsersWithListInput(e) ==
  /\ Works(e, "CreateUsersWithListInput")
  /\ CASE task[e].body = NoItems ->
            Answer(e, "UnexpectedError") /\ UNCHANGED users
       [] Len(task[e].body) = 1 ->
            Answer(e, "SuccessfulOperation") /\ Upsert(Head(task[e].body))
       [] OTHER ->
            /\ Upsert(Head(task[e].body))
            /\ task' = [task EXCEPT ![e].body = Tail(task[e].body)]
            /\ UNCHANGED <<authenticator, phase, call, request, said, response, result>>

Given(e, p, default) == IF p \in DOMAIN task[e].query THEN task[e].query[p][1] ELSE default

LoginUser(e) ==
  /\ Works(e, "LoginUser")
  /\ LET name == Given(e, "username", None)
     IN  IF name # None /\ Exists(name) /\ users[name] = Given(e, "password", "")
         THEN Answer(e, "SuccessfulOperation")
         ELSE Answer(e, "InvalidUsername")
  /\ UNCHANGED users

LogoutUser(e) ==
  /\ Works(e, "LogoutUser")
  /\ Answer(e, "SuccessfulOperation")
  /\ UNCHANGED users

DeleteUser(e) ==
  /\ Works(e, "DeleteUser")
  /\ IF Exists(task[e].key)
     THEN Answer(e, "SuccessfulOperation") /\ users' = [users EXCEPT ![task[e].key] = NoUser]
     ELSE Answer(e, "UserNotFound") /\ UNCHANGED users

GetUserByName(e) ==
  /\ Works(e, "GetUserByName")
  /\ Answer(e, IF Exists(task[e].key) THEN "SuccessfulOperation" ELSE "UserNotFound")
  /\ UNCHANGED users

UpdateUser_ByBody(e) ==
  /\ Works(e, "UpdateUser")
  /\ IF task[e].body # NoItems /\ Exists(Head(task[e].body).name)
     THEN /\ Answer(e, "SuccessfulOperation")
          /\ Upsert(Head(task[e].body))
     ELSE Answer(e, "UnexpectedError") /\ UNCHANGED users

(* The name in the path says whom, the one in the body is not looked at.   *)
UpdateUser(e) ==
  /\ Works(e, "UpdateUser")
  /\ IF task[e].body # NoItems /\ Exists(task[e].key)
     THEN /\ Answer(e, "SuccessfulOperation")
          /\ users' = [users EXCEPT ![task[e].key] = Head(task[e].body).word]
     ELSE Answer(e, "UnexpectedError") /\ UNCHANGED users

Application(e) ==
  \/ OtherOperation(e)
  \/ StatementFails(e)
  \/ CreateUser(e)
  \/ CreateUsersWithListInput(e)
  \/ LoginUser(e)
  \/ LogoutUser(e)
  \/ DeleteUser(e)
  \/ GetUserByName(e)
  \/ UpdateUser(e)

Next ==
  \E e \in Exchanges :
    \/ \E k \in Calls[e], authData \in Contexts : Send(e, k, authData)
    \/ \E k \in Calls[e] : FailToSend(e, k)
    \/ \E r \in Requests[e] : SendOther(e, r)
    \/ Serve(e)
    \/ Application(e)
    \/ Read(e)
    \/ Return(e)
    \/ LoseMessage(e)
    \/ Abandon(e)
    \/ Drop(e)

Spec == Init /\ [][Next]_vars

(* Tokio polls what can go on, PostgreSQL answers or fails every statement,*)
(* and a client that has an answer reads it. Nobody has to call.           *)
Fairness ==
  \A e \in Exchanges : WF_vars(Serve(e)) /\ WF_vars(Application(e)) /\ WF_vars(Read(e))

FairSpec == Spec /\ Fairness

-----------------------------------------------------------------------------
(* Properties.                                                             *)

Asked(e) == phase[e] = "done" /\ call[e] # NoCall

Successes == {"SuccessfulOperation", "SuccessfullyUpdated"}
OnlyFromApplication == Successes \cup {"PetNotFound", "OrderNotFound", "UserNotFound", "ValidationException"}

(* Whatever the names are: a client that is told of success is told so     *)
(* because the application said it to an exchange of that very operation,  *)
(* though GET /user/login reaches LoginUser, an awkward name ends up on    *)
(* another path, and the body may be of another type (server/mod.rs        *)
(* Service::call against client/mod.rs).                                   *)
SuccessIsDeserved ==
  \A e \in Exchanges :
    Asked(e) /\ result[e] \in Successes => said[e].call.op = call[e].op /\ said[e].answer = result[e]

(* A call whose parameters survive the journey: no name that ends its      *)
(* segment early, and not two tags, which become one.                      *)
Plain(k) ==
  /\ k.key \notin AwkwardNames
  /\ \A p \in DOMAIN k.query : k.op = "FindPetsByTags" => Len(k.query[p]) = 1

(* What the application was called with is what the client was, but for    *)
(* the users of a list that are already in.                                *)
SameCall(k, t) ==
  /\ [t EXCEPT !.body = NoItems] = [k EXCEPT !.body = NoItems]
  /\ IsSuffix(t.body, k.body)
  /\ k.body # NoItems => t.body # NoItems

(* For plain calls more holds: success, "not found" and "validation        *)
(* exception" are what the application said of these parameters. The 404   *)
(* of the router, which the client cannot tell from the application's, and *)
(* a body that was dropped never pass for one of them.                     *)
PlainResultsAreTrue ==
  \A e \in Exchanges :
    Asked(e) /\ Plain(call[e]) /\ result[e] \in OnlyFromApplication
      => SameCall(call[e], said[e].call) /\ said[e].answer = result[e]

(* What the application says reaches the client as that variant, so the    *)
(* two tables agree, with two exceptions: what it says with 500 is never a *)
(* variant, for the client looks for status 0 there, and the token of a    *)
(* login is lost, for the client parses it as XML.                         *)
Undeliverable(op, answer) ==
  Response(op, answer).code = 500 \/ (op = "LoginUser" /\ answer = "SuccessfulOperation")

AnswersArrive ==
  \A e \in Exchanges :
    Asked(e) /\ result[e] # NoAnswer /\ said[e].call.op = call[e].op
      => result[e] = IF Undeliverable(call[e].op, said[e].answer) THEN "Err" ELSE said[e].answer

(* Behind the authenticator of server_auth.rs nobody works on pets without *)
(* both scopes: not with a token for reading, even beside an api key, and  *)
(* not on another spelling of the path.                                    *)
PetOperations ==
  {"AddPet", "FindPetsByStatus", "FindPetsByTags", "UpdatePet", "DeletePet", "GetPetById",
   "UpdatePetWithForm", "UploadFile"}

PetsNeedScopes ==
  [][\A e \in Exchanges :
       task'[e].op \in PetOperations /\ task[e] = NoCall /\ authenticator = "claims"
         => \/ request[e].bearer = "full"
            \/ request[e].bearer = None /\ request[e].apiKey = "apiKey"]_vars

(* A user changes only in an exchange that names it, in the path if that   *)
(* has a name and in the body otherwise; and with plain names what the     *)
(* exchange names is what its client named, even one that has given up.    *)
Names(k, n) == IF k.key = None THEN \E i \in DOMAIN k.body : k.body[i].name = n ELSE k.key = n

UsersChangeAsNamed ==
  [][\A n \in UserNames : users'[n] # users[n] =>
       \E e \in Exchanges :
         /\ phase[e] \in Running
         /\ Names(task[e], n)
         /\ (Plain(call[e]) /\ call[e] # NoCall) => Names(call[e], n)]_vars

(* "Aside from the special characters defined in the                       *)
(* `PATH_SEGMENT_ENCODE_SET`, the vertical bar (|) is encoded"             *)
(* (client/mod.rs:36-37): were it so, the last property would hold of all  *)
(* names.                                                                  *)
AnyNameIsEncoded ==
  [][\A n \in UserNames : users'[n] # users[n] =>
       \E e \in Exchanges :
         /\ phase[e] \in Running
         /\ call[e] # NoCall => Names(call[e], n)]_vars

(* Every request that was sent ends for its client, with a result or a     *)
(* broken connection: no handler goes on for ever, and none has a time     *)
(* limit of its own.                                                       *)
RequestsEnd ==
  \A e \in Exchanges : phase[e] = "sent" ~> phase[e] \in {"idle", "abandoned", "done"}
=============================================================================
