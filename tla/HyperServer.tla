---------------------------- MODULE HyperServer ----------------------------
(***************************************************************************)
(* The server side of the generated crate, src/server/mod.rs: the router,  *)
(* the authorization, and one entry per handler that says how it reads the *)
(* request and which status it gives to what the application says.         *)
(***************************************************************************)
EXTENDS HyperCalls, Naturals

-----------------------------------------------------------------------------
(* Paths. A pattern is a sequence of segments in which Param stands for    *)
(* [^/?#]*, that is for any one segment, the empty one included.           *)

Matched(pattern, path) ==
  /\ Len(pattern) = Len(path)
  /\ \A i \in DOMAIN pattern : pattern[i] \in {Param, path[i]}

Paths ==
  [PET                  |-> <<"pet">>,
   PET_FINDBYSTATUS     |-> <<"pet", "findByStatus">>,
   PET_FINDBYTAGS       |-> <<"pet", "findByTags">>,
   PET_PETID            |-> <<"pet", Param>>,
   PET_PETID_UPLOADIMAGE |-> <<"pet", Param, "uploadImage">>,
   STORE_INVENTORY      |-> <<"store", "inventory">>,
   STORE_ORDER          |-> <<"store", "order">>,
   STORE_ORDER_ORDERID  |-> <<"store", "order", Param>>,
   USER                 |-> <<"user">>,
   USER_CREATEWITHLIST  |-> <<"user", "createWithList">>,
   USER_LOGIN           |-> <<"user", "login">>,
   USER_LOGOUT          |-> <<"user", "logout">>,
   USER_USERNAME        |-> <<"user", Param>>]

Route(method, path, op) == [method |-> method, path |-> Paths[path], op |-> op]

(* The arms of the match in Service::call, in their order: the first one   *)
(* that matches wins.                                                      *)
Routes ==
  << Route("POST",   "PET",                   "AddPet"),
     Route("GET",    "PET_FINDBYSTATUS",      "FindPetsByStatus"),
     Route("GET",    "PET_FINDBYTAGS",        "FindPetsByTags"),
     Route("PUT",    "PET",                   "UpdatePet"),
     Route("DELETE", "PET_PETID",             "DeletePet"),
     Route("GET",    "PET_PETID",             "GetPetById"),
     Route("POST",   "PET_PETID",             "UpdatePetWithForm"),
     Route("POST",   "PET_PETID_UPLOADIMAGE", "UploadFile"),
     Route("GET",    "STORE_INVENTORY",       "GetInventory"),
     Route("POST",   "STORE_ORDER",           "PlaceOrder"),
     Route("DELETE", "STORE_ORDER_ORDERID",   "DeleteOrder"),
     Route("GET",    "STORE_ORDER_ORDERID",   "GetOrderById"),
     Route("POST",   "USER",                  "CreateUser"),
     Route("POST",   "USER_CREATEWITHLIST",   "CreateUsersWithListInput"),
     Route("GET",    "USER_LOGIN",            "LoginUser"),
     Route("GET",    "USER_LOGOUT",           "LogoutUser"),
     Route("DELETE", "USER_USERNAME",         "DeleteUser"),
     Route("GET",    "USER_USERNAME",         "GetUserByName"),
     Route("PUT",    "USER_USERNAME",         "UpdateUser") >>

Candidates(r) == {i \in DOMAIN Routes : Routes[i].method = r.method /\ Matched(Routes[i].path, r.path)}

FirstRoute(r) == Routes[CHOOSE i \in Candidates(r) : \A j \in Candidates(r) : i <= j]

(* The operation a request is for, or None.                                *)
Dispatched(r) == IF Candidates(r) = {} THEN None ELSE FirstRoute(r).op

(* A path of the API with a method it does not have, or no path of it.     *)
Undispatched(r) == IF \E p \in DOMAIN Paths : Matched(Paths[p], r.path) THEN 405 ELSE 404

(* What percent_decode makes of a segment.                                 *)
Decoded(segment) == IF segment = "%61lice" THEN "alice" ELSE segment

(* The segments that parse as i64, and the values that parse as a status.  *)
Numerals == {"1", "2"}
Statuses == {"available", "pending", "sold"}

-----------------------------------------------------------------------------
(* Who is asking. The context middleware looks for a bearer token first    *)
(* and for an api key only when there is none.                             *)

AuthData(r) ==
  CASE r.bearer # None -> r.bearer
    [] r.bearer = None /\ r.apiKey \notin {None, Garbled} -> "apiKey"
    [] OTHER -> None

RequiredScopes == {"write:pets", "read:pets"}

Authorized(scopes) == [present |-> TRUE, scopes |-> scopes]
Unauthenticated == [present |-> FALSE, scopes |-> {}]

(* The scopes of the tokens in circulation: one may do everything, one may *)
(* only read.                                                              *)
Tokens == [full |-> RequiredScopes, narrow |-> {"read:pets"}]

(* "allowAll" lets everybody do everything, as server.rs has it; "claims"  *)
(* asks AuthenticationApi, as server_auth.rs implements it.                *)
Authorization(authenticator, authData) ==
  CASE authenticator = "allowAll"  -> Authorized(RequiredScopes)
    [] authenticator = "claims" /\ authData \in DOMAIN Tokens -> Authorized(Tokens[authData])
    [] authenticator = "claims" /\ authData = "apiKey" -> Authorized(RequiredScopes)
    [] OTHER -> Unauthenticated

-----------------------------------------------------------------------------
(* The handlers of the server. Each says                                   *)
(*   access  "scopes", "anybody", or "somebody" (authenticated, any scopes),*)
(*   key     how it parses the path parameter,                             *)
(*   query   how it parses each query parameter it knows: "status" must be *)
(*           one of the statuses, of "first" only the first value counts,  *)
(*           "all" takes every value as one,                               *)
(*   body    whether it must be there and parse ("required"), is dropped   *)
(*           when it does not ("optional", "list": always JSON), is taken  *)
(*           as it is ("bytes"), or is not looked at,                      *)
(*   yields  the type of the body of its success response,                 *)
(*   status  the code for each thing the application may say.              *)

Handler(access, key, query, body, yields, status) ==
  [access |-> access, key |-> key, query |-> query, body |-> body, yields |-> yields, status |-> status]

HandleAddPet ==
  Handler("scopes", None, NoQuery, "required", "Pet",
    [SuccessfulOperation |-> 200, InvalidInput |-> 400, ValidationException |-> 422,
     UnexpectedError |-> 500])

HandleFindPetsByStatus ==
  Handler("scopes", None, [status |-> "status"], None, "Pets",
    [SuccessfulOperation |-> 200, InvalidStatusValue |-> 400, UnexpectedError |-> 500])

HandleFindPetsByTags ==
  Handler("scopes", None, [tags |-> "all"], None, "Pets",
    [SuccessfulOperation |-> 200, InvalidTagValue |-> 400, UnexpectedError |-> 500])

HandleUpdatePet ==
  Handler("scopes", None, NoQuery, "required", "Pet",
    [SuccessfulOperation |-> 200, InvalidIDSupplied |-> 400, PetNotFound |-> 404,
     ValidationException |-> 422, UnexpectedError |-> 500])

HandleDeletePet_NoScopes ==
  Handler("somebody", "i64", NoQuery, None, "empty",
    [SuccessfulOperation |-> 200, InvalidPetValue |-> 400, UnexpectedError |-> 500])

HandleDeletePet ==
  Handler("scopes", "i64", NoQuery, None, "empty",
    [SuccessfulOperation |-> 200, InvalidPetValue |-> 400, UnexpectedError |-> 500])

HandleGetPetById ==
  Handler("scopes", "i64", NoQuery, None, "Pet",
    [SuccessfulOperation |-> 200, InvalidIDSupplied |-> 400, PetNotFound |-> 404,
     UnexpectedError |-> 500])

HandleUpdatePetWithForm ==
  Handler("scopes", "i64", [name |-> "first", status |-> "first"], None, "empty",
    [SuccessfullyUpdated |-> 200, InvalidInput |-> 400, UnexpectedError |-> 500])

HandleUploadFile_NoBody ==
  Handler("scopes", "i64", [additionalMetadata |-> "first"], None, "ApiResponse",
    [SuccessfulOperation |-> 200, UnexpectedError |-> 500])

HandleUploadFile ==
  Handler("scopes", "i64", [additionalMetadata |-> "first"], "bytes", "ApiResponse",
    [SuccessfulOperation |-> 200, UnexpectedError |-> 500])

HandleGetInventory ==
  Handler("somebody", None, NoQuery, None, "Inventory",
    [SuccessfulOperation |-> 200, UnexpectedError |-> 500])

HandlePlaceOrder ==
  Handler("anybody", None, NoQuery, "optional", "Order",
    [SuccessfulOperation |-> 200, InvalidInput |-> 400, ValidationException |-> 422,
     UnexpectedError |-> 500])

HandleDeleteOrder_SwappedCodes ==
  Handler("anybody", "i64", NoQuery, None, "empty",
    [SuccessfulOperation |-> 200, InvalidIDSupplied |-> 404, OrderNotFound |-> 400,
     UnexpectedError |-> 500])

HandleDeleteOrder ==
  Handler("anybody", "i64", NoQuery, None, "empty",
    [SuccessfulOperation |-> 200, InvalidIDSupplied |-> 400, OrderNotFound |-> 404,
     UnexpectedError |-> 500])

HandleGetOrderById ==
  Handler("anybody", "i64", NoQuery, None, "Order",
    [SuccessfulOperation |-> 200, InvalidIDSupplied |-> 400, OrderNotFound |-> 404,
     UnexpectedError |-> 500])

HandleCreateUser ==
  Handler("anybody", None, NoQuery, "optional", "User",
    [SuccessfulOperation |-> 200, UnexpectedError |-> 500])

HandleCreateUsersWithListInput ==
  Handler("anybody", None, NoQuery, "list", "User",
    [SuccessfulOperation |-> 200, UnexpectedError |-> 500])

HandleLoginUser ==
  Handler("anybody", None, [username |-> "first", password |-> "first"], None, "text",
    [SuccessfulOperation |-> 200, InvalidUsername |-> 400, UnexpectedError |-> 500])

HandleLogoutUser ==
  Handler("anybody", None, NoQuery, None, "empty",
    [SuccessfulOperation |-> 200, SuccessfulOperation_2 |-> 500])

HandleDeleteUser ==
  Handler("anybody", "string", NoQuery, None, "empty",
    [SuccessfulOperation |-> 200, InvalidUsernameSupplied |-> 400, UserNotFound |-> 404,
     UnexpectedError |-> 500])

HandleGetUserByName ==
  Handler("anybody", "string", NoQuery, None, "User",
    [SuccessfulOperation |-> 200, InvalidUsernameSupplied |-> 400, UserNotFound |-> 404,
     UnexpectedError |-> 500])

HandleUpdateUser ==
  Handler("anybody", "string", NoQuery, "optional", "empty",
    [SuccessfulOperation |-> 200, UnexpectedError |-> 500])

Handlers ==
  [AddPet |-> HandleAddPet, FindPetsByStatus |-> HandleFindPetsByStatus,
   FindPetsByTags |-> HandleFindPetsByTags, UpdatePet |-> HandleUpdatePet,
   DeletePet |-> HandleDeletePet, GetPetById |-> HandleGetPetById,
   UpdatePetWithForm |-> HandleUpdatePetWithForm, UploadFile |-> HandleUploadFile,
   GetInventory |-> HandleGetInventory, PlaceOrder |-> HandlePlaceOrder,
   DeleteOrder |-> HandleDeleteOrder, GetOrderById |-> HandleGetOrderById,
   CreateUser |-> HandleCreateUser, CreateUsersWithListInput |-> HandleCreateUsersWithListInput,
   LoginUser |-> HandleLoginUser, LogoutUser |-> HandleLogoutUser,
   DeleteUser |-> HandleDeleteUser, GetUserByName |-> HandleGetUserByName,
   UpdateUser |-> HandleUpdateUser]

Operations == DOMAIN Handlers

-----------------------------------------------------------------------------
(* Service::call and the part of a handler before the application.         *)

Forbidden(h, authorization) ==
  \/ h.access # "anybody" /\ ~authorization.present
  \/ h.access = "scopes" /\ ~(RequiredScopes \subseteq authorization.scopes)

(* The path parameter: what stands in the place of Param.                  *)
KeyOf(r) ==
  LET places == {i \in DOMAIN r.path : FirstRoute(r).path[i] = Param}
  IN  IF places = {} THEN None ELSE Decoded(r.path[CHOOSE i \in places : TRUE])

BadKey(h, r) ==
  \/ h.key # None /\ KeyOf(r) = Undecodable
  \/ h.key = "i64" /\ KeyOf(r) \notin Numerals

(* Only DeletePet has a header parameter.                                  *)
HeaderOf(op, r) == IF op = "DeletePet" THEN r.apiKey ELSE None

Known(h, r) == DOMAIN h.query \cap DOMAIN r.query

BadQuery(h, r) == \E k \in Known(h, r) : h.query[k] = "status" /\ r.query[k][1] \notin Statuses

QueryOf(h, r) ==
  [k \in Known(h, r) |-> IF h.query[k] = "all" THEN r.query[k] ELSE <<r.query[k][1]>>]

(* Any label but application/json is taken for XML, except by "list".      *)
Parses(h, r) == r.body.format = (IF h.body = "list" \/ r.label = "json" THEN "json" ELSE "xml")

BadBody(h, r) == h.body = "required" /\ ~Parses(h, r)

BodyOf(h, r) ==
  IF h.body = "bytes" \/ (h.body # None /\ Parses(h, r)) THEN r.body.items ELSE NoItems

(* The call the application gets for a request it gets at all.             *)
Received(op, r) ==
  LET h == Handlers[op]
  IN  [op |-> op, key |-> KeyOf(r), header |-> HeaderOf(op, r),
       query |-> QueryOf(h, r), body |-> BodyOf(h, r)]

(* The code the server answers with on its own, or 0 when it asks the      *)
(* application.                                                            *)
Refusal(r, authorization) ==
  IF Dispatched(r) = None THEN Undispatched(r)
  ELSE LET op == Dispatched(r)
           h  == Handlers[op]
       IN  CASE Forbidden(h, authorization) -> 403
             [] ~Forbidden(h, authorization)
                /\ (BadKey(h, r) \/ HeaderOf(op, r) = Garbled \/ BadQuery(h, r) \/ BadBody(h, r)) -> 400
             [] OTHER -> 0

-----------------------------------------------------------------------------
(* The part of a handler after the application.                            *)

Failed == "Err"     \* the application returned an ApiError

(* What the application may say to an operation.                           *)
Answers(op) == DOMAIN Handlers[op].status \cup {Failed}

Response_NoContent(op, answer) ==
  LET code == CASE answer = Failed -> 500
                [] answer # Failed /\ Handlers[op].yields = "empty" -> 204
                [] OTHER -> Handlers[op].status[answer]
  IN  [code |-> code, body |-> IF code = 200 THEN Handlers[op].yields ELSE "other"]

Response(op, answer) ==
  LET code == IF answer = Failed THEN 500 ELSE Handlers[op].status[answer]
  IN  [code |-> code, body |-> IF code = 200 THEN Handlers[op].yields ELSE "other"]

Refused(code) == [code |-> code, body |-> "other"]
=============================================================================
