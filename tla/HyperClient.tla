---------------------------- MODULE HyperClient ----------------------------
(***************************************************************************)
(* The client side of the generated crate, src/client/mod.rs: one entry    *)
(* per method of the client that says how the call becomes a request and   *)
(* which variant it makes of which status.                                 *)
(***************************************************************************)
EXTENDS HyperCalls, Naturals, SequencesExt

(* What a method of the client does:                                       *)
(*   method, path   the request line; Param is the path parameter,         *)
(*   sends   the kinds of credentials of its context that it passes on,    *)
(*   body    the format and the label of the body it sends,                *)
(*   reads   the type as which it parses the body of a success response,   *)
(*   status  the code it looks for, for each variant it can return.        *)
Method(method, path, sends, body, reads, status) ==
  [method |-> method, path |-> path, sends |-> sends, body |-> body, reads |-> reads, status |-> status]

NoBody == [format |-> "empty", label |-> None]
XmlAsJson == [format |-> "xml", label |-> "json"]     \* as_xml() under application/json
JsonBody == [format |-> "json", label |-> "json"]
Bytes == [format |-> "bytes", label |-> "bytes"]

CallAddPet ==
  Method("POST", <<"pet">>, {"bearer"}, XmlAsJson, "Pet",
    [SuccessfulOperation |-> 200, InvalidInput |-> 400, ValidationException |-> 422,
     UnexpectedError |-> 0])

CallFindPetsByStatus ==
  Method("GET", <<"pet", "findByStatus">>, {"bearer"}, NoBody, "Pets",
    [SuccessfulOperation |-> 200, InvalidStatusValue |-> 400, UnexpectedError |-> 0])

CallFindPetsByTags ==
  Method("GET", <<"pet", "findByTags">>, {"bearer"}, NoBody, "Pets",
    [SuccessfulOperation |-> 200, InvalidTagValue |-> 400, UnexpectedError |-> 0])

CallUpdatePet ==
  Method("PUT", <<"pet">>, {"bearer"}, XmlAsJson, "Pet",
    [SuccessfulOperation |-> 200, InvalidIDSupplied |-> 400, PetNotFound |-> 404,
     ValidationException |-> 422, UnexpectedError |-> 0])

CallDeletePet ==
  Method("DELETE", <<"pet", Param>>, {"bearer"}, NoBody, "nothing",
    [SuccessfulOperation |-> 200, InvalidPetValue |-> 400, UnexpectedError |-> 0])

CallGetPetById ==
  Method("GET", <<"pet", Param>>, {"bearer", "apiKey"}, NoBody, "Pet",
    [SuccessfulOperation |-> 200, InvalidIDSupplied |-> 400, PetNotFound |-> 404,
     UnexpectedError |-> 0])

CallUpdatePetWithForm ==
  Method("POST", <<"pet", Param>>, {"bearer"}, NoBody, "nothing",
    [SuccessfullyUpdated |-> 200, InvalidInput |-> 400, UnexpectedError |-> 0])

CallUploadFile ==
  Method("POST", <<"pet", Param, "uploadImage">>, {"bearer"}, Bytes, "ApiResponse",
    [SuccessfulOperation |-> 200, UnexpectedError |-> 0])

CallGetInventory ==
  Method("GET", <<"store", "inventory">>, {"apiKey"}, NoBody, "Inventory",
    [SuccessfulOperation |-> 200, UnexpectedError |-> 0])

CallPlaceOrder ==
  Method("POST", <<"store", "order">>, {}, XmlAsJson, "Order",
    [SuccessfulOperation |-> 200, InvalidInput |-> 400, ValidationException |-> 422,
     UnexpectedError |-> 0])

CallDeleteOrder ==
  Method("DELETE", <<"store", "order", Param>>, {}, NoBody, "nothing",
    [SuccessfulOperation |-> 200, InvalidIDSupplied |-> 400, OrderNotFound |-> 404,
     UnexpectedError |-> 0])

CallGetOrderById ==
  Method("GET", <<"store", "order", Param>>, {}, NoBody, "Order",
    [SuccessfulOperation |-> 200, InvalidIDSupplied |-> 400, OrderNotFound |-> 404,
     UnexpectedError |-> 0])

CallCreateUser ==
  Method("POST", <<"user">>, {}, XmlAsJson, "User",
    [SuccessfulOperation |-> 200, UnexpectedError |-> 0])

CallCreateUsersWithListInput ==
  Method("POST", <<"user", "createWithList">>, {}, JsonBody, "User",
    [SuccessfulOperation |-> 200, UnexpectedError |-> 0])

(* The body of a login is parsed as an XML document, which a plain text is *)
(* not.                                                                    *)
CallLoginUser ==
  Method("GET", <<"user", "login">>, {}, NoBody, "xml document",
    [SuccessfulOperation |-> 200, InvalidUsername |-> 400, UnexpectedError |-> 0])

CallLogoutUser ==
  Method("GET", <<"user", "logout">>, {}, NoBody, "nothing",
    [SuccessfulOperation |-> 200, SuccessfulOperation_2 |-> 0])

CallDeleteUser ==
  Method("DELETE", <<"user", Param>>, {}, NoBody, "nothing",
    [SuccessfulOperation |-> 200, InvalidUsernameSupplied |-> 400, UserNotFound |-> 404,
     UnexpectedError |-> 0])

CallGetUserByName_Unparsed ==
  Method("GET", <<"user", Param>>, {}, NoBody, "nothing",
    [SuccessfulOperation |-> 200, InvalidUsernameSupplied |-> 400, UserNotFound |-> 404,
     UnexpectedError |-> 0])

CallGetUserByName ==
  Method("GET", <<"user", Param>>, {}, NoBody, "User",
    [SuccessfulOperation |-> 200, InvalidUsernameSupplied |-> 400, UserNotFound |-> 404,
     UnexpectedError |-> 0])

CallUpdateUser ==
  Method("PUT", <<"user", Param>>, {}, XmlAsJson, "nothing",
    [SuccessfulOperation |-> 200, UnexpectedError |-> 0])

Methods ==
  [AddPet |-> CallAddPet, FindPetsByStatus |-> CallFindPetsByStatus,
   FindPetsByTags |-> CallFindPetsByTags, UpdatePet |-> CallUpdatePet,
   DeletePet |-> CallDeletePet, GetPetById |-> CallGetPetById,
   UpdatePetWithForm |-> CallUpdatePetWithForm, UploadFile |-> CallUploadFile,
   GetInventory |-> CallGetInventory, PlaceOrder |-> CallPlaceOrder,
   DeleteOrder |-> CallDeleteOrder, GetOrderById |-> CallGetOrderById,
   CreateUser |-> CallCreateUser, CreateUsersWithListInput |-> CallCreateUsersWithListInput,
   LoginUser |-> CallLoginUser, LogoutUser |-> CallLogoutUser,
   DeleteUser |-> CallDeleteUser, GetUserByName |-> CallGetUserByName,
   UpdateUser |-> CallUpdateUser]

-----------------------------------------------------------------------------
(* From a call to a request.                                               *)

(* The segments a path parameter makes once it is written into the URI.    *)
(* ID_ENCODE_SET encodes neither the slash nor ? # or %, so these names    *)
(* end the segment, or the path, early; other names stay as they are.      *)
AwkwardNames == {"alice/pets", "alice?x", "alice#x", "%61lice"}

Segments(key) ==
  CASE key = "alice/pets"            -> <<"alice", "pets">>
    [] key \in {"alice?x", "alice#x"} -> <<"alice">>
    [] OTHER                         -> <<key>>

PathOf(k) ==
  FlattenSeq([i \in DOMAIN Methods[k.op].path |->
    IF Methods[k.op].path[i] = Param THEN Segments(k.key) ELSE <<Methods[k.op].path[i]>>])

(* Tags are joined by commas into one value.                               *)
Joined(tags) == FoldLeft(LAMBDA joined, tag : joined \o "," \o tag, Head(tags), Tail(tags))

SentQuery(k) == IF k.op = "FindPetsByTags" THEN [p \in DOMAIN k.query |-> <<Joined(k.query[p])>>] ELSE k.query

SentBody(k) ==
  [format |-> IF k.body = NoItems THEN "empty" ELSE Methods[k.op].body.format, items |-> k.body]

(* authData is what the context of the client holds: None, "apiKey", or a  *)
(* token. DeletePet sends the api key it is called with.                   *)
Sent(k, authData) ==
  LET m == Methods[k.op]
  IN  [method |-> m.method,
       path   |-> PathOf(k),
       query  |-> SentQuery(k),
       bearer |-> IF "bearer" \in m.sends /\ authData # "apiKey" THEN authData ELSE None,
       apiKey |-> IF k.header # None THEN k.header
                  ELSE IF "apiKey" \in m.sends /\ authData = "apiKey" THEN "apiKey" ELSE None,
       body   |-> SentBody(k),
       label  |-> m.body.label]

(* Calls that fail before anything is sent: a header that is no string,    *)
(* and a file that is not UTF-8, over which upload_file panics.            *)
Unsendable(k) == k.header = Garbled
Panics(k) == k.op = "UploadFile" /\ \E i \in DOMAIN k.body : k.body[i].name = "binary"

-----------------------------------------------------------------------------
(* From a response to a result: a variant, or "Err" for a code the method  *)
(* does not know and for a body that does not parse.                       *)

Readable(op, r) == r.code = 200 => Methods[op].reads \in {"nothing", r.body}

ResultOf(op, r) ==
  LET known == {v \in DOMAIN Methods[op].status : Methods[op].status[v] = r.code}
  IN  IF known # {} /\ Readable(op, r) THEN CHOOSE v \in known : TRUE ELSE "Err"
=============================================================================
