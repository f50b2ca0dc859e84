----------------------------- MODULE HyperCalls -----------------------------
(***************************************************************************)
(* What the generated Rust crate carries over HTTP: calls of trait Api. A  *)
(* call is [op, key, header, query, body]: the path parameter, the header  *)
(* parameter, the query parameters with the values given for each, and the *)
(* items of the body. HyperClient turns a call into a request and a        *)
(* response into a result, HyperServer turns a request into a call and the *)
(* application's answer into a response. Each is a table read from its own *)
(* source: nothing makes the two agree.                                    *)
(***************************************************************************)
EXTENDS Sequences

None == "none"
NoQuery == <<>>
NoItems == <<>>

NoCall == [op |-> None, key |-> None, header |-> None, query |-> NoQuery, body |-> NoItems]

(* What trait Api lets a caller pass, beside the header of DeletePet.      *)
OperationsWithKey ==
  {"DeletePet", "GetPetById", "UpdatePetWithForm", "UploadFile", "DeleteOrder", "GetOrderById",
   "DeleteUser", "GetUserByName", "UpdateUser"}

OperationsWithBody ==
  {"AddPet", "UpdatePet", "UploadFile", "PlaceOrder", "CreateUser", "CreateUsersWithListInput",
   "UpdateUser"}

QueryParameters(op) ==
  CASE op = "FindPetsByStatus"  -> {"status"}
    [] op = "FindPetsByTags"    -> {"tags"}
    [] op = "UpdatePetWithForm" -> {"name", "status"}
    [] op = "UploadFile"        -> {"additionalMetadata"}
    [] op = "LoginUser"         -> {"username", "password"}
    [] OTHER                    -> {}

(* A header whose bytes are not a string.                                  *)
Garbled == "garbled"

(* A path segment whose percent escapes are not UTF-8.                     *)
Undecodable == "%FF"

(* The place of the path parameter in a path.                              *)
Param == "{}"
=============================================================================
