-------------------------- MODULE MCHyperExchange --------------------------
EXTENDS HyperExchange, TLC

CONSTANTS e1, e2

K(op, key, header, query, body) ==
  [op |-> op, key |-> key, header |-> header, query |-> query, body |-> body]

Item(name, word) == [name |-> name, word |-> word]
Rex == <<Item("rex", "p1")>>

PetCalls ==
  {K("AddPet", None, None, NoQuery, Rex), K("UpdatePet", None, None, NoQuery, Rex),
   K("FindPetsByStatus", None, None, NoQuery, NoItems),
   K("FindPetsByStatus", None, None, [status |-> <<"sold">>], NoItems),
   K("FindPetsByTags", None, None, [tags |-> <<"a">>], NoItems),
   K("FindPetsByTags", None, None, [tags |-> <<"a", "b">>], NoItems),
   K("DeletePet", "1", None, NoQuery, NoItems), K("DeletePet", "1", "apiKey", NoQuery, NoItems),
   K("DeletePet", "1", Garbled, NoQuery, NoItems),
   K("GetPetById", "1", None, NoQuery, NoItems),
   K("UpdatePetWithForm", "1", None, [name |-> <<"rex">>, status |-> <<"lost">>], NoItems),
   K("UploadFile", "1", None, [additionalMetadata |-> <<"a">>], <<Item("text", "p1")>>),
   K("UploadFile", "1", None, NoQuery, <<Item("binary", "p1")>>),
   K("UploadFile", "1", None, NoQuery, NoItems)}

StoreCalls ==
  {K("GetInventory", None, None, NoQuery, NoItems),
   K("PlaceOrder", None, None, NoQuery, <<Item("order", "p1")>>),
   K("PlaceOrder", None, None, NoQuery, NoItems),
   K("DeleteOrder", "1", None, NoQuery, NoItems), K("GetOrderById", "1", None, NoQuery, NoItems)}

UserCallsOf(names) ==
  {K("CreateUser", None, None, NoQuery, <<Item("alice", "p1")>>),
   K("CreateUsersWithListInput", None, None, NoQuery, <<Item("alice", "p1"), Item("login", "p2")>>),
   K("CreateUsersWithListInput", None, None, NoQuery, NoItems),
   K("LoginUser", None, None, [username |-> <<"alice">>, password |-> <<"p1">>], NoItems),
   K("LoginUser", None, None, NoQuery, NoItems),
   K("LogoutUser", None, None, NoQuery, NoItems)}
  \cup {K(op, n, None, NoQuery, NoItems) : op \in {"DeleteUser", "GetUserByName"}, n \in names}
  \cup {K("UpdateUser", n, None, NoQuery, <<Item(n, "p2")>>) : n \in names}

AllCalls == PetCalls \cup StoreCalls \cup UserCallsOf({"alice", "login", "logout"} \cup AwkwardNames)
(* What goes on beside: a list of users, and the removal of one of them.   *)
Beside ==
  {k \in AllCalls : \/ k.op = "CreateUsersWithListInput" /\ k.body # NoItems
                    \/ k.op = "DeleteUser" /\ k.key = "alice"}

MCCalls == e1 :> AllCalls @@ e2 :> Beside

R(method, path, query, bearer, apiKey, format, label, items) ==
  [method |-> method, path |-> path, query |-> query, bearer |-> bearer, apiKey |-> apiKey,
   body |-> [format |-> format, items |-> items], label |-> label]

(* What a client may send that is not generated: bodies in their own       *)
(* format, bad or missing parameters, two kinds of credentials, unknown    *)
(* methods and paths.                                                      *)
OtherRequests ==
  {R("POST", <<"user">>, NoQuery, None, None, "json", "json", <<Item("alice", "p2")>>),
   R("POST", <<"pet">>, NoQuery, "narrow", "apiKey", "xml", "xml", Rex),
   R("POST", <<"pet">>, NoQuery, "full", None, "empty", None, NoItems),
   R("PUT", <<"user", "%61lice">>, NoQuery, None, None, "xml", "xml", <<Item("login", "p1")>>),
   R("DELETE", <<"pet", "findByTags">>, NoQuery, "full", None, "empty", None, NoItems),
   R("DELETE", <<"pet", Undecodable>>, NoQuery, "full", None, "empty", None, NoItems),
   R("DELETE", <<"user", Undecodable>>, NoQuery, None, None, "empty", None, NoItems),
   R("DELETE", <<"pet", "1">>, NoQuery, None, Garbled, "empty", None, NoItems),
   R("GET", <<"pet", "findByStatus">>, [status |-> <<"lost">>], None, "apiKey", "empty", None, NoItems),
   R("GET", <<"pet", "findByTags">>, [tags |-> <<"a", "b">>, page |-> <<"1">>], None, "apiKey", "empty", None, NoItems),
   R("GET", <<"user", "login">>, [username |-> <<"alice">>, password |-> <<"p2">>], None, None, "empty", None, NoItems),
   R("PATCH", <<"user", "alice">>, NoQuery, None, None, "empty", None, NoItems),
   R("GET", <<"owner">>, NoQuery, None, None, "empty", None, NoItems)}

OneCalls == e1 :> AllCalls
NoRequests == e1 :> {}

MCRequests == e1 :> OtherRequests @@ e2 :> {}
=============================================================================
